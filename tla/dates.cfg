\* A clock through 2024 and 2025, hour by hour: search windows, month keys, Saturdays and times of events against what they are for, over the turn of the year, the leap day and the changes of the clocks.
SPECIFICATION Spec
CHECK_DEADLOCK FALSE
INVARIANT WindowReachesNextMonth
INVARIANT KeysAreMonthsTouched
INVARIANT OffersComingSaturdays
INVARIANT WrittenIsReadBack
INVARIANT WholeDaysKeepDates
INVARIANT DeletesOneOccurrence
INVARIANT EditKeepsOccurrences
INVARIANT EditUndoesShift
CONSTANTS
    FirstHour = 0
    LastHour = 17544
    Lengths = {0, 1, 24, 648, 744, 9600}
    Spans = {1, 3}
    Counts = {1, 4}
