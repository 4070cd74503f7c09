---------------------------- MODULE ServiceDates ----------------------------
(***************************************************************************)
(* Where the code computes with dates: the default window of a search for  *)
(* events, the months a request marks as synced, the Saturdays the         *)
(* workshop offers.                                                        *)
(***************************************************************************)
EXTENDS CivilTime

(* CalDAVService.get_events at the hour h without a start_date: the day    *)
(* the search begins.                                                      *)
SearchStart(h) == FirstDay(MonthOf(Day(h)))

(* The day it ends without an end_date: ~62 days ahead, snapped to the     *)
(* first.  SearchEndEarly is the slip of jumping two months of 30 days.    *)
SearchEndEarly(start) == FirstDay(MonthOf(start + 60))
SearchEnd(start) == FirstDay(MonthOf(start + 62))

(* _synced_months_key: the loop over months as year and month, in the zone *)
(* of the range.  KeysBefore is the slip of writing < for <=.              *)
YearMonth(day) == <<2024 + MonthOf(day) \div 12, (MonthOf(day) % 12) + 1>>
NextMonth(ym) == IF ym[2] = 12 THEN <<ym[1] + 1, 1>> ELSE <<ym[1], ym[2] + 1>>
MidnightOf(ym) == 24 * FirstDay(12 * (ym[1] - 2024) + ym[2] - 1)
KeysBefore(start, end) ==
    LET from[ym \in (2024 .. 2099) \X (1 .. 12)] ==
            IF MidnightOf(ym) < end THEN {ym} \cup from[NextMonth(ym)] ELSE {}
    IN  from[YearMonth(Day(start))]
SyncedMonthKeys(start, end) ==
    LET from[ym \in (2024 .. 2099) \X (1 .. 12)] ==
            IF MidnightOf(ym) <= end THEN {ym} \cup from[NextMonth(ym)] ELSE {}
    IN  from[YearMonth(Day(start))]

(* generate_available_slots on a day: the next Saturday and three more.    *)
(* ListedThisWeek is the slip of leaving out the modulo.                   *)
ListedThisWeek(today) == {today + (Saturday - Weekday(today)) + 7 * w : w \in 0 .. 3}
ListedSaturdays(today) == {today + ((Saturday - Weekday(today)) % 7) + 7 * w : w \in 0 .. 3}
=============================================================================
