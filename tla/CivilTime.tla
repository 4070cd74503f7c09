----------------------------- MODULE CivilTime ------------------------------
(***************************************************************************)
(* The Gregorian calendar and the time zone of the site, as the code gets  *)
(* them from datetime and zoneinfo.  A day is the number of days since     *)
(* Monday, 1 January 2024, an hour the number of hours since its midnight, *)
(* in UTC or on the clocks of Europe/Berlin; a month is the number of      *)
(* months since January 2024.  Good until 2099.                            *)
(***************************************************************************)
EXTENDS Integers, Sequences

DaysBefore == <<0, 31, 59, 90, 120, 151, 181, 212, 243, 273, 304, 334>>

(* The first day of a month.                                               *)
FirstDay(m) ==
    LET year == m \div 12
        leapDay == IF year % 4 = 0 /\ m % 12 > 1 THEN 1 ELSE 0
    IN  365 * year + (year + 3) \div 4 + DaysBefore[(m % 12) + 1] + leapDay

MonthOf(day) ==
    CHOOSE m \in day \div 31 .. day \div 28 : FirstDay(m) <= day /\ day < FirstDay(m + 1)

Day(hour) == hour \div 24
Weekday(day) == day % 7     \* Monday is 0, as for date.weekday()
Saturday == 5
Sunday == 6

LastSunday(m) == LET last == FirstDay(m + 1) - 1 IN last - ((last + 1) % 7)

(* Summer time begins and ends at 01:00 UTC.                               *)
SummerFrom(day) == 24 * LastSunday(12 * (MonthOf(day) \div 12) + 2)
SummerTo(day) == 24 * LastSunday(12 * (MonthOf(day) \div 12) + 9)

Offset(h) == IF SummerFrom(Day(h)) + 1 <= h /\ h < SummerTo(Day(h)) + 1 THEN 2 ELSE 1

(* The clocks in Berlin, and back: an hour there is twice is the first of  *)
(* the two, one there is not is read with the offset before the change.    *)
Berlin(h) == h + Offset(h)
FromBerlin(w) == IF SummerFrom(Day(w)) + 3 <= w /\ w < SummerTo(Day(w)) + 3 THEN w - 2 ELSE w - 1

(* The second of two hours the clocks show alike.                          *)
Repeated(h) == FromBerlin(Berlin(h)) # h
=============================================================================
