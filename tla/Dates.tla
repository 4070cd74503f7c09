------------------------------- MODULE Dates --------------------------------
(***************************************************************************)
(* A clock that runs through the hours of some years; at each hour the     *)
(* date functions are compared with what they are for.                     *)
(***************************************************************************)
EXTENDS ServiceDates, EventTimes

CONSTANTS
    FirstHour, LastHour,    \* the hours the clock runs through
    Lengths,                \* the lengths of the ranges clients ask for, in hours
    Spans,                  \* the lengths of events, in hours
    Counts                  \* how often they repeat

ASSUME HoursAssumption ==
    /\ FirstHour \in Nat /\ LastHour \in Nat
    /\ Lengths \subseteq Nat /\ Spans \subseteq Nat \ {0} /\ Counts \subseteq Nat \ {0}

VARIABLE now    \* the hour, in UTC

Init == now = FirstHour
Tick == now < LastHour /\ now' = now + 1
Spec == Init /\ [][Tick]_now

-----------------------------------------------------------------------------
(* Without dates the window is the current month and the next (docstring   *)
(* of get_events); with a start it holds at least the month after it, and  *)
(* at most the one after that.                                             *)
WindowReachesNextMonth ==
    /\ SearchEnd(SearchStart(now)) = FirstDay(MonthOf(Day(now)) + 2)
    /\ SearchEnd(Day(now)) \in {FirstDay(MonthOf(Day(now)) + n) : n \in {2, 3}}

(* The keys of a range are the months it touches, also over the turn of    *)
(* the year.  The end counts as in the range, as in date_helpers.py (the   *)
(* docstring of CalDAVService.get_events calls it exclusive): a month that *)
(* begins just then is touched (SyncedMonths of CalendarData says the same *)
(* of months of one length).                                               *)
KeysAreMonthsTouched ==
    \A length \in Lengths :
        SyncedMonthKeys(now, now + length) =
            {YearMonth(FirstDay(m)) : m \in MonthOf(Day(now)) .. MonthOf(Day(now + length))}

(* The workshop offers the next four Saturdays as the calendar on the wall *)
(* has them; but on Sunday, until the day begins in UTC, yesterday still.  *)
OffersComingSaturdays ==
    LET today == Day(Berlin(now))
    IN  \/ ListedSaturdays(Day(now)) = {d \in today .. today + 27 : Weekday(d) = Saturday}
        \/ Weekday(today) = Sunday /\ Berlin(now) % 24 < Offset(now)

-----------------------------------------------------------------------------
Weekly(allDay, span, count, exdates) ==
    [start |-> now, end |-> now + span, allDay |-> allDay, count |-> count, exdates |-> exdates]

(* A timed event comes back as it was written: the row stored by a write   *)
(* is what the next sync reads.  Except the second of two hours the clocks *)
(* show alike.                                                             *)
WrittenIsReadBack ==
    \A zone \in {"utc", "zoned"}, span \in Spans :
        LET ev == Weekly(FALSE, span, 1, {})
        IN  \/ ParseEvent(CreateIcal(ev, zone)) = ev
            \/ zone = "zoned" /\ (Repeated(now) \/ Repeated(now + span))

(* A whole day keeps its dates, not its times: whenever it begins and ends *)
(* it comes back as the midnights in UTC of the dates on the clock it was  *)
(* handed over with, and no later write, in UTC or in Berlin, moves it to  *)
(* another day.                                                            *)
WholeDaysKeepDates ==
    \A zone \in {"utc", "zoned"}, later \in {"utc", "zoned"}, span \in Spans :
        \A length \in {span, 24 * span} :
            LET days == Weekly(TRUE, length, 1, {})
                midnight(h) == 24 * Day(Clock(zone, h))
                read == ParseEvent(CreateIcal(days, zone))
            IN  /\ read.allDay /\ read.start = midnight(now) /\ read.end = midnight(now + length)
                /\ ParseEvent(CreateIcal(read, later)) = read

(* The weekly series that start now as calendar clients store them, with   *)
(* and without EXDATEs.                                                    *)
Series ==
    LET icals == {Ical(zone, Clock(zone, now), Clock(zone, now) + span, Weekly(FALSE, span, count, {})) :
                     span \in Spans, count \in Counts, zone \in {"utc", "zoned"}}
    IN  icals \cup {[i EXCEPT !.exdates = Occurrences(i) \cap {now + 168, now + 336}] : i \in icals}

(* The clocks do not change from the first to the last occurrence.         *)
OneOffset(ical) ==
    \A o \in Occurrences([ical EXCEPT !.exdates = {}]) : Offset(o) = Offset(ToUtc(ical.form, ical.start))

(* Deleting an occurrence takes away that one and no other, if the series  *)
(* is in UTC or the clocks do not change in its course.                    *)
DeletesOneOccurrence ==
    \A i \in Series : \A o \in Occurrences(i) :
        i.form = "utc" \/ OneOffset(i) => Occurrences(AddExdate(i, o)) = Occurrences(i) \ {o}

(* A change of the title leaves a series where it is, if its times are in  *)
(* Berlin or the clocks do not change.                                     *)
EditKeepsOccurrences ==
    \A i \in Series : i.form = "zoned" \/ (OneOffset(i) /\ ~ Repeated(i.start))
        => Occurrences(Resave(i)) = Occurrences(i)

(* A deletion and a change of the title in turn do no harm to a series in  *)
(* Berlin, whatever the clocks do: the second puts the times back.         *)
EditUndoesShift ==
    \A i \in Series : i.form = "zoned" => \A o \in Occurrences(i) :
        Occurrences(Resave(AddExdate(i, o))) = Occurrences(i) \ {o}
=============================================================================
