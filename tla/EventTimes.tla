----------------------------- MODULE EventTimes -----------------------------
(***************************************************************************)
(* How CalDAVService turns events into iCalendar text and back.  The API   *)
(* hands over times in Europe/Berlin (the serializer's DateTimeFields),    *)
(* the service itself times in UTC; whole days become dates.               *)
(*                                                                         *)
(* A CalDAVEvent has its start and end as hours in UTC; an iCalendar event *)
(* has them on the clock of its form, and a span: "utc", "zoned" (TZID     *)
(* Europe/Berlin) or "date" (in days).  A rule repeats it weekly, count    *)
(* times; exdates are hours in UTC.  Times of whole hours are enough to    *)
(* tell zones apart.  Exdates of whole days are left out.                  *)
(***************************************************************************)
EXTENDS CivilTime

(* _to_utc_datetime of a time on the clock of a form.  NaiveUtc is the     *)
(* slip of replacing the zone instead of converting to it.                 *)
NaiveUtc(form, t) == IF form = "date" THEN 24 * t ELSE t
ToUtc(form, t) ==
    CASE form = "date" -> 24 * t
      [] form = "zoned" -> FromBerlin(t)
      [] form = "utc" -> t

(* _parse_event.  ParseOneExdate is the slip of reading the first of       *)
(* several EXDATE properties.                                              *)
ParseOneExdate(ical) ==
    [start |-> ToUtc(ical.form, ical.start), end |-> ToUtc(ical.form, ical.start + ical.span),
     allDay |-> ical.form = "date", count |-> ical.count,
     exdates |-> {x \in ical.exdates : \A y \in ical.exdates : x <= y}]
ParseEvent(ical) ==
    [start |-> ToUtc(ical.form, ical.start), end |-> ToUtc(ical.form, ical.start + ical.span),
     allDay |-> ical.form = "date", count |-> ical.count, exdates |-> ical.exdates]

(* _create_ical_content of an event whose datetimes are in a zone, "utc"   *)
(* or "zoned".  InUtc is the slip of writing UTC whatever the zone.        *)
Clock(zone, h) == IF zone = "zoned" THEN Berlin(h) ELSE h
Ical(form, start, end, ev) ==
    [form |-> form, start |-> start, span |-> end - start, count |-> ev.count, exdates |-> ev.exdates]
InUtc(ev, zone) ==
    IF ev.allDay THEN Ical("date", Day(ev.start), Day(ev.end), ev) ELSE Ical("utc", ev.start, ev.end, ev)
CreateIcal(ev, zone) ==
    IF ev.allDay THEN Ical("date", Day(Clock(zone, ev.start)), Day(Clock(zone, ev.end)), ev)
    ELSE Ical(zone, Clock(zone, ev.start), Clock(zone, ev.end), ev)

(* _add_exdate_to_master: the master as it was read, in UTC, with one more *)
(* EXDATE.  OnlyExdate is the slip of not keeping those there are.         *)
OnlyExdate(ical, occ) == CreateIcal([ParseEvent(ical) EXCEPT !.exdates = {occ}], "utc")
AddExdate(ical, occ) == CreateIcal([ParseEvent(ical) EXCEPT !.exdates = @ \cup {occ}], "utc")

(* update_event with the times it was read with.                           *)
Resave(ical) == CreateIcal(ParseEvent(ical), "zoned")

(* The hours calendars show the event at, expanding its rule on the clock  *)
(* of its form (RFC 5545).                                                 *)
Occurrences(ical) ==
    LET week == IF ical.form = "date" THEN 7 ELSE 7 * 24
    IN  {ToUtc(ical.form, ical.start + k * week) : k \in 0 .. ical.count - 1} \ ical.exdates
=============================================================================
