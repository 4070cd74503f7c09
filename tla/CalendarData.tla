---------------------------- MODULE CalendarData ----------------------------
(***************************************************************************)
(* The data of calendar_app: events, cache rows, date ranges, and the pure *)
(* functions the request handlers are built from.                          *)
(*                                                                         *)
(* Calendar time is a line of instants 0, 1, 2, ... cut into months of     *)
(* MonthLen instants.  A recurrence rule is its COUNT: rrule = 0 is "no    *)
(* rule", rrule = n repeats the event n times, Period instants apart.      *)
(* Everything a property cannot tell apart (title, description, url,       *)
(* all_day) is the one field title.  recurrence_id is NULL in every row    *)
(* the code writes, so a uid names at most one row.                        *)
(***************************************************************************)
EXTENDS Integers, FiniteSets

CONSTANTS
    Uids,           \* event uids (uuid4 strings)
    NoUid,          \* no uid: None
    Rooms,          \* COMMUNITY_ROOMS: the locations checked for double booking
    NoRoom,         \* any other location, or none
    Titles,         \* the rest of an event's content
    Unparsable,     \* contents _parse_event returns None for (no DTEND)
    BadRules,       \* rrule strings icalendar cannot parse
    Period,         \* instants between two occurrences
    MonthLen,       \* instants in a month
    Months,         \* months a cache key may be set for
    WindowSpan,     \* the 62 days of the default search window
    Today,          \* the instant of the present day
    TTL,            \* cache_minutes: ticks a synced range stays fresh
    Ids,            \* primary keys of CalendarEvent rows
    NoDate,         \* a missing start_date or end_date: None
    NoEvent,        \* no event
    NoRow           \* no row

ASSUME NumbersAssumption ==
    /\ Period \in Nat \ {0} /\ MonthLen \in Nat \ {0} /\ WindowSpan \in Nat
    /\ Today \in Nat /\ TTL \in Nat
    /\ Months \subseteq Nat /\ Ids \subseteq Nat /\ BadRules \subseteq Nat \ {0}

(* An event as the CalDAV server, a request or a row of the cache has it.  *)
Event == [start: Nat, end: Nat, room: Rooms \cup {NoRoom}, rrule: Nat,
          exdate: SUBSET Nat, title: Titles]

(* A row of the table CalendarEvent; last_synced_at may be NULL.           *)
Row == [id: Ids, ev: Event, synced: Nat \cup {NoDate}]

(* The start_date and end_date of a request for events.                    *)
Range == [start: Nat \cup {NoDate}, end: Nat \cup {NoDate}]

ASSUME NothingAssumption ==
    /\ NoUid \notin Uids /\ NoEvent \notin Event /\ NoRow \notin Row
    /\ NoDate \notin Nat

EventTable == [Uids -> Event \cup {NoEvent}]
RowTable == [Uids -> Row \cup {NoRow}]

-----------------------------------------------------------------------------
(* The CalDAV server.                                                      *)

(* Where the occurrences of ev start.                                      *)
OccurrenceStarts(ev) ==
    {ev.start + k * Period : k \in 0 .. (IF ev.rrule = 0 THEN 0 ELSE ev.rrule - 1)}
        \ ev.exdate

(* The time-range test of a CalDAV REPORT: some occurrence overlaps.       *)
Overlaps(ev, from, to) ==
    \E s \in OccurrenceStarts(ev) : s < to /\ s + (ev.end - ev.start) > from

(* What the server keeps of an event it is sent: _create_ical_content      *)
(* drops, with a warning, a recurrence rule it cannot parse.               *)
ServerForm(ev) == IF ev.rrule \in BadRules THEN [ev EXCEPT !.rrule = 0] ELSE ev

(* _parse_event returns an event, not None.                                *)
Parses(ev) == ev.title \notin Unparsable

MonthStart(t) == t - (t % MonthLen)

(* The window CalDAVService.get_events searches for a requested range.     *)
SearchFrom(r) == IF r.start = NoDate THEN MonthStart(Today) ELSE r.start
SearchTo(r) == IF r.end = NoDate THEN MonthStart(SearchFrom(r) + WindowSpan) ELSE r.end

(* The events a search of the server's table returns, by uid.              *)
SearchHits(table, r) ==
    [u \in Uids |-> IF /\ table[u] # NoEvent
                       /\ Overlaps(table[u], SearchFrom(r), SearchTo(r))
                       /\ Parses(table[u])
                    THEN table[u] ELSE NoEvent]

-----------------------------------------------------------------------------
(* Reading the cache.                                                      *)

(* get_cached_events keeps this event for this range.                      *)
InView(ev, r) ==
    /\ r.start = NoDate \/ ev.start >= r.start \/ ev.rrule # 0
    /\ r.end = NoDate \/ ev.end <= r.end \/ ev.rrule # 0

CachedEvents(table, r) ==
    [u \in Uids |-> IF table[u] # NoRow /\ InView(table[u].ev, r) THEN table[u] ELSE NoRow]

(* The months whose cache keys _synced_months_key returns.                 *)
SyncedMonths(r) ==
    IF r.start = NoDate \/ r.end = NoDate THEN {}
    ELSE {m \in Months : (m + 1) * MonthLen > r.start /\ m * MonthLen <= r.end}

(* should_sync_with_caldav: expiry[m] is when the key of month m expires.  *)
(* A row that was never synced counts only if all are such.                *)
(* ShouldSyncByAge is the slip of looking at last_synced_at alone.         *)
Stale(cached, time) ==
    LET dates == {cached[u].synced : u \in {v \in Uids : cached[v] # NoRow}} \ {NoDate}
    IN  dates = {} \/ \E d \in dates : time - d > TTL
ShouldSyncByAge(force, cached, r, expiry, time) == force \/ Stale(cached, time)
ShouldSync(force, cached, r, expiry, time) ==
    \/ force
    \/ \E m \in SyncedMonths(r) : expiry[m] <= time
    \/ Stale(cached, time)

-----------------------------------------------------------------------------
(* Applying a sync to the cache.                                           *)

(* process_caldav_sync on an event already cached: the row object in       *)
(* memory takes the server's content and the time of the sync.             *)
(* MergeFoundAll is the slip of taking it for events that were not found.  *)
MergeFoundAll(seen, found, time) ==
    [u \in Uids |-> IF seen[u] # NoRow THEN [seen[u] EXCEPT !.ev = found[u], !.synced = time]
                    ELSE seen[u]]
MergeFound(seen, found, time) ==
    [u \in Uids |-> IF seen[u] # NoRow /\ found[u] # NoEvent
                    THEN [seen[u] EXCEPT !.ev = found[u], !.synced = time]
                    ELSE seen[u]]

(* The rows that bulk_create inserts, and bulk_create with ON CONFLICT DO  *)
(* UPDATE of the events found but not cached: ids gives primary keys to    *)
(* the new rows, a conflicting row keeps its own.                          *)
NewRows(table, seen, found) ==
    {u \in Uids : found[u] # NoEvent /\ seen[u] = NoRow /\ table[u] = NoRow}
BulkCreate(table, seen, found, ids, time) ==
    [u \in Uids |->
        IF found[u] = NoEvent \/ seen[u] # NoRow THEN table[u]
        ELSE [id |-> IF table[u] = NoRow THEN ids[u] ELSE table[u].id,
              ev |-> found[u], synced |-> time]]

(* A row is the one that was read, by primary key, whatever its uid now.   *)
SameRow(row, read) == row # NoRow /\ read # NoRow /\ row.id = read.id

(* bulk_update, by primary key, of the events found and cached; a row      *)
(* keeps its uid.  BulkUpdateNoTitle is the slip of leaving a column out.  *)
UpdatedRow(row, seen, found) ==
    LET merged == {v \in Uids : found[v] # NoEvent /\ SameRow(row, seen[v])}
    IN  IF merged = {} THEN row ELSE seen[CHOOSE v \in merged : TRUE]
BulkUpdateNoTitle(table, seen, found) ==
    [u \in Uids |-> IF table[u] = NoRow THEN NoRow
                    ELSE [UpdatedRow(table[u], seen, found) EXCEPT !.ev.title = table[u].ev.title]]
BulkUpdate(table, seen, found) == [u \in Uids |-> UpdatedRow(table[u], seen, found)]

(* cleanup_zombie_events: delete, by primary key, the rows that were       *)
(* cached and are not among the events found.  CleanupEveryUnfound is the  *)
(* slip of deleting every row not found.                                   *)
CleanupEveryUnfound(table, seen, found) ==
    [u \in Uids |-> IF found[u] = NoEvent THEN NoRow ELSE table[u]]
CleanupZombies(table, seen, found) ==
    [u \in Uids |-> IF \E v \in Uids : found[v] = NoEvent /\ SameRow(table[u], seen[v])
                    THEN NoRow ELSE table[u]]

-----------------------------------------------------------------------------
(* Writing a single row.                                                   *)

(* update_or_create(uid=u, defaults=ev and the time of the write).         *)
UpsertRow(table, u, ev, id, time) ==
    [table EXCEPT ![u] = [id |-> IF table[u] = NoRow THEN id ELSE table[u].id,
                          ev |-> ev, synced |-> time]]

(* filter(uid=u).update(...): nothing happens when there is no row.        *)
(* UpdateRowKeepsRule is the slip of leaving rrule out of the fields.      *)
UpdateRowKeepsRule(table, u, ev, time) ==
    IF table[u] = NoRow THEN table
    ELSE [table EXCEPT ![u] = [id |-> table[u].id,
                               ev |-> [ev EXCEPT !.rrule = table[u].ev.rrule], synced |-> time]]
UpdateRow(table, u, ev, time) ==
    IF table[u] = NoRow THEN table
    ELSE [table EXCEPT ![u] = [id |-> table[u].id, ev |-> ev, synced |-> time]]

(* filter(uid=u).update(exdate=..., last_synced_at=...).                   *)
UpdateExdate(table, u, exdate, time) ==
    IF table[u] = NoRow THEN table
    ELSE [table EXCEPT ![u] = [id |-> table[u].id,
                               ev |-> [table[u].ev EXCEPT !.exdate = exdate], synced |-> time]]

-----------------------------------------------------------------------------
(* Validating a write: EventInputSerializer.validate and its exclude lists.*)

BookedOver(table, room, from, to) ==
    {u \in Uids : /\ table[u] # NoRow
                  /\ table[u].ev.room = room
                  /\ table[u].ev.start < to
                  /\ table[u].ev.end > from}

(* The serializer accepts ev, ignoring the rows of exclude.  ValidAtStart  *)
(* is the slip of testing only the instant an event starts.                *)
ValidAtStart(table, ev, exclude) ==
    /\ ev.start < ev.end
    /\ ev.room \in Rooms => BookedOver(table, ev.room, ev.start, ev.start + 1) \ exclude = {}
Valid(table, ev, exclude) ==
    /\ ev.start < ev.end
    /\ ev.room \in Rooms => BookedOver(table, ev.room, ev.start, ev.end) \ exclude = {}

(* update_event: a series ignores the standalone events in the room, a     *)
(* standalone event ignores the series in it.  (The list is only used when *)
(* the request names a community room.)                                    *)
ExcludedByUpdate(table, u, ev) ==
    {u} \cup (IF table[u] = NoRow THEN {}
              ELSE {v \in Uids : /\ table[v] # NoRow
                                 /\ table[v].ev.room = ev.room
                                 /\ (table[v].ev.rrule = 0) # (table[u].ev.rrule = 0)})

(* create_exception: the events that overlap the replaced occurrence.      *)
ExcludedByException(table, u, occ, ev) ==
    {u} \cup BookedOver(table, ev.room, occ, occ + (table[u].ev.end - table[u].ev.start))

(* The event create_exception stores in place of an occurrence.            *)
Standalone(ev) == [ev EXCEPT !.rrule = 0, !.exdate = {}]

(* _add_exdate_to_master: the master with one more suppressed occurrence.  *)
WithExdate(ev, occ) == [ev EXCEPT !.exdate = @ \cup {occ}]
=============================================================================
