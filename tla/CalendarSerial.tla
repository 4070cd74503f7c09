--------------------------- MODULE CalendarSerial ---------------------------
(***************************************************************************)
(* What the calendar promises when requests come one at a time, to any of  *)
(* any number of threads and workers: after each the cache mirrors the     *)
(* server, an answer from the cache misses nothing, and no community room  *)
(* is booked twice.                                                        *)
(*                                                                         *)
(* Two requests at once break each of the three, as do a write whose       *)
(* answer is lost and a worker that dies between the write to the server   *)
(* and the write of the row: so no fault is allowed but those of a GET     *)
(* that then answers from the cache.                                       *)
(***************************************************************************)
EXTENDS CalendarHandlers

(* At most one request is in progress.                                     *)
OneAtATime == \A p, q \in Procs : pc[p] # "idle" /\ pc[q] # "idle" => p = q

(* No other client edits the calendar, and only the sync of a GET may fail. *)
Undisturbed == MaxEdits = 0 /\ FaultKinds \subseteq {"connect", "commit"}

(* The events that a search finds whenever the cache shows them.           *)
Lasting ==
    {ev \in Event :
        /\ Parses(ev) /\ ev.rrule \notin BadRules
        /\ \A r \in Ranges : InView(ev, r) =>
              \E s \in OccurrenceStarts(ev) \ Occs :
                  s < SearchTo(r) /\ s + (ev.end - ev.start) > SearchFrom(r)}

(* The calendar has only such events, and is sent only such.               *)
CalendarLasts ==
    /\ \A u \in Uids : Existing[u] # NoEvent => Existing[u] \in Lasting
    /\ \A ev \in Payloads : ev \in Lasting /\ Standalone(ev) \in Lasting

-----------------------------------------------------------------------------
(* The invariant.                                                          *)

(* A handler at label l has stored the event u and not yet its row.        *)
Unwritten(l, m, u) ==
    (l \in {"createDb", "excDb"} \/ (l = "exdDb" /\ m.ev # NoEvent)) /\ u = m.new

(* It has changed the event u on the server and not yet in the cache.      *)
Pending(l, m, u) ==
    \/ l \in {"updateDb", "deleteDb", "excSave", "exdDb"} /\ u = m.uid
    \/ Unwritten(l, m, u)

(* All rows but those a handler is about to write agree with the server.   *)
Agreement ==
    \A u \in Uids :
        (\A p \in Procs : ~ Pending(pc[p], mem[p], u)) /\ rows[u] # NoRow => rows[u].ev = server[u]

(* What a handler at label l knows of the server and the cache.            *)
KnowsCache(l, m, table) ==
    l \in {"decide", "search"} => m.seen = CachedEvents(table, m.range)
KnowsFound(l, m, calendar, table) ==
    /\ l \in {"commit", "mark"} => m.found = SearchHits(calendar, m.range)
    /\ l = "commit" => \A u \in Uids : m.seen[u] # NoRow =>
          /\ table[u] # NoRow /\ table[u].id = m.seen[u].id
          /\ m.found[u] # NoEvent /\ m.seen[u].ev = m.found[u]
    /\ l = "mark" => \A u \in Uids : m.found[u] # NoEvent => table[u] # NoRow
KnowsEvent(l, m, calendar) ==
    /\ l = "updateSave" => calendar[m.uid] # NoEvent
    /\ l = "updateDb" => calendar[m.uid] = m.ev
    /\ l = "deleteDb" => calendar[m.uid] = NoEvent
KnowsMaster(l, m, calendar, table) ==
    /\ l \in {"addSave", "excSave", "exdDb"} => calendar[m.uid] = m.master
    /\ l \in {"excSave", "exdDb"} /\ table[m.uid] # NoRow => SameBody(table[m.uid].ev, m.master)
KnowsNew(l, m, calendar, table) ==
    /\ l = "createDb" => calendar[m.new] = m.ev
    /\ l = "excDb" \/ (l = "exdDb" /\ m.ev # NoEvent) => calendar[m.new] = Standalone(m.ev)
    /\ l = "exdDb" /\ m.ev # NoEvent => m.new # m.uid
    /\ \A u \in Uids : Unwritten(l, m, u) => table[u] = NoRow

Knows(l, m, calendar, table) ==
    /\ KnowsCache(l, m, table)
    /\ KnowsFound(l, m, calendar, table)
    /\ KnowsEvent(l, m, calendar)
    /\ KnowsMaster(l, m, calendar, table)
    /\ KnowsNew(l, m, calendar, table)

AllKnow == \A p \in Procs : Knows(pc[p], mem[p], server, rows)

SerialInv == Agreement /\ AllKnow

(* No process but p has a request.                                         *)
OthersIdle(p) == \A q \in Procs : q # p => pc[q] = "idle"

-----------------------------------------------------------------------------
(* Lasting events.                                                         *)

(* Suppressing an occurrence leaves a lasting event one, and the server    *)
(* keeps a lasting event as it is.                                         *)
LEMMA LastingKept ==
  ASSUME NEW ev \in Lasting
  PROVE  /\ ServerForm(ev) = ev
         /\ \A occ \in Occs : /\ WithExdate(ev, occ) \in Lasting
                              /\ ServerForm(WithExdate(ev, occ)) = WithExdate(ev, occ)
<1>1. ev \in Event /\ ev.rrule \notin BadRules
  BY DEF Lasting
<1>2. ASSUME NEW occ \in Occs
      PROVE  WithExdate(ev, occ) \in Lasting /\ ServerForm(WithExdate(ev, occ)) = WithExdate(ev, occ)
  <2> DEFINE new == WithExdate(ev, occ)
  <2>1. occ \in Nat
    BY ClientsAssumption
  <2>2. /\ new \in Event /\ new.start = ev.start /\ new.end = ev.end /\ new.rrule = ev.rrule
        /\ new.title = ev.title /\ new.exdate = ev.exdate \cup {occ}
    BY <1>1, <2>1 DEF WithExdate, Event
  <2> HIDE DEF new
  <2>3. ServerForm(new) = new
    BY <1>1, <2>2 DEF ServerForm
  <2>4. \A s \in OccurrenceStarts(ev) \ Occs : s \in OccurrenceStarts(new) \ Occs
    BY <2>2 DEF OccurrenceStarts
  <2>5. Parses(new) /\ \A r \in Ranges : InView(new, r) <=> InView(ev, r)
    BY <2>2 DEF Lasting, Parses, InView
  <2>6. new \in Lasting
    BY <1>1, <2>2, <2>4, <2>5 DEF Lasting
  <2> QED
    BY <2>3, <2>6 DEF new
<1> QED
  BY <1>1, <1>2 DEF ServerForm

(* The calendar only ever holds lasting events.                            *)
LEMMA LastingClosed ==
  ASSUME Undisturbed, CalendarLasts
  PROVE  Closed(Lasting)
<1>1. MaxEdits = 0 /\ \A ev \in Payloads : ServerForm(ev) \in Lasting
  BY LastingKept DEF Undisturbed, CalendarLasts
<1>2. \A ev \in Lasting, occ \in Occs : ServerForm(WithExdate(ev, occ)) \in Lasting
  BY LastingKept
<1> QED
  BY <1>1, <1>2 DEF Closed, CalendarLasts

(* A search finds a lasting event in every range whose view it is in.      *)
LEMMA LastingHit ==
  ASSUME NEW calendar, NEW u \in Uids, calendar[u] \in Lasting, NEW r \in Ranges, InView(calendar[u], r)
  PROVE  SearchHits(calendar, r)[u] = calendar[u] /\ calendar[u] # NoEvent
<1>1. calendar[u] \in Event /\ calendar[u] # NoEvent /\ Parses(calendar[u])
  BY NothingAssumption DEF Lasting
<1>2. PICK s \in OccurrenceStarts(calendar[u]) :
        s < SearchTo(r) /\ s + (calendar[u].end - calendar[u].start) > SearchFrom(r)
  BY DEF Lasting
<1>3. Overlaps(calendar[u], SearchFrom(r), SearchTo(r))
  BY <1>2 DEF Overlaps
<1> QED
  BY <1>1, <1>3 DEF SearchHits

-----------------------------------------------------------------------------
(* One request at a time.                                                  *)

(* While a process takes a step of a request, no other has one.            *)
LEMMA StepsAlone ==
  ASSUME TypeInv, OneAtATime, OneAtATime', NEW p \in Procs, GetNext(p) \/ WriteNext(p) \/ OccurrenceNext(p)
  PROVE  OthersIdle(p)
<1>t. pc \in [Procs -> Label]
  BY DEF TypeInv, TypeOK
<1>1. pc[p] # "idle" \/ pc'[p] # "idle"
  <2>1. CASE GetNext(p)
    BY <2>1, <1>t DEF GetNext, GetBegin, GetDecide, GetConnectFails, GetCommitFails, ServeCached,
       GetSearch, GetSearchFails, Searched, GetCommit, GetMark, GetReply, Finish, Step
  <2>2. CASE WriteNext(p)
    BY <2>2, <1>t DEF WriteNext, CreateBegin, CreateSave, CreateLost, CreateFails, CreateDb,
       UpdateBegin, UpdateFound, UpdateNotFound, UpdateSave, UpdateLost, UpdateFails, UpdateDb,
       DeleteBegin, DeleteSave, DeleteLost, DeleteFails, DeleteDb, SaveFails, Finish, Step
  <2>3. CASE OccurrenceNext(p)
    BY <2>3, <1>t DEF OccurrenceNext, ExceptionBegin, OccurrenceBegin, MasterFound, MasterNotFound,
       MasterSave, MasterLost, MasterFails, ExceptionSave, ExceptionLost, ExceptionFails, ExdateDb,
       ExceptionDb, SaveFails, Finish, Step
  <2> QED
    BY <2>1, <2>2, <2>3
<1>2. ASSUME NEW q \in Procs, q # p PROVE pc[q] = "idle"
  <2>1. pc'[q] = pc[q]
    BY <1>2, OthersKept
  <2> QED
    BY <1>1, <1>2, <2>1 DEF OneAtATime
<1> QED
  BY <1>2 DEF OthersIdle

(* What the one process that has a request may rely on.                    *)
LEMMA Relies ==
  ASSUME SerialInv, NEW p \in Procs, OthersIdle(p)
  PROVE  /\ Knows(pc[p], mem[p], server, rows)
         /\ \A u \in Uids : ~ Pending(pc[p], mem[p], u) /\ rows[u] # NoRow => rows[u].ev = server[u]
  BY DEF SerialInv, AllKnow, Agreement, OthersIdle, Pending, Unwritten

(* What it has to leave behind.                                            *)
LEMMA Guarantees ==
  ASSUME TypeInv, NEW p \in Procs, OthersIdle(p), NEW l, NEW m,
         pc' = [pc EXCEPT ![p] = l], mem' = [mem EXCEPT ![p] = m],
         Knows(l, m, server', rows'),
         \A u \in Uids : ~ Pending(l, m, u) /\ rows'[u] # NoRow => rows'[u].ev = server'[u]
  PROVE  SerialInv'
<1>t. pc \in [Procs -> Label] /\ mem \in [Procs -> Memory]
  BY DEF TypeInv, TypeOK
<1>1. pc'[p] = l /\ mem'[p] = m
  BY <1>t
<1>2. ASSUME NEW q \in Procs, q # p PROVE pc'[q] = "idle"
  BY <1>t, <1>2 DEF OthersIdle
<1>3. ASSUME NEW q \in Procs PROVE Knows(pc'[q], mem'[q], server', rows')
  BY <1>1, <1>2 DEF Knows, KnowsCache, KnowsFound, KnowsEvent, KnowsMaster, KnowsNew, Unwritten
<1>4. Agreement'
  BY <1>1 DEF Agreement
<1> QED
  BY <1>3, <1>4 DEF SerialInv, AllKnow

(* A handler that returns must have left no event it changed unwritten.    *)
LEMMA FinishGuarantees ==
  ASSUME TypeInv, NEW p \in Procs, OthersIdle(p), NEW l, Finish(p, l),
         \A u \in Uids : rows'[u] # NoRow => rows'[u].ev = server'[u]
  PROVE  SerialInv'
<1>1. Knows("idle", Blank, server', rows')
  BY DEF Knows, KnowsCache, KnowsFound, KnowsEvent, KnowsMaster, KnowsNew, Unwritten
<1> QED
  BY <1>1, Guarantees DEF Finish, Step

(* A step that leaves the process's memory alone.                          *)
LEMMA KeptGuarantees ==
  ASSUME TypeInv, NEW p \in Procs, OthersIdle(p), NEW l, NEW k, Step(p, l, k), UNCHANGED mem,
         Knows(k, mem[p], server', rows'),
         \A u \in Uids : ~ Pending(k, mem[p], u) /\ rows'[u] # NoRow => rows'[u].ev = server'[u]
  PROVE  SerialInv'
<1>1. mem' = [mem EXCEPT ![p] = mem[p]]
  BY DEF TypeInv, TypeOK
<1> QED
  BY <1>1, Guarantees DEF Step
-----------------------------------------------------------------------------
(* The handlers, one request at a time.                                    *)

(* The hypotheses of the lemmas on steps.                                  *)
Serial(p) ==
    /\ TypeInv /\ KeysApart /\ UidsKnown /\ StaysIn(Lasting) /\ SerialInv
    /\ Undisturbed /\ CalendarLasts /\ OthersIdle(p)

(* The transaction of a sync that found every row it had read: it writes   *)
(* what it found, deletes nothing, and leaves the other rows alone.        *)
LEMMA CommitWrites ==
  ASSUME NEW table \in RowTable, NEW seen \in RowTable, NEW found \in EventTable,
         NEW ids \in [NewRows(table, seen, found) -> Ids], NEW time \in Nat, NEW result, NEW u \in Uids,
         result = OwnCleanup(OwnUpdate(BulkCreate(table, seen, found, ids, time), seen, found),
                             seen, found),
         seen[u] # NoRow => /\ table[u] # NoRow /\ table[u].id = seen[u].id
                            /\ found[u] # NoEvent /\ seen[u].ev = found[u]
  PROVE  /\ found[u] = NoEvent => result[u] = table[u]
         /\ found[u] # NoEvent => result[u] # NoRow /\ result[u].ev = found[u]
<1> DEFINE created == BulkCreate(table, seen, found, ids, time)
           updated == OwnUpdate(created, seen, found)
<1>1. result = OwnCleanup(updated, seen, found)
  OBVIOUS
<1>2. CASE found[u] = NoEvent
  <2>1. created[u] = table[u] /\ seen[u] = NoRow
    BY <1>2 DEF BulkCreate
  <2> HIDE DEF created
  <2>2. updated[u] = created[u]
    BY <2>1 DEF OwnUpdate, SameRow
  <2> HIDE DEF updated
  <2> QED
    BY <1>1, <1>2, <2>1, <2>2 DEF OwnCleanup, SameRow
<1>3. CASE found[u] # NoEvent /\ seen[u] = NoRow
  <2>1. found[u] \in Event
    BY <1>3 DEF EventTable
  <2>2. created[u] = [id |-> IF table[u] = NoRow THEN ids[u] ELSE table[u].id,
                      ev |-> found[u], synced |-> time]
    BY <1>3 DEF BulkCreate
  <2>3. created[u] \in Row
    BY <1>3, <2>1, <2>2 DEF NewRows, RowTable, Row
  <2>4. created[u].ev = found[u] /\ created[u] # NoRow
    BY <2>2, <2>3, NothingAssumption
  <2> HIDE DEF created
  <2>5. updated[u] = created[u]
    BY <1>3 DEF OwnUpdate, SameRow
  <2> HIDE DEF updated
  <2> QED
    BY <1>1, <1>3, <2>4, <2>5 DEF OwnCleanup
<1>4. CASE found[u] # NoEvent /\ seen[u] # NoRow
  <2>1. created[u] = table[u]
    BY <1>4 DEF BulkCreate
  <2> HIDE DEF created
  <2>2. updated[u] = seen[u]
    BY <1>4, <2>1 DEF OwnUpdate, SameRow
  <2> HIDE DEF updated
  <2> QED
    BY <1>1, <1>4, <2>2 DEF OwnCleanup
<1> QED
  BY <1>2, <1>3, <1>4

(* A sync finds every row it has read, unchanged.                          *)
LEMMA SearchFindsSeen ==
  ASSUME NEW p \in Procs, Serial(p), pc[p] = "search", NEW u \in Uids, mem[p].seen[u] # NoRow
  PROVE  /\ rows[u] # NoRow /\ mem[p].seen[u] = rows[u] /\ rows[u].ev = server[u]
         /\ SearchHits(server, mem[p].range)[u] = server[u] /\ server[u] # NoEvent
<1>1. rows \in RowTable /\ mem[p].seen = CachedEvents(rows, mem[p].range)
  BY Relies DEF Serial, TypeInv, TypeOK, Knows, KnowsCache
<1>2. rows[u] # NoRow /\ mem[p].seen[u] = rows[u] /\ InView(rows[u].ev, mem[p].range)
  BY <1>1 DEF CachedEvents
<1>3. rows[u].ev = server[u]
  BY <1>2, Relies DEF Serial, Pending, Unwritten
<1>4. server[u] # NoEvent
  BY <1>1, <1>2, <1>3, NothingAssumption DEF RowTable, Row
<1>5. server[u] \in Lasting /\ mem[p].range \in Ranges
  BY <1>4 DEF Serial, StaysIn, Holds, AllAsked, Asked
<1> QED
  BY <1>2, <1>3, <1>5, LastingHit

(* Every step of get_events.                                               *)
LEMMA GetSerial ==
  ASSUME NEW p \in Procs, Serial(p), GetNext(p)
  PROVE  SerialInv'
<1>t. /\ TypeInv /\ OthersIdle(p) /\ server \in EventTable /\ rows \in RowTable /\ now \in Nat
      /\ mem \in [Procs -> Memory] /\ mem[p] \in Memory
  BY DEF Serial, TypeInv, TypeOK
<1>k. Knows(pc[p], mem[p], server, rows)
  BY Relies DEF Serial
<1>a. ASSUME pc[p] \in {"idle", "decide", "search", "commit", "mark", "reply"}, NEW u \in Uids, rows[u] # NoRow
      PROVE  rows[u].ev = server[u]
  BY <1>a, Relies DEF Serial, Pending, Unwritten
<1>1. CASE GetBegin(p)
  <2>1. PICK r \in Ranges, f \in Forces :
          mem' = [mem EXCEPT ![p] = [Blank EXCEPT !.range = r, !.force = f,
                                                  !.seen = CachedEvents(rows, r)]]
    BY <1>1 DEF GetBegin
  <2> DEFINE m == [Blank EXCEPT !.range = r, !.force = f, !.seen = CachedEvents(rows, r)]
  <2>2. m.seen = CachedEvents(rows, r) /\ m.range = r
    BY DEF Blank
  <2>3. pc' = [pc EXCEPT ![p] = "decide"] /\ mem' = [mem EXCEPT ![p] = m]
        /\ UNCHANGED <<server, rows>> /\ pc[p] = "idle"
    BY <1>1, <2>1 DEF GetBegin, Receive, stores
  <2> HIDE DEF m
  <2>4. Knows("decide", m, server', rows')
    BY <2>2, <2>3 DEF Knows, KnowsCache, KnowsFound, KnowsEvent, KnowsMaster, KnowsNew, Unwritten
  <2> QED
    BY <1>t, <1>a, <2>3, <2>4, Guarantees
<1>2. CASE GetDecide(p)
  <2> DEFINE sync == ShouldSync(mem[p].force, mem[p].seen, mem[p].range, marks[WorkerOf[p]], now)
             l == IF sync THEN "search" ELSE "reply"
             m == [mem[p] EXCEPT !.sync = sync, !.source = IF sync THEN "none" ELSE "cache"]
  <2>1. m.seen = mem[p].seen /\ m.range = mem[p].range
    BY <1>t DEF Memory
  <2>2. pc' = [pc EXCEPT ![p] = l] /\ mem' = [mem EXCEPT ![p] = m]
        /\ UNCHANGED <<server, rows>> /\ pc[p] = "decide"
    BY <1>2 DEF GetDecide, Step, stores
  <2> HIDE DEF m, sync
  <2>3. Knows(l, m, server', rows')
    BY <1>k, <2>1, <2>2 DEF Knows, KnowsCache, KnowsFound, KnowsEvent, KnowsMaster, KnowsNew, Unwritten
  <2> HIDE DEF l
  <2> QED
    BY <1>t, <1>a, <2>2, <2>3, Guarantees
<1>3. ASSUME NEW l \in {"search", "commit"}, ServeCached(p, l) PROVE SerialInv'
  <2> DEFINE m == [mem[p] EXCEPT !.source = "cache"]
  <2>1. pc' = [pc EXCEPT ![p] = "reply"] /\ mem' = [mem EXCEPT ![p] = m]
        /\ UNCHANGED <<server, rows>> /\ pc[p] = l
    BY <1>3, <1>t DEF ServeCached, Step, stores
  <2> HIDE DEF m
  <2>2. Knows("reply", m, server', rows')
    BY DEF Knows, KnowsCache, KnowsFound, KnowsEvent, KnowsMaster, KnowsNew, Unwritten
  <2> QED
    BY <1>t, <1>a, <2>1, <2>2, Guarantees
<1>4. CASE GetSearch(p)
  <2> DEFINE found == SearchHits(server, mem[p].range)
             seen == MergeFound(mem[p].seen, found, now)
             m == [mem[p] EXCEPT !.found = found, !.stamp = now, !.seen = seen]
  <2>1. m.found = found /\ m.seen = seen /\ m.range = mem[p].range
    BY <1>t DEF Memory
  <2>2. pc' = [pc EXCEPT ![p] = "commit"] /\ mem' = [mem EXCEPT ![p] = m]
        /\ UNCHANGED <<server, rows>> /\ pc[p] = "search"
    BY <1>4, <1>t DEF GetSearch, Searched, Step, stores
  <2> HIDE DEF m
  <2>3. ASSUME NEW u \in Uids, seen[u] # NoRow
        PROVE  rows[u] # NoRow /\ rows[u].id = seen[u].id /\ found[u] # NoEvent /\ seen[u].ev = found[u]
    <3>1. mem[p].seen[u] # NoRow
      BY <2>3 DEF MergeFound
    <3>2. rows[u] # NoRow /\ mem[p].seen[u] = rows[u] /\ found[u] # NoEvent
      BY <2>2, <3>1, SearchFindsSeen
    <3>3. rows[u] \in Row
      BY <1>t, <3>2 DEF RowTable
    <3>4. seen[u] = [rows[u] EXCEPT !.ev = found[u], !.synced = now]
      BY <3>2 DEF MergeFound
    <3> HIDE DEF found, seen
    <3>5. seen[u].id = rows[u].id /\ seen[u].ev = found[u]
      BY <3>3, <3>4 DEF Row
    <3> QED
      BY <3>2, <3>5
  <2>4. KnowsFound("commit", m, server', rows')
    BY <2>1, <2>2, <2>3 DEF KnowsFound
  <2>5. Knows("commit", m, server', rows')
    BY <2>4 DEF Knows, KnowsCache, KnowsEvent, KnowsMaster, KnowsNew, Unwritten
  <2> QED
    BY <1>t, <1>a, <2>2, <2>5, Guarantees
<1>5. CASE GetCommit(p)
  <2> DEFINE m == mem[p]
  <2>1. PICK ids \in [NewRows(rows, m.seen, m.found) -> Ids] :
          rows' = OwnCleanup(OwnUpdate(BulkCreate(rows, m.seen, m.found, ids, m.stamp), m.seen, m.found),
                             m.seen, m.found)
    BY <1>5, CommitByUid DEF Serial
  <2>2. Step(p, "commit", "mark") /\ UNCHANGED <<server, mem>>
    BY <1>5 DEF GetCommit
  <2>3. /\ m.seen \in RowTable /\ m.found \in EventTable /\ m.stamp \in Nat
        /\ m.found = SearchHits(server, m.range)
        /\ \A u \in Uids : m.seen[u] # NoRow =>
              /\ rows[u] # NoRow /\ rows[u].id = m.seen[u].id
              /\ m.found[u] # NoEvent /\ m.seen[u].ev = m.found[u]
    BY <1>t, <1>k, <2>2 DEF Step, Memory, Knows, KnowsFound
  <2>4. \A u \in Uids : /\ m.found[u] = NoEvent => rows'[u] = rows[u]
                        /\ m.found[u] # NoEvent => rows'[u] # NoRow /\ rows'[u].ev = m.found[u]
    BY <1>t, <2>1, <2>3, CommitWrites
  <2>5. Knows("mark", m, server', rows')
    BY <2>2, <2>3, <2>4
    DEF Knows, KnowsCache, KnowsFound, KnowsEvent, KnowsMaster, KnowsNew, Unwritten
  <2>6. ASSUME NEW u \in Uids, rows'[u] # NoRow PROVE rows'[u].ev = server'[u]
    <3>1. m.found[u] # NoEvent => m.found[u] = server[u]
      BY <2>3 DEF SearchHits
    <3> QED
      BY <1>a, <2>2, <2>4, <2>6, <3>1 DEF Step
  <2> QED
    BY <1>t, <2>2, <2>5, <2>6, KeptGuarantees
<1>6. CASE GetMark(p)
  <2> DEFINE m == [mem[p] EXCEPT !.source = "server"]
  <2>1. pc' = [pc EXCEPT ![p] = "reply"] /\ mem' = [mem EXCEPT ![p] = m]
        /\ UNCHANGED <<server, rows>> /\ pc[p] = "mark"
    BY <1>6, <1>t DEF GetMark, Step
  <2> HIDE DEF m
  <2>2. Knows("reply", m, server', rows')
    BY DEF Knows, KnowsCache, KnowsFound, KnowsEvent, KnowsMaster, KnowsNew, Unwritten
  <2> QED
    BY <1>t, <1>a, <2>1, <2>2, Guarantees
<1>7. CASE GetReply(p)
  BY <1>7, <1>t, <1>a, FinishGuarantees DEF GetReply, Finish, Step, stores
<1> QED
  BY <1>1, <1>2, <1>3, <1>4, <1>5, <1>6, <1>7
  DEF GetNext, GetConnectFails, GetCommitFails, GetSearchFails, Fault, Serial, Undisturbed

(* Every step of create_event.                                             *)
LEMMA CreateSerial ==
  ASSUME NEW p \in Procs, Serial(p),
         CreateBegin(p) \/ CreateSave(p) \/ CreateLost(p) \/ CreateFails(p) \/ CreateDb(p)
  PROVE  SerialInv'
<1>t. /\ TypeInv /\ OthersIdle(p) /\ server \in EventTable /\ rows \in RowTable
      /\ mem \in [Procs -> Memory] /\ mem[p] \in Memory /\ Local(pc[p], mem[p])
  BY DEF Serial, TypeInv, TypeOK, Locals
<1>k. /\ Knows(pc[p], mem[p], server, rows) /\ Asked(pc[p], mem[p], Lasting)
      /\ \A u \in Uids : ~ Pending(pc[p], mem[p], u) /\ rows[u] # NoRow => rows[u].ev = server[u]
  BY Relies DEF Serial, StaysIn, AllAsked
<1>1. CASE CreateBegin(p)
  <2>1. PICK ev \in Payloads : mem' = [mem EXCEPT ![p] = [Blank EXCEPT !.ev = ev]]
    BY <1>1 DEF CreateBegin
  <2> DEFINE m == [Blank EXCEPT !.ev = ev]
  <2>2. pc' = [pc EXCEPT ![p] = "createSave"] /\ mem' = [mem EXCEPT ![p] = m]
        /\ UNCHANGED <<server, rows>> /\ pc[p] = "idle"
    BY <1>1, <2>1 DEF CreateBegin, Receive, stores
  <2> HIDE DEF m
  <2>3. Knows("createSave", m, server', rows')
    BY DEF Knows, KnowsCache, KnowsFound, KnowsEvent, KnowsMaster, KnowsNew, Unwritten
  <2> QED
    BY <1>t, <1>k, <2>2, <2>3, Guarantees DEF Pending, Unwritten
<1>2. CASE CreateSave(p)
  <2>1. PICK u \in Uids \ issued :
          PutOnServer(u, ServerForm(mem[p].ev)) /\ mem' = [mem EXCEPT ![p].new = u]
    BY <1>2 DEF CreateSave
  <2> DEFINE m == [mem[p] EXCEPT !.new = u]
  <2>2. m.ev = mem[p].ev /\ m.new = u
    BY <1>t DEF Memory
  <2>3. pc' = [pc EXCEPT ![p] = "createDb"] /\ mem' = [mem EXCEPT ![p] = m] /\ UNCHANGED rows
        /\ pc[p] = "createSave"
    BY <1>2, <1>t, <2>1 DEF CreateSave, Step
  <2> HIDE DEF m
  <2>4. mem[p].ev \in Payloads
    BY <1>k, <2>3 DEF Asked, NeedsEvent
  <2>5. ServerForm(mem[p].ev) = mem[p].ev
    BY <2>4, LastingKept DEF Serial, CalendarLasts
  <2>6. server' = [server EXCEPT ![u] = mem[p].ev] /\ rows[u] = NoRow
    BY <2>1, <2>5 DEF PutOnServer, Serial, UidsKnown, RowsAmong
  <2>7. Knows("createDb", m, server', rows')
    BY <1>t, <2>2, <2>3, <2>6
    DEF Knows, KnowsCache, KnowsFound, KnowsEvent, KnowsMaster, KnowsNew, Unwritten, EventTable
  <2>8. ASSUME NEW v \in Uids, ~ Pending("createDb", m, v), rows'[v] # NoRow PROVE rows'[v].ev = server'[v]
    BY <1>t, <1>k, <2>2, <2>3, <2>6, <2>8 DEF Pending, Unwritten, EventTable
  <2> QED
    BY <1>t, <2>3, <2>7, <2>8, Guarantees
<1>3. CASE CreateDb(p)
  <2>1. PICK id \in Ids : rows' = UpsertRow(rows, mem[p].new, mem[p].ev, id, now)
    BY <1>3 DEF CreateDb
  <2>2. Finish(p, "createDb") /\ pc[p] = "createDb" /\ UNCHANGED server
    BY <1>3 DEF CreateDb, Finish, Step
  <2>3. mem[p].new \in Uids /\ server[mem[p].new] = mem[p].ev
    BY <1>t, <1>k, <2>2 DEF Local, Knows, KnowsNew
  <2>4. ASSUME NEW v \in Uids, rows'[v] # NoRow PROVE rows'[v].ev = server'[v]
    BY <1>t, <1>k, <2>1, <2>2, <2>3, <2>4 DEF Pending, Unwritten, UpsertRow, RowTable
  <2> QED
    BY <1>t, <2>2, <2>4, FinishGuarantees
<1> QED
  BY <1>1, <1>2, <1>3 DEF CreateLost, CreateFails, SaveFails, Fault, Serial, Undisturbed

(* Every step of update_event.                                             *)
LEMMA UpdateSerial ==
  ASSUME NEW p \in Procs, Serial(p),
         \/ UpdateBegin(p) \/ UpdateFound(p) \/ UpdateNotFound(p)
         \/ UpdateSave(p) \/ UpdateLost(p) \/ UpdateFails(p) \/ UpdateDb(p)
  PROVE  SerialInv'
<1>t. /\ TypeInv /\ OthersIdle(p) /\ server \in EventTable /\ rows \in RowTable
      /\ mem \in [Procs -> Memory] /\ mem[p] \in Memory /\ Local(pc[p], mem[p])
  BY DEF Serial, TypeInv, TypeOK, Locals
<1>k. /\ Knows(pc[p], mem[p], server, rows) /\ Asked(pc[p], mem[p], Lasting)
      /\ \A u \in Uids : ~ Pending(pc[p], mem[p], u) /\ rows[u] # NoRow => rows[u].ev = server[u]
  BY Relies DEF Serial, StaysIn, AllAsked
<1>1. CASE UpdateBegin(p)
  <2>1. PICK u \in issued, ev \in Payloads :
          mem' = [mem EXCEPT ![p] = [Blank EXCEPT !.uid = u, !.ev = ev]]
    BY <1>1 DEF UpdateBegin
  <2> DEFINE m == [Blank EXCEPT !.uid = u, !.ev = ev]
  <2>2. pc' = [pc EXCEPT ![p] = "updateLookup"] /\ mem' = [mem EXCEPT ![p] = m]
        /\ UNCHANGED <<server, rows>> /\ pc[p] = "idle"
    BY <1>1, <2>1 DEF UpdateBegin, Receive, stores
  <2> HIDE DEF m
  <2>3. Knows("updateLookup", m, server', rows')
    BY DEF Knows, KnowsCache, KnowsFound, KnowsEvent, KnowsMaster, KnowsNew, Unwritten
  <2> QED
    BY <1>t, <1>k, <2>2, <2>3, Guarantees DEF Pending, Unwritten
<1>2. CASE UpdateFound(p)
  <2>1. Step(p, "updateLookup", "updateSave") /\ UNCHANGED <<server, rows, mem>>
        /\ server[mem[p].uid] # NoEvent /\ pc[p] = "updateLookup"
    BY <1>2 DEF UpdateFound, Step, stores
  <2>2. Knows("updateSave", mem[p], server', rows')
    BY <2>1 DEF Knows, KnowsCache, KnowsFound, KnowsEvent, KnowsMaster, KnowsNew, Unwritten
  <2> QED
    BY <1>t, <1>k, <2>1, <2>2, KeptGuarantees DEF Pending, Unwritten
<1>3. CASE UpdateNotFound(p)
  BY <1>3, <1>t, <1>k, FinishGuarantees DEF UpdateNotFound, Finish, Step, stores, Pending, Unwritten
<1>4. CASE UpdateSave(p)
  <2>1. Step(p, "updateSave", "updateDb") /\ UNCHANGED <<rows, mem>> /\ pc[p] = "updateSave"
        /\ PutOnServer(mem[p].uid, ServerForm(mem[p].ev))
    BY <1>4 DEF UpdateSave, Step
  <2>2. mem[p].ev \in Payloads /\ mem[p].uid \in Uids
    BY <1>k, <1>t, <2>1 DEF Asked, NeedsEvent, Local, NeedsUid
  <2>3. ServerForm(mem[p].ev) = mem[p].ev
    BY <2>2, LastingKept DEF Serial, CalendarLasts
  <2>4. server' = [server EXCEPT ![mem[p].uid] = mem[p].ev]
    BY <2>1, <2>3 DEF PutOnServer
  <2>5. Knows("updateDb", mem[p], server', rows')
    BY <1>t, <2>2, <2>4
    DEF Knows, KnowsCache, KnowsFound, KnowsEvent, KnowsMaster, KnowsNew, Unwritten, EventTable
  <2>6. ASSUME NEW v \in Uids, ~ Pending("updateDb", mem[p], v), rows'[v] # NoRow
        PROVE  rows'[v].ev = server'[v]
    BY <1>t, <1>k, <2>1, <2>4, <2>6 DEF Pending, Unwritten, EventTable
  <2> QED
    BY <1>t, <2>1, <2>5, <2>6, KeptGuarantees
<1>5. CASE UpdateDb(p)
  <2>1. Finish(p, "updateDb") /\ rows' = UpdateRow(rows, mem[p].uid, mem[p].ev, now)
        /\ UNCHANGED server /\ pc[p] = "updateDb"
    BY <1>5 DEF UpdateDb, Finish, Step
  <2>2. mem[p].uid \in Uids /\ server[mem[p].uid] = mem[p].ev
    BY <1>t, <1>k, <2>1 DEF Local, NeedsUid, Knows, KnowsEvent
  <2>3. ASSUME NEW v \in Uids, rows'[v] # NoRow PROVE rows'[v].ev = server'[v]
    BY <1>t, <1>k, <2>1, <2>2, <2>3 DEF Pending, Unwritten, UpdateRow, RowTable
  <2> QED
    BY <1>t, <2>1, <2>3, FinishGuarantees
<1> QED
  BY <1>1, <1>2, <1>3, <1>4, <1>5 DEF UpdateLost, UpdateFails, SaveFails, Fault, Serial, Undisturbed

(* Every step of delete_event.                                             *)
LEMMA DeleteSerial ==
  ASSUME NEW p \in Procs, Serial(p),
         DeleteBegin(p) \/ DeleteSave(p) \/ DeleteLost(p) \/ DeleteFails(p) \/ DeleteDb(p)
  PROVE  SerialInv'
<1>t. /\ TypeInv /\ OthersIdle(p) /\ server \in EventTable /\ rows \in RowTable
      /\ mem \in [Procs -> Memory] /\ mem[p] \in Memory /\ Local(pc[p], mem[p])
  BY DEF Serial, TypeInv, TypeOK, Locals
<1>k. /\ Knows(pc[p], mem[p], server, rows)
      /\ \A u \in Uids : ~ Pending(pc[p], mem[p], u) /\ rows[u] # NoRow => rows[u].ev = server[u]
  BY Relies DEF Serial
<1>1. CASE DeleteBegin(p)
  <2>1. PICK u \in issued : mem' = [mem EXCEPT ![p] = [Blank EXCEPT !.uid = u]]
    BY <1>1 DEF DeleteBegin
  <2> DEFINE m == [Blank EXCEPT !.uid = u]
  <2>2. pc' = [pc EXCEPT ![p] = "deleteSave"] /\ mem' = [mem EXCEPT ![p] = m]
        /\ UNCHANGED <<server, rows>> /\ pc[p] = "idle"
    BY <1>1, <2>1 DEF DeleteBegin, Receive, stores
  <2> HIDE DEF m
  <2>3. Knows("deleteSave", m, server', rows')
    BY DEF Knows, KnowsCache, KnowsFound, KnowsEvent, KnowsMaster, KnowsNew, Unwritten
  <2> QED
    BY <1>t, <1>k, <2>2, <2>3, Guarantees DEF Pending, Unwritten
<1>2. CASE DeleteSave(p)
  <2>1. Step(p, "deleteSave", "deleteDb") /\ UNCHANGED <<rows, mem>> /\ pc[p] = "deleteSave"
        /\ server' = [server EXCEPT ![mem[p].uid] = NoEvent]
    BY <1>2 DEF DeleteSave, Step
  <2>2. mem[p].uid \in Uids
    BY <1>t, <2>1 DEF Local, NeedsUid
  <2>3. Knows("deleteDb", mem[p], server', rows')
    BY <1>t, <2>1, <2>2
    DEF Knows, KnowsCache, KnowsFound, KnowsEvent, KnowsMaster, KnowsNew, Unwritten, EventTable
  <2>4. ASSUME NEW v \in Uids, ~ Pending("deleteDb", mem[p], v), rows'[v] # NoRow
        PROVE  rows'[v].ev = server'[v]
    BY <1>t, <1>k, <2>1, <2>4 DEF Pending, Unwritten, EventTable
  <2> QED
    BY <1>t, <2>1, <2>3, <2>4, KeptGuarantees
<1>3. CASE DeleteDb(p)
  <2>1. Finish(p, "deleteDb") /\ rows' = [rows EXCEPT ![mem[p].uid] = NoRow]
        /\ UNCHANGED server /\ pc[p] = "deleteDb"
    BY <1>3 DEF DeleteDb, Finish, Step
  <2>2. ASSUME NEW v \in Uids, rows'[v] # NoRow PROVE rows'[v].ev = server'[v]
    BY <1>t, <1>k, <2>1, <2>2 DEF Pending, Unwritten, RowTable
  <2> QED
    BY <1>t, <2>1, <2>2, FinishGuarantees
<1> QED
  BY <1>1, <1>2, <1>3 DEF DeleteLost, DeleteFails, SaveFails, Fault, Serial, Undisturbed

(* A row that differs from the master only in exdate, and takes its exdate, *)
(* becomes the master.                                                     *)
LEMMA ExdateCompletes ==
  ASSUME NEW ev \in Event, NEW master \in Event, SameBody(ev, master)
  PROVE  [ev EXCEPT !.exdate = master.exdate] = master
  BY DEF SameBody, Event

(* An event and the same with one more EXDATE have the same body.          *)
LEMMA ExdateKeepsBody ==
  ASSUME NEW ev \in Event, NEW occ \in Nat
  PROVE  SameBody(ev, WithExdate(ev, occ))
  BY DEF SameBody, WithExdate, Event

(* Every step of create_exception and delete_occurrence.                   *)
LEMMA OccurrenceSerial ==
  ASSUME NEW p \in Procs, Serial(p), OccurrenceNext(p)
  PROVE  SerialInv'
<1>t. /\ TypeInv /\ OthersIdle(p) /\ server \in EventTable /\ rows \in RowTable
      /\ mem \in [Procs -> Memory] /\ mem[p] \in Memory /\ Local(pc[p], mem[p]) /\ issued \subseteq Uids
  BY DEF Serial, TypeInv, TypeOK, Locals
<1>k. /\ Knows(pc[p], mem[p], server, rows) /\ Asked(pc[p], mem[p], Lasting)
      /\ Known(pc[p], mem[p], issued)
      /\ \A u \in Uids : ~ Pending(pc[p], mem[p], u) /\ rows[u] # NoRow => rows[u].ev = server[u]
  BY Relies DEF Serial, StaysIn, AllAsked, UidsKnown, AllKnown
<1>b. ASSUME pc[p] = "idle", NEW m, pc' = [pc EXCEPT ![p] = "addLookup"], mem' = [mem EXCEPT ![p] = m],
             UNCHANGED <<server, rows>>
      PROVE  SerialInv'
  <2>1. Knows("addLookup", m, server', rows')
    BY DEF Knows, KnowsCache, KnowsFound, KnowsEvent, KnowsMaster, KnowsNew, Unwritten
  <2> QED
    BY <1>b, <1>t, <1>k, <2>1, Guarantees DEF Pending, Unwritten
<1>1. CASE ExceptionBegin(p)
  <2>1. PICK u \in issued, occ \in Occs, ev \in Payloads :
          mem' = [mem EXCEPT ![p] = [Blank EXCEPT !.uid = u, !.occ = occ, !.ev = ev]]
    BY <1>1 DEF ExceptionBegin
  <2> QED
    BY <1>1, <1>b, <2>1 DEF ExceptionBegin, Receive, stores
<1>2. CASE OccurrenceBegin(p)
  <2>1. PICK u \in issued, occ \in Occs :
          mem' = [mem EXCEPT ![p] = [Blank EXCEPT !.uid = u, !.occ = occ]]
    BY <1>2 DEF OccurrenceBegin
  <2> QED
    BY <1>2, <1>b, <2>1 DEF OccurrenceBegin, Receive, stores
<1>3. CASE MasterFound(p)
  <2> DEFINE m == [mem[p] EXCEPT !.master = server[mem[p].uid]]
  <2>1. m.uid = mem[p].uid /\ m.master = server[mem[p].uid]
    BY <1>t DEF Memory
  <2>2. pc' = [pc EXCEPT ![p] = "addSave"] /\ mem' = [mem EXCEPT ![p] = m]
        /\ UNCHANGED <<server, rows>> /\ pc[p] = "addLookup"
    BY <1>3, <1>t DEF MasterFound, Step, stores
  <2> HIDE DEF m
  <2>3. Knows("addSave", m, server', rows')
    BY <2>1, <2>2 DEF Knows, KnowsCache, KnowsFound, KnowsEvent, KnowsMaster, KnowsNew, Unwritten
  <2> QED
    BY <1>t, <1>k, <2>2, <2>3, Guarantees DEF Pending, Unwritten
<1>4. CASE MasterNotFound(p)
  BY <1>4, <1>t, <1>k, FinishGuarantees DEF MasterNotFound, Finish, Step, stores, Pending, Unwritten
<1>5. CASE MasterSave(p)
  <2> DEFINE old == mem[p].master
             master == WithExdate(old, mem[p].occ)
             m == [mem[p] EXCEPT !.master = master]
             l == IF mem[p].ev = NoEvent THEN "exdDb" ELSE "excSave"
  <2>1. m.uid = mem[p].uid /\ m.ev = mem[p].ev /\ m.new = mem[p].new /\ m.master = master
    BY <1>t DEF Memory
  <2>2. pc' = [pc EXCEPT ![p] = l] /\ mem' = [mem EXCEPT ![p] = m] /\ UNCHANGED rows
        /\ pc[p] = "addSave" /\ PutOnServer(mem[p].uid, ServerForm(master))
    BY <1>5, <1>t DEF MasterSave, Step
  <2>3. old \in Lasting /\ old \in Event /\ mem[p].occ \in Occs /\ mem[p].uid \in Uids
        /\ old = server[mem[p].uid]
    BY <1>t, <1>k, <2>2 DEF Asked, Local, NeedsMaster, NeedsUid, Knows, KnowsMaster
  <2>4. server' = [server EXCEPT ![mem[p].uid] = master]
    BY <2>2, <2>3, LastingKept DEF PutOnServer
  <2>5. SameBody(old, master)
    BY <2>3, ClientsAssumption, ExdateKeepsBody
  <2>6. rows[mem[p].uid] # NoRow => SameBody(rows[mem[p].uid].ev, master)
    BY <1>k, <2>2, <2>3, <2>5 DEF Pending, Unwritten
  <2> HIDE DEF m, master, old
  <2>7. KnowsMaster(l, m, server', rows')
    BY <1>t, <2>1, <2>2, <2>3, <2>4, <2>6 DEF KnowsMaster, EventTable
  <2>8. KnowsNew(l, m, server', rows')
    BY <2>1 DEF KnowsNew, Unwritten
  <2>9. Knows(l, m, server', rows')
    BY <2>7, <2>8 DEF Knows, KnowsCache, KnowsFound, KnowsEvent
  <2>10. ASSUME NEW v \in Uids, ~ Pending(l, m, v), rows'[v] # NoRow PROVE rows'[v].ev = server'[v]
    BY <1>t, <1>k, <2>1, <2>2, <2>4, <2>10 DEF Pending, Unwritten, EventTable
  <2> HIDE DEF l
  <2> QED
    BY <1>t, <2>2, <2>9, <2>10, Guarantees
<1>6. CASE ExceptionSave(p)
  <2>1. PICK u \in Uids \ issued :
          PutOnServer(u, Standalone(mem[p].ev)) /\ mem' = [mem EXCEPT ![p].new = u]
    BY <1>6 DEF ExceptionSave
  <2> DEFINE m == [mem[p] EXCEPT !.new = u]
  <2>2. m.ev = mem[p].ev /\ m.new = u /\ m.uid = mem[p].uid /\ m.master = mem[p].master
    BY <1>t DEF Memory
  <2>3. pc' = [pc EXCEPT ![p] = "exdDb"] /\ mem' = [mem EXCEPT ![p] = m] /\ UNCHANGED rows
        /\ pc[p] = "excSave" /\ server' = [server EXCEPT ![u] = Standalone(mem[p].ev)]
    BY <1>6, <1>t, <2>1 DEF ExceptionSave, Step, PutOnServer
  <2> HIDE DEF m
  <2>4. mem[p].uid \in issued /\ mem[p].uid # u /\ rows[u] = NoRow /\ mem[p].ev \in Event
    BY <1>t, <1>k, <2>1, <2>3 DEF Known, NeedsUid, Local, NeedsEvent, Serial, UidsKnown, RowsAmong
  <2>5. KnowsMaster("exdDb", m, server', rows')
    BY <1>t, <1>k, <2>2, <2>3, <2>4 DEF Knows, KnowsMaster, EventTable
  <2>6. KnowsNew("exdDb", m, server', rows')
    BY <1>t, <2>2, <2>3, <2>4 DEF KnowsNew, Unwritten, EventTable
  <2>7. Knows("exdDb", m, server', rows')
    BY <2>5, <2>6 DEF Knows, KnowsCache, KnowsFound, KnowsEvent
  <2>8. mem[p].ev # NoEvent
    BY <2>4, NothingAssumption
  <2>9. ASSUME NEW v \in Uids, ~ Pending("exdDb", m, v), rows'[v] # NoRow PROVE rows'[v].ev = server'[v]
    BY <1>t, <1>k, <2>2, <2>3, <2>8, <2>9 DEF Pending, Unwritten, EventTable
  <2> QED
    BY <1>t, <2>3, <2>7, <2>9, Guarantees
<1>7. CASE ExdateDb(p)
  <2> DEFINE u == mem[p].uid
  <2>1. rows' = UpdateExdate(rows, u, mem[p].master.exdate, now) /\ UNCHANGED server /\ pc[p] = "exdDb"
    BY <1>7 DEF ExdateDb, Finish, Step
  <2>2. /\ u \in Uids /\ mem[p].master \in Event /\ server[u] = mem[p].master
        /\ rows[u] # NoRow => SameBody(rows[u].ev, mem[p].master)
    BY <1>t, <1>k, <2>1 DEF Local, NeedsUid, NeedsMaster, Knows, KnowsMaster
  <2>3. rows'[u] # NoRow => rows'[u].ev = server'[u]
    <3>1. CASE rows[u] = NoRow
      BY <2>1, <3>1 DEF UpdateExdate
    <3>2. CASE rows[u] # NoRow
      <4>1. rows[u].ev \in Event
        BY <1>t, <2>2, <3>2 DEF RowTable, Row
      <4>2. [rows[u].ev EXCEPT !.exdate = mem[p].master.exdate] = server[u]
        BY <2>2, <3>2, <4>1, ExdateCompletes
      <4>3. rows'[u].ev = [rows[u].ev EXCEPT !.exdate = mem[p].master.exdate]
        BY <1>t, <2>1, <2>2, <3>2 DEF UpdateExdate, RowTable
      <4> QED
        BY <2>1, <4>2, <4>3
    <3> QED
      BY <3>1, <3>2
  <2>4. ASSUME NEW v \in Uids, v # u PROVE rows'[v] = rows[v]
    BY <1>t, <2>1, <2>4 DEF UpdateExdate, RowTable
  <2>5. ASSUME NEW v \in Uids, ~ Unwritten("exdDb", mem[p], v), rows'[v] # NoRow
        PROVE  rows'[v].ev = server'[v]
    BY <1>k, <2>1, <2>3, <2>4, <2>5 DEF Pending
  <2>6. CASE mem[p].ev = NoEvent
    BY <1>7, <1>t, <2>5, <2>6, FinishGuarantees DEF ExdateDb, Unwritten
  <2>7. CASE mem[p].ev # NoEvent
    <3>1. Step(p, "exdDb", "excDb") /\ UNCHANGED mem
      BY <1>7, <2>7 DEF ExdateDb
    <3>2. Knows("excDb", mem[p], server', rows')
      BY <1>t, <1>k, <2>1, <2>4, <2>7
      DEF Knows, KnowsCache, KnowsFound, KnowsEvent, KnowsMaster, KnowsNew, Unwritten, Local
    <3> QED
      BY <1>t, <2>5, <2>7, <3>1, <3>2, KeptGuarantees DEF Pending, Unwritten
  <2> QED
    BY <2>6, <2>7
<1>8. CASE ExceptionDb(p)
  <2>1. PICK id \in Ids : rows' = UpsertRow(rows, mem[p].new, Standalone(mem[p].ev), id, now)
    BY <1>8 DEF ExceptionDb
  <2>2. Finish(p, "excDb") /\ pc[p] = "excDb" /\ UNCHANGED server
    BY <1>8 DEF ExceptionDb, Finish, Step
  <2>3. mem[p].new \in Uids /\ server[mem[p].new] = Standalone(mem[p].ev)
    BY <1>t, <1>k, <2>2 DEF Local, Knows, KnowsNew
  <2>4. ASSUME NEW v \in Uids, rows'[v] # NoRow PROVE rows'[v].ev = server'[v]
    BY <1>t, <1>k, <2>1, <2>2, <2>3, <2>4 DEF Pending, Unwritten, UpsertRow, RowTable
  <2> QED
    BY <1>t, <2>2, <2>4, FinishGuarantees
<1> QED
  BY <1>1, <1>2, <1>3, <1>4, <1>5, <1>6, <1>7, <1>8
  DEF OccurrenceNext, MasterLost, MasterFails, ExceptionLost, ExceptionFails, SaveFails, Fault,
      Serial, Undisturbed

(* Of the environment only the clock moves.                                *)
LEMMA EnvironmentSerial ==
  ASSUME TypeInv, SerialInv, Undisturbed, Environment
  PROVE  SerialInv' /\ UNCHANGED <<stores, control, issued>>
<1>1. Tick
  BY DEF Environment, ExternalPut, ExternalDelete, Crash, Fault, Undisturbed, TypeInv, TypeOK
<1>2. UNCHANGED <<stores, control, issued>>
  BY <1>1 DEF Tick
<1> QED
  BY <1>2 DEF stores, control, SerialInv, Agreement, AllKnow

(* The calendar starts with rows that agree with the server.               *)
LEMMA InitSerial == Init => SerialInv
<1> SUFFICES ASSUME Init PROVE SerialInv
  OBVIOUS
<1>1. Agreement
  BY DEF Init, Agreement
<1>2. AllKnow
  BY DEF Init, AllKnow, Knows, KnowsCache, KnowsFound, KnowsEvent, KnowsMaster, KnowsNew, Unwritten
<1> QED
  BY <1>1, <1>2 DEF SerialInv

(* Every step keeps the invariant while requests come one at a time.       *)
LEMMA NextSerial ==
  ASSUME Undisturbed, CalendarLasts, TypeInv, KeysApart, UidsKnown, StaysIn(Lasting), SerialInv,
         OneAtATime, OneAtATime', [Next]_vars
  PROVE  SerialInv'
<1>1. CASE UNCHANGED vars
  BY <1>1 DEF vars, SerialInv, Agreement, AllKnow
<1>2. CASE Environment
  BY <1>2, EnvironmentSerial
<1>3. ASSUME NEW p \in Procs, GetNext(p) \/ WriteNext(p) \/ OccurrenceNext(p) PROVE SerialInv'
  <2>1. Serial(p)
    BY <1>3, StepsAlone DEF Serial
  <2> QED
    BY <1>3, <2>1, GetSerial, CreateSerial, UpdateSerial, DeleteSerial, OccurrenceSerial DEF WriteNext
<1> QED
  BY <1>1, <1>2, <1>3 DEF Next

(* The invariant holds as long as requests come one at a time.             *)
THEOREM SerialAlways ==
  ASSUME Undisturbed, CalendarLasts
  PROVE  Spec /\ []OneAtATime => [](StaysIn(Lasting) /\ SerialInv)
<1>1. Init => StaysIn(Lasting) /\ SerialInv
  BY LastingClosed, InitStays, InitSerial
<1>2. /\ TypeInv /\ KeysApart /\ UidsKnown /\ StaysIn(Lasting) /\ SerialInv
      /\ OneAtATime /\ OneAtATime' /\ [Next]_vars
      => (StaysIn(Lasting) /\ SerialInv)'
  BY LastingClosed, NextStays, NextSerial
<1> QED
  BY <1>1, <1>2, TypesAlways, KeysAlways, UidsAlways, PTL DEF Spec

-----------------------------------------------------------------------------
(* What the cache lacks.                                                   *)

(* The server has an event that has no row, and that the request of p is   *)
(* not about to give one.                                                  *)
Missing(p, u) == server[u] # NoEvent /\ rows[u] = NoRow /\ ~ Unwritten(pc[p], mem[p], u)

SameSpan(a, b) == a.start = b.start /\ a.end = b.end /\ a.rrule = b.rrule

(* Writing a row gives the event one.                                      *)
LEMMA RowWritten ==
  ASSUME NEW table \in RowTable, NEW u \in Uids, NEW ev \in Event, NEW id \in Ids, NEW time \in Nat, NEW v \in Uids
  PROVE  /\ UpsertRow(table, u, ev, id, time)[u] # NoRow
         /\ v # u => UpsertRow(table, u, ev, id, time)[v] = table[v]
<1> DEFINE row == [id |-> IF table[u] = NoRow THEN id ELSE table[u].id, ev |-> ev, synced |-> time]
<1>1. row \in Row
  BY DEF RowTable, Row
<1>2. UpsertRow(table, u, ev, id, time)[u] = row
  BY DEF UpsertRow, RowTable
<1>3. UpsertRow(table, u, ev, id, time)[u] # NoRow
  BY <1>1, <1>2, NothingAssumption
<1> QED
  BY <1>3 DEF UpsertRow, RowTable

(* Updating rows loses none.                                               *)
LEMMA RowsStay ==
  ASSUME NEW table \in RowTable, NEW u \in Uids, NEW ev \in Event, NEW time \in Nat, NEW v \in Uids
  PROVE  /\ UpdateRow(table, u, ev, time)[v] = NoRow => table[v] = NoRow
         /\ UpdateExdate(table, u, ev.exdate, time)[v] = NoRow => table[v] = NoRow
<1>1. ASSUME table[u] # NoRow, NEW new \in Event
      PROVE  [id |-> table[u].id, ev |-> new, synced |-> time] # NoRow
  <2>1. [id |-> table[u].id, ev |-> new, synced |-> time] \in Row
    BY <1>1 DEF RowTable, Row
  <2> QED
    BY <2>1, NothingAssumption
<1>2. UpdateRow(table, u, ev, time)[v] = NoRow => table[v] = NoRow
  BY <1>1 DEF UpdateRow, RowTable
<1>3. UpdateExdate(table, u, ev.exdate, time)[v] = NoRow => table[v] = NoRow
  <2>1. table[u] # NoRow => [table[u].ev EXCEPT !.exdate = ev.exdate] \in Event
    BY DEF RowTable, Row, Event
  <2> QED
    BY <1>1, <2>1 DEF UpdateExdate, RowTable
<1> QED
  BY <1>2, <1>3

(* No step of get_events makes the cache lack an event.                    *)
LEMMA GetMisses ==
  ASSUME NEW p \in Procs, Serial(p), GetNext(p), NEW u \in Uids, Missing(p, u)'
  PROVE  Missing(p, u) /\ server'[u] = server[u]
<1>t. /\ rows \in RowTable /\ pc \in [Procs -> Label]
      /\ mem \in [Procs -> Memory] /\ mem[p] \in Memory
  BY DEF Serial, TypeInv, TypeOK
<1>1. UNCHANGED server
  BY DEF GetNext, GetBegin, GetDecide, GetConnectFails, GetCommitFails, ServeCached,
     GetSearch, GetSearchFails, Searched, GetCommit, GetMark, GetReply, stores
<1>2. ~ Unwritten(pc[p], mem[p], u)
  BY DEF GetNext, GetBegin, GetDecide, GetConnectFails, GetCommitFails, ServeCached, Receive,
     GetSearch, GetSearchFails, Searched, GetCommit, GetMark, GetReply, Finish, Step, Unwritten
<1>3. CASE GetCommit(p)
  <2> DEFINE m == mem[p]
  <2>1. PICK ids \in [NewRows(rows, m.seen, m.found) -> Ids] :
          rows' = OwnCleanup(OwnUpdate(BulkCreate(rows, m.seen, m.found, ids, m.stamp), m.seen, m.found),
                             m.seen, m.found)
    BY <1>3, CommitByUid DEF Serial
  <2>2. /\ m.seen \in RowTable /\ m.found \in EventTable /\ m.stamp \in Nat
        /\ m.seen[u] # NoRow => /\ rows[u] # NoRow /\ rows[u].id = m.seen[u].id
                                /\ m.found[u] # NoEvent /\ m.seen[u].ev = m.found[u]
    BY <1>3, <1>t, Relies DEF GetCommit, Step, Memory, Serial, Knows, KnowsFound
  <2>3. rows'[u] = NoRow => rows[u] = NoRow
    BY <1>t, <2>1, <2>2, CommitWrites
  <2> QED
    BY <1>1, <1>2, <2>3 DEF Missing
<1>4. CASE ~ GetCommit(p)
  <2>1. UNCHANGED rows
    BY <1>4 DEF GetNext, GetBegin, GetDecide, GetConnectFails, GetCommitFails, ServeCached,
       GetSearch, GetSearchFails, Searched, GetMark, GetReply, stores
  <2> QED
    BY <1>1, <1>2, <2>1 DEF Missing
<1> QED
  BY <1>3, <1>4

(* No step of a writing handler does, nor moves one that is lacking unless *)
(* it is an update.                                                        *)
LEMMA WriteMisses ==
  ASSUME NEW p \in Procs, Serial(p), WriteNext(p), NEW u \in Uids, Missing(p, u)'
  PROVE  Missing(p, u) /\ (server'[u] = server[u] \/ UpdateSave(p))
<1>t. /\ server \in EventTable /\ rows \in RowTable /\ pc \in [Procs -> Label]
      /\ mem \in [Procs -> Memory] /\ mem[p] \in Memory /\ Local(pc[p], mem[p])
  BY DEF Serial, TypeInv, TypeOK, Locals
<1>k. Knows(pc[p], mem[p], server, rows)
  BY Relies DEF Serial
<1>w. ASSUME UNCHANGED <<server, rows>>, pc[p] \notin {"createDb", "excDb", "exdDb"}
      PROVE  Missing(p, u) /\ server'[u] = server[u]
  BY <1>w DEF Missing, Unwritten
<1>1. CASE \/ CreateBegin(p) \/ UpdateBegin(p) \/ UpdateFound(p) \/ UpdateNotFound(p) \/ DeleteBegin(p)
  BY <1>1, <1>w DEF CreateBegin, UpdateBegin, UpdateFound, UpdateNotFound, DeleteBegin, Receive,
     Finish, Step, stores
<1>2. CASE CreateSave(p)
  <2>1. PICK v \in Uids \ issued :
          server' = [server EXCEPT ![v] = ServerForm(mem[p].ev)] /\ mem' = [mem EXCEPT ![p].new = v]
    BY <1>2 DEF CreateSave, PutOnServer
  <2>2. mem'[p].new = v /\ pc'[p] = "createDb" /\ pc[p] = "createSave" /\ UNCHANGED rows
    BY <1>2, <1>t, <2>1 DEF CreateSave, Step, Memory
  <2>3. u # v
    BY <2>2 DEF Missing, Unwritten
  <2> QED
    BY <1>t, <2>1, <2>2, <2>3 DEF Missing, Unwritten, EventTable
<1>3. CASE CreateDb(p)
  <2>1. PICK id \in Ids : rows' = UpsertRow(rows, mem[p].new, mem[p].ev, id, now)
    BY <1>3 DEF CreateDb
  <2>2. pc[p] = "createDb" /\ UNCHANGED server
    BY <1>3 DEF CreateDb, Finish, Step
  <2>3. mem[p].new \in Uids /\ mem[p].ev \in Event /\ now \in Nat
    BY <1>t, <2>2 DEF Local, NeedsEvent, Serial, TypeInv, TypeOK
  <2>4. u # mem[p].new
    BY <1>t, <2>1, <2>3, RowWritten DEF Missing
  <2> QED
    BY <1>t, <2>1, <2>2, <2>3, <2>4, RowWritten DEF Missing, Unwritten
<1>4. CASE UpdateSave(p)
  <2>1. pc[p] = "updateSave" /\ UNCHANGED rows /\ mem[p].uid \in Uids
        /\ server' = [server EXCEPT ![mem[p].uid] = ServerForm(mem[p].ev)]
    BY <1>4, <1>t DEF UpdateSave, Step, PutOnServer, Local, NeedsUid
  <2>2. server[mem[p].uid] # NoEvent
    BY <1>k, <2>1 DEF Knows, KnowsEvent
  <2> QED
    BY <1>4, <1>t, <2>1, <2>2 DEF Missing, Unwritten, EventTable
<1>5. CASE UpdateDb(p)
  <2>1. pc[p] = "updateDb" /\ UNCHANGED server /\ rows' = UpdateRow(rows, mem[p].uid, mem[p].ev, now)
    BY <1>5 DEF UpdateDb, Finish, Step
  <2>2. mem[p].uid \in Uids /\ mem[p].ev \in Event /\ now \in Nat
    BY <1>t, <2>1 DEF Local, NeedsEvent, NeedsUid, Serial, TypeInv, TypeOK
  <2>3. rows'[u] = NoRow => rows[u] = NoRow
    BY <1>t, <2>1, <2>2, RowsStay, NumbersAssumption, ClientsAssumption
  <2> QED
    BY <2>1, <2>3 DEF Missing, Unwritten
<1>6. CASE DeleteSave(p)
  <2>1. pc[p] = "deleteSave" /\ UNCHANGED rows /\ server' = [server EXCEPT ![mem[p].uid] = NoEvent]
    BY <1>6 DEF DeleteSave, Step
  <2> QED
    BY <1>t, <2>1 DEF Missing, Unwritten, EventTable
<1>7. CASE DeleteDb(p)
  <2>1. pc[p] = "deleteDb" /\ UNCHANGED server /\ rows' = [rows EXCEPT ![mem[p].uid] = NoRow]
    BY <1>7 DEF DeleteDb, Finish, Step
  <2>2. server[mem[p].uid] = NoEvent
    BY <1>k, <2>1 DEF Knows, KnowsEvent
  <2> QED
    BY <1>t, <2>1, <2>2 DEF Missing, Unwritten, RowTable
<1> QED
  BY <1>1, <1>2, <1>3, <1>4, <1>5, <1>6, <1>7
  DEF WriteNext, CreateLost, UpdateLost, DeleteLost, CreateFails, UpdateFails, DeleteFails, SaveFails,
      Fault, Serial, Undisturbed

(* No step of an occurrence handler does, and the EXDATE it adds moves     *)
(* nothing.                                                                *)
LEMMA OccurrenceMisses ==
  ASSUME NEW p \in Procs, Serial(p), OccurrenceNext(p), NEW u \in Uids, Missing(p, u)'
  PROVE  Missing(p, u) /\ SameSpan(server[u], server'[u])
<1>t. /\ server \in EventTable /\ rows \in RowTable /\ pc \in [Procs -> Label] /\ now \in Nat
      /\ mem \in [Procs -> Memory] /\ mem[p] \in Memory /\ Local(pc[p], mem[p])
  BY DEF Serial, TypeInv, TypeOK, Locals
<1>k. Knows(pc[p], mem[p], server, rows)
  BY Relies DEF Serial
<1>s. server'[u] = server[u] => SameSpan(server[u], server'[u])
  BY DEF SameSpan
<1>1. CASE ExceptionBegin(p) \/ OccurrenceBegin(p) \/ MasterFound(p) \/ MasterNotFound(p)
  BY <1>1, <1>s DEF ExceptionBegin, OccurrenceBegin, MasterFound, MasterNotFound, Receive,
     Finish, Step, stores, Missing, Unwritten
<1>2. CASE MasterSave(p)
  <2> DEFINE old == mem[p].master
             master == WithExdate(old, mem[p].occ)
  <2>1. pc[p] = "addSave" /\ UNCHANGED rows /\ server' = [server EXCEPT ![mem[p].uid] = ServerForm(master)]
    BY <1>2 DEF MasterSave, Step, PutOnServer
  <2>2. old \in Lasting /\ old \in Event /\ mem[p].occ \in Occs /\ mem[p].uid \in Uids
        /\ old = server[mem[p].uid]
    BY <1>t, <1>k, <2>1
    DEF Serial, StaysIn, AllAsked, Asked, Local, NeedsMaster, NeedsUid, Knows, KnowsMaster
  <2>3. server' = [server EXCEPT ![mem[p].uid] = master]
    BY <2>1, <2>2, LastingKept
  <2>4. SameSpan(old, master) /\ old # NoEvent
    BY <2>2, ClientsAssumption, NothingAssumption DEF SameSpan, WithExdate, Event
  <2> HIDE DEF old, master
  <2> QED
    BY <1>t, <1>s, <2>1, <2>2, <2>3, <2>4 DEF Missing, Unwritten, EventTable
<1>3. CASE ExceptionSave(p)
  <2>1. PICK v \in Uids \ issued :
          server' = [server EXCEPT ![v] = Standalone(mem[p].ev)] /\ mem' = [mem EXCEPT ![p].new = v]
    BY <1>3 DEF ExceptionSave, PutOnServer
  <2>2. mem'[p].new = v /\ mem'[p].ev = mem[p].ev /\ pc'[p] = "exdDb" /\ pc[p] = "excSave" /\ UNCHANGED rows
    BY <1>3, <1>t, <2>1 DEF ExceptionSave, Step, Memory
  <2>3. mem[p].ev # NoEvent
    BY <1>t, <2>2, NothingAssumption DEF Local, NeedsEvent
  <2>4. u # v
    BY <2>2, <2>3 DEF Missing, Unwritten
  <2> QED
    BY <1>t, <1>s, <2>1, <2>2, <2>4 DEF Missing, Unwritten, EventTable
<1>4. CASE ExdateDb(p)
  <2>1. rows' = UpdateExdate(rows, mem[p].uid, mem[p].master.exdate, now) /\ UNCHANGED server /\ pc[p] = "exdDb"
    BY <1>4 DEF ExdateDb, Finish, Step
  <2>2. mem[p].uid \in Uids /\ mem[p].master \in Event
    BY <1>t, <2>1 DEF Local, NeedsUid, NeedsMaster
  <2>3. rows'[u] = NoRow => rows[u] = NoRow
    BY <1>t, <2>1, <2>2, RowsStay, ClientsAssumption
  <2>4. Unwritten("exdDb", mem[p], u) => Unwritten(pc'[p], mem'[p], u)
    BY <1>4, <1>t DEF ExdateDb, Finish, Step, Unwritten
  <2> QED
    BY <1>s, <2>1, <2>3, <2>4 DEF Missing
<1>5. CASE ExceptionDb(p)
  <2>1. PICK id \in Ids : rows' = UpsertRow(rows, mem[p].new, Standalone(mem[p].ev), id, now)
    BY <1>5 DEF ExceptionDb
  <2>2. pc[p] = "excDb" /\ UNCHANGED server
    BY <1>5 DEF ExceptionDb, Finish, Step
  <2>3. mem[p].new \in Uids /\ Standalone(mem[p].ev) \in Event
    BY <1>t, <2>2, EventForms DEF Local, NeedsEvent
  <2>4. u # mem[p].new
    BY <1>t, <2>1, <2>3, RowWritten DEF Missing
  <2> QED
    BY <1>t, <1>s, <2>1, <2>2, <2>3, <2>4, RowWritten DEF Missing, Unwritten
<1> QED
  BY <1>1, <1>2, <1>3, <1>4, <1>5
  DEF OccurrenceNext, MasterLost, MasterFails, ExceptionLost, ExceptionFails, SaveFails, Fault,
      Serial, Undisturbed

(* What the cache lacks after a step it lacked before, and unless the step *)
(* stored an update it lay where it lies.                                  *)
LEMMA NoneLost ==
  ASSUME NEW p \in Procs, Serial(p), GetNext(p) \/ WriteNext(p) \/ OccurrenceNext(p),
         NEW u \in Uids, Missing(p, u)'
  PROVE  Missing(p, u) /\ (SameSpan(server[u], server'[u]) \/ UpdateSave(p))
  BY GetMisses, WriteMisses, OccurrenceMisses DEF SameSpan

-----------------------------------------------------------------------------
(* The cache mirrors the server.                                           *)

(* Every event has a row, or a request is about to write it.               *)
Complete ==
    \A u \in Uids : /\ server[u] # NoEvent
                    /\ \A p \in Procs : ~ Unwritten(pc[p], mem[p], u)
                    => rows[u] # NoRow

(* The cache has been filled.                                              *)
CachedAtStart == \A u \in Uids : Existing[u] # NoEvent => u \in Cached

(* An idle process is not about to write anything.                         *)
LEMMA OnlyMine ==
  ASSUME NEW p \in Procs, OthersIdle(p), NEW u
  PROVE  (\A q \in Procs : ~ Unwritten(pc[q], mem[q], u)) <=> ~ Unwritten(pc[p], mem[p], u)
  BY DEF OthersIdle, Unwritten

(* The others stay idle.                                                   *)
LEMMA StillIdle ==
  ASSUME NEW p \in Procs, TypeInv, OthersIdle(p), GetNext(p) \/ WriteNext(p) \/ OccurrenceNext(p)
  PROVE  OthersIdle(p)'
  BY OthersKept DEF OthersIdle

(* A filled cache is full at the start.                                    *)
LEMMA InitComplete ==
  ASSUME CachedAtStart, Init
  PROVE  Complete
<1> SUFFICES ASSUME NEW u \in Uids, server[u] # NoEvent PROVE rows[u] # NoRow
  BY DEF Complete
<1>1. PICK ids \in LeastIds(Cached, Ids) :
        rows = [v \in Uids |-> IF v \in Cached THEN [id |-> ids[v], ev |-> Existing[v], synced |-> 0]
                               ELSE NoRow]
  BY DEF Init
<1>2. rows[u] \in Row
  BY <1>1, ClientsAssumption DEF LeastIds, Init, CachedAtStart, EventTable, Row
<1> QED
  BY <1>2, NothingAssumption

(* It stays full.                                                          *)
LEMMA NextComplete ==
  ASSUME Undisturbed, CalendarLasts, TypeInv, KeysApart, UidsKnown, StaysIn(Lasting), SerialInv,
         OneAtATime, OneAtATime', Complete, [Next]_vars
  PROVE  Complete'
<1>1. CASE UNCHANGED vars
  BY <1>1 DEF vars, Complete
<1>2. CASE Environment
  BY <1>2, EnvironmentSerial DEF stores, control, Complete
<1>3. ASSUME NEW p \in Procs, GetNext(p) \/ WriteNext(p) \/ OccurrenceNext(p) PROVE Complete'
  <2>1. OthersIdle(p) /\ OthersIdle(p)' /\ Serial(p)
    BY <1>3, StepsAlone, StillIdle DEF Serial
  <2>2. ASSUME NEW u \in Uids, Missing(p, u)' PROVE FALSE
    BY <1>3, <2>1, <2>2, NoneLost, OnlyMine DEF Complete, Missing
  <2>3. ASSUME NEW u \in Uids, server'[u] # NoEvent,
               \A q \in Procs : ~ Unwritten(pc'[q], mem'[q], u)
        PROVE  rows'[u] # NoRow
    BY <2>2, <2>3 DEF Missing
  <2> QED
    BY <2>3 DEF Complete
<1> QED
  BY <1>1, <1>2, <1>3 DEF Next

(* Between requests a full cache that agrees with the server mirrors it.   *)
LEMMA MirrorsWhenIdle ==
  ASSUME TypeInv, Agreement, Complete
  PROVE  QuiescentAgreement
<1> SUFFICES ASSUME Idle, NEW u \in Uids
             PROVE  IF server[u] = NoEvent THEN rows[u] = NoRow
                    ELSE rows[u] # NoRow /\ rows[u].ev = server[u]
  BY DEF QuiescentAgreement, Mirrors
<1>1. \A p \in Procs : ~ Pending(pc[p], mem[p], u) /\ ~ Unwritten(pc[p], mem[p], u)
  BY DEF Idle, Pending, Unwritten
<1>2. rows[u] # NoRow => rows[u].ev = server[u] /\ rows[u].ev # NoEvent
  BY <1>1, NothingAssumption DEF Agreement, TypeInv, TypeOK, RowTable, Row
<1>3. server[u] # NoEvent => rows[u] # NoRow
  BY <1>1 DEF Complete
<1> QED
  BY <1>2, <1>3

(* Between requests the cache mirrors the server: create, update, delete   *)
(* and the two occurrence handlers write through, and a sync in between    *)
(* changes nothing, when requests come one at a time, no write fails, and  *)
(* the calendar's events are seen by a search wherever the cache has them. *)
THEOREM CacheMirrorsServer ==
  ASSUME Undisturbed, CalendarLasts, CachedAtStart
  PROVE  Spec /\ []OneAtATime => []QuiescentAgreement
<1>1. Init => Complete
  BY InitComplete
<1>2. /\ TypeInv /\ KeysApart /\ UidsKnown /\ (StaysIn(Lasting) /\ SerialInv)
      /\ OneAtATime /\ OneAtATime' /\ Complete /\ [Next]_vars
      => Complete'
  BY NextComplete
<1>3. TypeInv /\ (StaysIn(Lasting) /\ SerialInv) /\ Complete => QuiescentAgreement
  BY MirrorsWhenIdle DEF SerialInv
<1> QED
  BY <1>1, <1>2, <1>3, TypesAlways, KeysAlways, UidsAlways, SerialAlways, PTL DEF Spec
-----------------------------------------------------------------------------
(* Answers from the cache.                                                 *)

(* Clients ask for whole stretches of months that share none, and update   *)
(* no event: an update can move an event that has no row into a month that *)
(* is synced.                                                              *)
AsksByMonth ==
    /\ "update" \notin Ops
    /\ \A r, s \in Ranges : /\ SyncedMonths(r) # {}
                            /\ r # s => SyncedMonths(r) \cap SyncedMonths(s) = {}

NoneUpdates == \A p \in Procs : pc[p] \notin {"updateLookup", "updateSave", "updateDb"}

(* What is on the server in months that a worker has marked has a row.     *)
Marked(w, r) == \A k \in SyncedMonths(r) : marks[w][k] > now
Fetched ==
    \A w \in Workers, r \in Ranges : Marked(w, r) =>
        \A u \in Uids : /\ server[u] # NoEvent /\ InView(server[u], r)
                        /\ \A p \in Procs : ~ Unwritten(pc[p], mem[p], u)
                        => rows[u] # NoRow

(* An answer without a sync has every event of the server in its range.    *)
Answered(l, m, calendar) ==
    /\ l \in {"search", "commit", "mark"} => m.sync
    /\ l = "reply" /\ ~ m.sync =>
          /\ m.source = "cache"
          /\ \A u \in Uids : calendar[u] # NoEvent /\ InView(calendar[u], m.range)
                => m.seen[u] # NoRow /\ m.seen[u].ev = calendar[u]
AllAnswered == \A p \in Procs : Answered(pc[p], mem[p], server)

MaskInv == Fetched /\ AllAnswered /\ NoneUpdates

(* Only mark_range_synced sets a key, and no request moves the clock.      *)
LEMMA StepsKeepMarks ==
  ASSUME NEW p \in Procs, GetNext(p) \/ WriteNext(p) \/ OccurrenceNext(p)
  PROVE  UNCHANGED now /\ (UNCHANGED marks \/ GetMark(p))
<1>1. CASE GetNext(p)
  BY <1>1 DEF GetNext, GetBegin, GetDecide, GetConnectFails, GetCommitFails, ServeCached,
     GetSearch, GetSearchFails, Searched, GetCommit, GetMark, GetReply, stores
<1>2. CASE WriteNext(p)
  BY <1>2 DEF WriteNext, CreateBegin, CreateSave, CreateLost, CreateFails, CreateDb,
     UpdateBegin, UpdateFound, UpdateNotFound, UpdateSave, UpdateLost, UpdateFails, UpdateDb,
     DeleteBegin, DeleteSave, DeleteLost, DeleteFails, DeleteDb, SaveFails, stores
<1>3. CASE OccurrenceNext(p)
  BY <1>3 DEF OccurrenceNext, ExceptionBegin, OccurrenceBegin, MasterFound, MasterNotFound,
     MasterSave, MasterLost, MasterFails, ExceptionSave, ExceptionLost, ExceptionFails, ExdateDb,
     ExceptionDb, SaveFails, stores
<1> QED
  BY <1>1, <1>2, <1>3

(* Nobody begins an update that clients do not ask for.                    *)
LEMMA NextNoneUpdates ==
  ASSUME TypeInv, "update" \notin Ops, NoneUpdates,
         NEW p \in Procs, GetNext(p) \/ WriteNext(p) \/ OccurrenceNext(p)
  PROVE  NoneUpdates'
<1>t. pc \in [Procs -> Label]
  BY DEF TypeInv, TypeOK
<1>0. pc[p] \notin {"updateLookup", "updateSave", "updateDb"}
  BY DEF NoneUpdates
<1>1. CASE GetNext(p)
  BY <1>1, <1>t DEF NoneUpdates, GetNext, GetBegin, GetDecide, GetConnectFails, GetCommitFails,
     ServeCached, GetSearch, GetSearchFails, Searched, GetCommit, GetMark, GetReply, Finish, Step
<1>2. CASE WriteNext(p)
  BY <1>0, <1>2, <1>t DEF NoneUpdates, WriteNext, CreateBegin, CreateSave, CreateLost, CreateFails, CreateDb,
     UpdateBegin, UpdateFound, UpdateNotFound, UpdateSave, UpdateLost, UpdateFails, UpdateDb, Receive,
     DeleteBegin, DeleteSave, DeleteLost, DeleteFails, DeleteDb, SaveFails, Finish, Step
<1>3. CASE OccurrenceNext(p)
  BY <1>3, <1>t DEF NoneUpdates, OccurrenceNext, ExceptionBegin, OccurrenceBegin, MasterFound,
     MasterNotFound, MasterSave, MasterLost, MasterFails, ExceptionSave, ExceptionLost, ExceptionFails,
     ExdateDb, ExceptionDb, SaveFails, Finish, Step
<1> QED
  BY <1>1, <1>2, <1>3

(* Every step keeps the keys honest.                                       *)
LEMMA StepFetched ==
  ASSUME AsksByMonth, NEW p \in Procs, Serial(p), GetNext(p) \/ WriteNext(p) \/ OccurrenceNext(p),
         Fetched, NoneUpdates
  PROVE  Fetched'
<1>t. marks \in [Workers -> [Months -> Nat]] /\ now \in Nat /\ pc[p] \notin {"updateSave"}
  BY DEF Serial, TypeInv, TypeOK, NoneUpdates
<1>1. OthersIdle(p) /\ OthersIdle(p)'
  BY StillIdle DEF Serial
<1>2. ASSUME NEW w \in Workers, NEW r \in Ranges, Marked(w, r)', NEW u \in Uids,
             server'[u] # NoEvent, InView(server'[u], r),
             \A q \in Procs : ~ Unwritten(pc'[q], mem'[q], u), rows'[u] = NoRow
      PROVE  FALSE
  <2>1. Missing(p, u)'
    BY <1>2 DEF Missing
  <2>2. Missing(p, u) /\ SameSpan(server[u], server'[u])
    BY <1>t, <2>1, NoneLost DEF UpdateSave, Step
  <2>3. InView(server[u], r)
    BY <1>2, <2>2 DEF SameSpan, InView
  <2>4. CASE Marked(w, r)
    BY <1>1, <2>2, <2>3, <2>4, OnlyMine DEF Fetched, Missing
  <2>5. CASE ~ Marked(w, r)
    <3>1. GetMark(p) /\ pc[p] = "mark"
      BY <1>2, <2>5, StepsKeepMarks DEF Marked, GetMark, Step
    <3>2. PICK k \in SyncedMonths(r) : ~ (marks[w][k] > now) /\ marks'[w][k] > now
      BY <1>2, <2>5, StepsKeepMarks DEF Marked
    <3>3. k \in Months
      BY <3>2 DEF SyncedMonths
    <3>4. k \in SyncedMonths(mem[p].range)
      BY <1>t, <3>1, <3>2, <3>3 DEF GetMark
    <3>5. mem[p].range \in Ranges
      BY <3>1 DEF Serial, StaysIn, AllAsked, Asked
    <3>6. mem[p].range = r
      BY <3>2, <3>4, <3>5 DEF AsksByMonth
    <3>7. server[u] \in Lasting
      BY <2>2 DEF Missing, Serial, StaysIn, Holds
    <3>8. SearchHits(server, r)[u] # NoEvent
      BY <2>3, <3>7, LastingHit
    <3>9. rows[u] # NoRow
      BY <3>1, <3>6, <3>8, Relies DEF Serial, Knows, KnowsFound
    <3> QED
      BY <2>2, <3>9 DEF Missing
  <2> QED
    BY <2>4, <2>5
<1> QED
  BY <1>2 DEF Fetched

(* A decision not to sync is made on rows that miss nothing.               *)
LEMMA DecidesWell ==
  ASSUME AsksByMonth, NEW p \in Procs, Serial(p), Fetched, pc[p] = "decide",
         ~ ShouldSync(mem[p].force, mem[p].seen, mem[p].range, marks[WorkerOf[p]], now),
         NEW u \in Uids, server[u] # NoEvent, InView(server[u], mem[p].range)
  PROVE  mem[p].seen[u] # NoRow /\ mem[p].seen[u].ev = server[u]
<1>1. WorkerOf[p] \in Workers /\ mem[p].range \in Ranges
  BY ClientsAssumption DEF Serial, StaysIn, AllAsked, Asked
<1>2. marks[WorkerOf[p]] \in [Months -> Nat] /\ now \in Nat
  BY <1>1 DEF Serial, TypeInv, TypeOK
<1>3. \A k \in SyncedMonths(mem[p].range) : marks[WorkerOf[p]][k] > now
  BY <1>2 DEF ShouldSync, SyncedMonths
<1>4. \A q \in Procs : ~ Unwritten(pc[q], mem[q], u)
  BY DEF Serial, OthersIdle, Unwritten
<1>5. rows[u] # NoRow
  BY <1>1, <1>3, <1>4 DEF Fetched, Marked
<1>6. rows[u].ev = server[u]
  BY <1>5, Relies DEF Serial, Pending, Unwritten
<1>7. mem[p].seen = CachedEvents(rows, mem[p].range)
  BY Relies DEF Serial, Knows, KnowsCache
<1> QED
  BY <1>5, <1>6, <1>7 DEF CachedEvents

(* Every step keeps what an answer has.                                    *)
LEMMA StepAnswered ==
  ASSUME AsksByMonth, NEW p \in Procs, Serial(p), GetNext(p) \/ WriteNext(p) \/ OccurrenceNext(p),
         Fetched, AllAnswered
  PROVE  AllAnswered'
<1>t. mem \in [Procs -> Memory] /\ mem[p] \in Memory /\ pc \in [Procs -> Label]
  BY DEF Serial, TypeInv, TypeOK
<1>k. Answered(pc[p], mem[p], server)
  BY DEF AllAnswered
<1> SUFFICES Answered(pc'[p], mem'[p], server')
  BY StillIdle DEF AllAnswered, Answered, OthersIdle, Serial
<1>1. CASE GetDecide(p)
  <2> DEFINE sync == ShouldSync(mem[p].force, mem[p].seen, mem[p].range, marks[WorkerOf[p]], now)
             m == [mem[p] EXCEPT !.sync = sync, !.source = IF sync THEN "none" ELSE "cache"]
  <2>1. /\ m.seen = mem[p].seen /\ m.range = mem[p].range /\ m.sync = sync
        /\ ~ sync => m.source = "cache"
    BY <1>t DEF Memory
  <2>2. /\ pc'[p] = (IF sync THEN "search" ELSE "reply") /\ mem'[p] = m
        /\ UNCHANGED server /\ pc[p] = "decide"
    BY <1>1, <1>t DEF GetDecide, Step, stores
  <2> HIDE DEF m
  <2>3. ~ sync => \A u \in Uids : server[u] # NoEvent /\ InView(server[u], mem[p].range)
                     => mem[p].seen[u] # NoRow /\ mem[p].seen[u].ev = server[u]
    BY <2>2, DecidesWell
  <2> HIDE DEF sync
  <2> QED
    BY <2>1, <2>2, <2>3 DEF Answered
<1>2. CASE GetSearch(p) \/ GetSearchFails(p)
  <2>1. pc[p] = "search" /\ pc'[p] = "commit" /\ mem'[p].sync = mem[p].sync
    BY <1>2, <1>t DEF GetSearch, GetSearchFails, Searched, Step, Memory
  <2> QED
    BY <1>k, <2>1 DEF Answered
<1>3. CASE GetCommit(p)
  BY <1>3, <1>t, <1>k DEF GetCommit, Step, Answered
<1>4. CASE GetMark(p) \/ GetConnectFails(p) \/ GetCommitFails(p)
  <2>1. pc[p] \in {"search", "commit", "mark"} /\ pc'[p] = "reply" /\ mem'[p].sync = mem[p].sync
    BY <1>4, <1>t DEF GetMark, GetConnectFails, GetCommitFails, ServeCached, Step, Memory
  <2> QED
    BY <1>k, <2>1 DEF Answered
<1>5. CASE GetBegin(p) \/ GetReply(p)
  BY <1>5, <1>t DEF GetBegin, GetReply, Finish, Step, Answered
<1>6. CASE WriteNext(p)
  BY <1>6, <1>t DEF Answered, WriteNext, CreateBegin, CreateSave, CreateLost, CreateFails, CreateDb,
     UpdateBegin, UpdateFound, UpdateNotFound, UpdateSave, UpdateLost, UpdateFails, UpdateDb,
     DeleteBegin, DeleteSave, DeleteLost, DeleteFails, DeleteDb, SaveFails, Finish, Step
<1>7. CASE OccurrenceNext(p)
  BY <1>7, <1>t DEF Answered, OccurrenceNext, ExceptionBegin, OccurrenceBegin, MasterFound,
     MasterNotFound, MasterSave, MasterLost, MasterFails, ExceptionSave, ExceptionLost, ExceptionFails,
     ExdateDb, ExceptionDb, SaveFails, Finish, Step
<1> QED
  BY <1>1, <1>2, <1>3, <1>4, <1>5, <1>6, <1>7 DEF GetNext

(* Every step keeps the invariant.                                         *)
LEMMA NextMask ==
  ASSUME Undisturbed, CalendarLasts, AsksByMonth, TypeInv, KeysApart, UidsKnown, StaysIn(Lasting), SerialInv,
         OneAtATime, OneAtATime', MaskInv, [Next]_vars
  PROVE  MaskInv'
<1>0. Fetched /\ AllAnswered /\ NoneUpdates
  BY DEF MaskInv
<1>1. CASE UNCHANGED vars
  BY <1>0, <1>1 DEF vars, MaskInv, Fetched, Marked, AllAnswered, NoneUpdates
<1>2. CASE Environment
  <2>1. UNCHANGED <<stores, control>>
    BY <1>2, EnvironmentSerial
  <2>2. now' >= now /\ now \in Nat /\ now' \in Nat /\ marks \in [Workers -> [Months -> Nat]]
    BY <1>2 DEF Environment, Tick, ExternalPut, ExternalDelete, Crash, Fault, Undisturbed, TypeInv, TypeOK
  <2>3. ASSUME NEW w \in Workers, NEW r \in Ranges, Marked(w, r)' PROVE Marked(w, r)
    BY <2>1, <2>2, <2>3 DEF Marked, SyncedMonths, stores
  <2> QED
    BY <1>0, <2>1, <2>3 DEF MaskInv, Fetched, AllAnswered, NoneUpdates, stores, control
<1>3. ASSUME NEW p \in Procs, GetNext(p) \/ WriteNext(p) \/ OccurrenceNext(p) PROVE MaskInv'
  <2>1. Serial(p)
    BY <1>3, StepsAlone DEF Serial
  <2> QED
    BY <1>0, <1>3, <2>1, StepFetched, StepAnswered, NextNoneUpdates DEF MaskInv, AsksByMonth
<1> QED
  BY <1>1, <1>2, <1>3 DEF Next

(* No key is set and no request in progress at the start.                  *)
LEMMA InitMask ==
  ASSUME AsksByMonth, Init
  PROVE  MaskInv
<1>1. Fetched
  <2> SUFFICES ASSUME NEW w \in Workers, NEW r \in Ranges, Marked(w, r) PROVE FALSE
    BY DEF Fetched
  <2>1. PICK k \in SyncedMonths(r) : TRUE
    BY DEF AsksByMonth
  <2>2. k \in Months
    BY <2>1 DEF SyncedMonths
  <2>3. marks[w][k] = 0 /\ now = 0
    BY <2>2 DEF Init
  <2> QED
    BY <2>1, <2>3 DEF Marked
<1>2. AllAnswered /\ NoneUpdates
  BY DEF Init, AllAnswered, Answered, NoneUpdates
<1> QED
  BY <1>1, <1>2 DEF MaskInv

(* An answer given from the cache without a sync misses no event that the  *)
(* server has in the range asked for: when requests come one at a time, no *)
(* write fails, and clients ask for whole months and update nothing.       *)
THEOREM AnswersMissNothing ==
  ASSUME Undisturbed, CalendarLasts, AsksByMonth
  PROVE  Spec /\ []OneAtATime => []NoMasking
<1>1. Init => MaskInv
  BY InitMask
<1>2. /\ TypeInv /\ KeysApart /\ UidsKnown /\ (StaysIn(Lasting) /\ SerialInv)
      /\ OneAtATime /\ OneAtATime' /\ MaskInv /\ [Next]_vars
      => MaskInv'
  BY NextMask
<1>3. MaskInv => NoMasking
  BY DEF MaskInv, AllAnswered, Answered, NoMasking, Response
<1> QED
  BY <1>1, <1>2, <1>3, TypesAlways, KeysAlways, UidsAlways, SerialAlways, PTL DEF Spec
-----------------------------------------------------------------------------
(* Community rooms.                                                        *)

Plain == {ev \in Event : ev.rrule = 0}

(* Two events that do not recur are in one community room at once.         *)
Together(a, b) == a.room = b.room /\ a.room \in Rooms /\ a.start < b.end /\ a.end > b.start

(* No event recurs, the cache has been filled, and no room of the calendar *)
(* is booked twice yet.                                                    *)
PlainCalendar ==
    /\ Payloads \subseteq Plain
    /\ \A u \in Uids : Existing[u] # NoEvent => Existing[u] \in Plain
    /\ \A u, v \in Uids : u # v /\ Existing[u] # NoEvent /\ Existing[v] # NoEvent
                            => ~ Together(Existing[u], Existing[v])

(* The event ev is in no community room with an event other than u.        *)
FreeFor(ev, u, calendar) ==
    \A v \in Uids \ {u} : calendar[v] # NoEvent => ~ Together(ev, calendar[v])

(* What a handler at label l is about to store finds its room free; and it *)
(* replaces no occurrence, as no row recurs.                               *)
Books(l, m, calendar) ==
    /\ l = "createSave" => FreeFor(m.ev, NoUid, calendar)
    /\ l \in {"updateLookup", "updateSave"} => FreeFor(m.ev, m.uid, calendar)
    /\ l \in {"addLookup", "addSave", "exdDb"} => m.ev = NoEvent
    /\ l \notin {"excSave", "excDb"}
AllBook == \A p \in Procs : Books(pc[p], mem[p], server)

Apart == \A u \in Uids : server[u] # NoEvent => FreeFor(server[u], u, server)

BookingInv == Complete /\ Apart /\ AllBook

(* A calendar of events that do not recur stays one.                       *)
LEMMA PlainClosed ==
  ASSUME Undisturbed, PlainCalendar
  PROVE  Closed(Plain)
<1>1. ASSUME NEW ev \in Plain
      PROVE  /\ ServerForm(ev) \in Plain /\ Standalone(ev) \in Plain
             /\ \A occ \in Occs : ServerForm(WithExdate(ev, occ)) \in Plain
  BY ClientsAssumption DEF Plain, ServerForm, Standalone, WithExdate, Event
<1> QED
  BY <1>1 DEF Closed, PlainCalendar, Undisturbed

(* Being together is mutual.                                               *)
LEMMA TogetherMutual ==
  ASSUME NEW a \in Event, NEW b \in Event, Together(a, b)
  PROVE  Together(b, a)
  BY DEF Together, Event

(* Events that do not recur clash only when they are together.             *)
LEMMA ClashTogether ==
  ASSUME NEW a \in Plain, NEW b \in Plain, Clash(a, b)
  PROVE  Together(a, b)
<1>1. a \in Event /\ b \in Event /\ a.rrule = 0 /\ b.rrule = 0
  BY DEF Plain
<1>2. PICK s \in OccurrenceStarts(a), t \in OccurrenceStarts(b) :
        t < s + (a.end - a.start) /\ t + (b.end - b.start) > s
  BY DEF Clash, Overlaps
<1>3. s = a.start /\ t = b.start
  <2>1. PICK i \in 0 .. 0, j \in 0 .. 0 : s = a.start + i * Period /\ t = b.start + j * Period
    BY <1>1, <1>2 DEF OccurrenceStarts
  <2>2. i = 0 /\ j = 0
    OBVIOUS
  <2> QED
    BY <1>1, <2>1, <2>2, NumbersAssumption DEF Event
<1> QED
  BY <1>1, <1>2, <1>3 DEF Clash, Together, Event

(* An event that finds its room free is stored, or one is deleted.         *)
LEMMA PutApart ==
  ASSUME TypeInv, Apart, NEW u \in Uids, NEW ev, server' = [server EXCEPT ![u] = ev],
         ev = NoEvent \/ (ev \in Event /\ FreeFor(ev, u, server))
  PROVE  Apart'
<1>t. server \in EventTable
  BY DEF TypeInv, TypeOK
<1>1. server'[u] = ev /\ \A v \in Uids \ {u} : server'[v] = server[v]
  BY <1>t DEF EventTable
<1> SUFFICES ASSUME NEW v \in Uids, server'[v] # NoEvent, NEW w \in Uids \ {v}, server'[w] # NoEvent,
                    Together(server'[v], server'[w])
             PROVE  FALSE
  BY DEF Apart, FreeFor
<1>2. CASE v = u
  BY <1>1, <1>2 DEF FreeFor
<1>3. CASE w = u
  <2>1. server[v] \in Event /\ ev \in Event /\ Together(server[v], ev)
    BY <1>t, <1>1, <1>3 DEF EventTable
  <2>2. Together(ev, server[v])
    BY <2>1, TogetherMutual
  <2> QED
    BY <1>1, <1>3, <2>2 DEF FreeFor
<1>4. CASE v # u /\ w # u
  BY <1>1, <1>4 DEF Apart, FreeFor
<1> QED
  BY <1>2, <1>3, <1>4

(* The validation of a request sees every event there is: the room is free *)
(* for an event that is valid.                                             *)
LEMMA ValidIsFree ==
  ASSUME NEW p \in Procs, Serial(p), pc[p] = "idle", Complete,
         NEW ev, NEW u, NEW exclude \in SUBSET {u}, Valid(rows, ev, exclude)
  PROVE  FreeFor(ev, u, server)
<1> SUFFICES ASSUME NEW v \in Uids \ {u}, server[v] # NoEvent, Together(ev, server[v]) PROVE FALSE
  BY DEF FreeFor
<1>1. rows[v] # NoRow
  BY DEF Complete, Serial, OthersIdle, Unwritten
<1>2. rows[v].ev = server[v]
  BY <1>1, Relies DEF Serial, Pending, Unwritten
<1>3. v \in BookedOver(rows, ev.room, ev.start, ev.end)
  BY <1>1, <1>2 DEF BookedOver, Together
<1> QED
  BY <1>3 DEF Valid, Together

(* No row recurs.                                                          *)
LEMMA RowsPlain ==
  ASSUME NEW p \in Procs, Serial(p), StaysIn(Plain), pc[p] = "idle", NEW u \in Uids, rows[u] # NoRow
  PROVE  rows[u].ev.rrule = 0
<1>1. rows[u].ev = server[u] /\ rows[u].ev \in Event
  BY Relies DEF Serial, Pending, Unwritten, TypeInv, TypeOK, RowTable, Row
<1>2. server[u] \in Plain
  BY <1>1, NothingAssumption DEF StaysIn, Holds
<1> QED
  BY <1>1, <1>2 DEF Plain

(* Every step of a writing handler keeps the rooms.                        *)
LEMMA WriteBooks ==
  ASSUME NEW p \in Procs, Serial(p), StaysIn(Plain), BookingInv, WriteNext(p)
  PROVE  Apart' /\ Books(pc'[p], mem'[p], server')
<1>t. /\ TypeInv /\ server \in EventTable /\ rows \in RowTable /\ pc \in [Procs -> Label]
      /\ mem \in [Procs -> Memory] /\ mem[p] \in Memory /\ issued \subseteq Uids /\ Local(pc[p], mem[p])
  BY DEF Serial, TypeInv, TypeOK, Locals
<1>k. Complete /\ Apart /\ Books(pc[p], mem[p], server) /\ Asked(pc[p], mem[p], Lasting)
  BY DEF BookingInv, AllBook, Serial, StaysIn, AllAsked
<1>u. UNCHANGED server => Apart'
  BY <1>k DEF Apart
<1>e. ASSUME pc[p] \in {"createSave", "updateSave"}
      PROVE  ServerForm(mem[p].ev) = mem[p].ev /\ mem[p].ev \in Event
  <2>1. mem[p].ev \in Payloads
    BY <1>e, <1>k DEF Asked, NeedsEvent
  <2> QED
    BY <2>1, LastingKept DEF Serial, CalendarLasts, Lasting
<1>1. CASE CreateBegin(p)
  <2>1. PICK ev \in Payloads : Valid(rows, ev, {}) /\ mem' = [mem EXCEPT ![p] = [Blank EXCEPT !.ev = ev]]
    BY <1>1 DEF CreateBegin
  <2>2. pc'[p] = "createSave" /\ mem'[p].ev = ev /\ pc[p] = "idle" /\ UNCHANGED server
    BY <1>1, <1>t, <2>1 DEF CreateBegin, Receive, stores, Blank
  <2>3. FreeFor(ev, NoUid, server)
    BY <1>k, <2>1, <2>2, ValidIsFree
  <2> QED
    BY <1>u, <2>2, <2>3 DEF Books
<1>2. CASE CreateSave(p)
  <2>1. PICK u \in Uids \ issued : server' = [server EXCEPT ![u] = ServerForm(mem[p].ev)]
    BY <1>2 DEF CreateSave, PutOnServer
  <2>2. pc[p] = "createSave" /\ pc'[p] = "createDb"
    BY <1>2, <1>t DEF CreateSave, Step
  <2>3. FreeFor(mem[p].ev, u, server)
    BY <1>k, <2>2, NothingAssumption DEF Books, FreeFor
  <2>4. Apart'
    BY <1>t, <1>k, <1>e, <2>1, <2>2, <2>3, PutApart
  <2> QED
    BY <2>2, <2>4 DEF Books
<1>3. CASE UpdateBegin(p)
  <2>1. PICK u \in issued, ev \in Payloads :
          /\ Valid(rows, ev, ExcludedByUpdate(rows, u, ev))
          /\ mem' = [mem EXCEPT ![p] = [Blank EXCEPT !.uid = u, !.ev = ev]]
    BY <1>3 DEF UpdateBegin
  <2>2. pc'[p] = "updateLookup" /\ mem'[p].ev = ev /\ mem'[p].uid = u /\ pc[p] = "idle" /\ UNCHANGED server
    BY <1>3, <1>t, <2>1 DEF UpdateBegin, Receive, stores, Blank
  <2>3. \A v \in Uids : rows[v] # NoRow => rows[v].ev.rrule = 0
    BY <2>2, RowsPlain
  <2>4. ExcludedByUpdate(rows, u, ev) \in SUBSET {u}
    BY <1>t, <2>3 DEF ExcludedByUpdate
  <2>5. FreeFor(ev, u, server)
    BY <1>k, <2>1, <2>2, <2>4, ValidIsFree
  <2> QED
    BY <1>u, <2>2, <2>5 DEF Books
<1>4. CASE UpdateFound(p)
  BY <1>4, <1>t, <1>u, <1>k DEF UpdateFound, Step, stores, Books
<1>5. CASE UpdateSave(p)
  <2>1. server' = [server EXCEPT ![mem[p].uid] = ServerForm(mem[p].ev)]
        /\ pc[p] = "updateSave" /\ pc'[p] = "updateDb"
    BY <1>5, <1>t DEF UpdateSave, Step, PutOnServer
  <2>2. FreeFor(mem[p].ev, mem[p].uid, server) /\ mem[p].uid \in Uids
    BY <1>t, <1>k, <2>1 DEF Books, Local, NeedsUid
  <2>3. Apart'
    BY <1>t, <1>k, <1>e, <2>1, <2>2, PutApart
  <2> QED
    BY <2>1, <2>3 DEF Books
<1>6. CASE DeleteSave(p)
  <2>1. server' = [server EXCEPT ![mem[p].uid] = NoEvent] /\ pc'[p] = "deleteDb" /\ mem[p].uid \in Uids
    BY <1>6, <1>t DEF DeleteSave, Step, Local, NeedsUid
  <2>2. Apart'
    BY <1>t, <1>k, <2>1, PutApart
  <2> QED
    BY <2>1, <2>2 DEF Books
<1>7. CASE UpdateNotFound(p) \/ CreateDb(p) \/ UpdateDb(p) \/ DeleteBegin(p) \/ DeleteDb(p)
  BY <1>7, <1>t, <1>u DEF UpdateNotFound, CreateDb, UpdateDb, DeleteBegin, DeleteDb, Finish, Step,
     stores, Books
<1> QED
  BY <1>1, <1>2, <1>3, <1>4, <1>5, <1>6, <1>7
  DEF WriteNext, CreateLost, UpdateLost, DeleteLost, CreateFails, UpdateFails, DeleteFails, SaveFails,
      Fault, Serial, Undisturbed

(* Every step of an occurrence handler does.                               *)
LEMMA OccurrenceBooks ==
  ASSUME NEW p \in Procs, Serial(p), StaysIn(Plain), BookingInv, OccurrenceNext(p)
  PROVE  Apart' /\ Books(pc'[p], mem'[p], server')
<1>t. /\ TypeInv /\ server \in EventTable /\ pc \in [Procs -> Label] /\ issued \subseteq Uids
      /\ mem \in [Procs -> Memory] /\ mem[p] \in Memory /\ Local(pc[p], mem[p])
  BY DEF Serial, TypeInv, TypeOK, Locals
<1>k. Complete /\ Apart /\ Books(pc[p], mem[p], server)
  BY DEF BookingInv, AllBook
<1>u. UNCHANGED server => Apart'
  BY <1>k DEF Apart
<1>1. CASE ExceptionBegin(p)
  <2>1. PICK u \in issued : rows[u] # NoRow /\ rows[u].ev.rrule # 0
    BY <1>1 DEF ExceptionBegin
  <2>2. pc[p] = "idle"
    BY <1>1 DEF ExceptionBegin, Receive
  <2> QED
    BY <1>t, <2>1, <2>2, RowsPlain
<1>2. CASE OccurrenceBegin(p)
  <2>1. PICK u \in issued, occ \in Occs :
          mem' = [mem EXCEPT ![p] = [Blank EXCEPT !.uid = u, !.occ = occ]]
    BY <1>2 DEF OccurrenceBegin
  <2>2. pc'[p] = "addLookup" /\ mem'[p].ev = NoEvent /\ UNCHANGED server
    BY <1>2, <1>t, <2>1 DEF OccurrenceBegin, stores, Blank
  <2> QED
    BY <1>u, <2>2 DEF Books
<1>3. CASE MasterFound(p)
  <2>1. pc[p] = "addLookup" /\ pc'[p] = "addSave" /\ mem'[p].ev = mem[p].ev /\ UNCHANGED server
    BY <1>3, <1>t DEF MasterFound, Step, stores, Memory
  <2> QED
    BY <1>u, <1>k, <2>1 DEF Books
<1>4. CASE MasterSave(p)
  <2> DEFINE old == mem[p].master
             master == WithExdate(old, mem[p].occ)
  <2>1. pc[p] = "addSave" /\ server' = [server EXCEPT ![mem[p].uid] = ServerForm(master)]
        /\ pc'[p] = (IF mem[p].ev = NoEvent THEN "exdDb" ELSE "excSave") /\ mem'[p].ev = mem[p].ev
    BY <1>4, <1>t DEF MasterSave, Step, PutOnServer, Memory
  <2>2. old \in Lasting /\ old \in Event /\ mem[p].occ \in Occs /\ mem[p].uid \in Uids
        /\ old = server[mem[p].uid]
    BY <1>t, <2>1, Relies
    DEF Serial, StaysIn, AllAsked, Asked, Local, NeedsMaster, NeedsUid, Knows, KnowsMaster
  <2>3. server' = [server EXCEPT ![mem[p].uid] = master]
    BY <2>1, <2>2, LastingKept
  <2>4. /\ master \in Event /\ old # NoEvent
        /\ master.start = old.start /\ master.end = old.end /\ master.room = old.room
    BY <2>2, ClientsAssumption, NothingAssumption DEF WithExdate, Event
  <2> HIDE DEF master
  <2>5. FreeFor(master, mem[p].uid, server)
    BY <1>k, <2>2, <2>4 DEF Apart, FreeFor, Together
  <2>6. Apart'
    BY <1>t, <1>k, <2>2, <2>3, <2>4, <2>5, PutApart
  <2> QED
    BY <1>k, <2>1, <2>6 DEF Books
<1>5. CASE ExdateDb(p)
  <2>1. pc[p] = "exdDb" /\ mem[p].ev = NoEvent
    BY <1>5, <1>k DEF ExdateDb, Finish, Step, Books
  <2>2. pc'[p] = "idle" /\ UNCHANGED server
    BY <1>5, <1>t, <2>1 DEF ExdateDb, Finish, Step
  <2> QED
    BY <1>u, <2>2 DEF Books
<1>6. CASE MasterNotFound(p)
  BY <1>6, <1>t, <1>u DEF MasterNotFound, Finish, Step, stores, Books
<1>7. CASE ExceptionSave(p) \/ ExceptionDb(p)
  BY <1>7, <1>k DEF ExceptionSave, ExceptionDb, Finish, Step, Books
<1> QED
  BY <1>1, <1>2, <1>3, <1>4, <1>5, <1>6, <1>7
  DEF OccurrenceNext, MasterLost, MasterFails, ExceptionLost, ExceptionFails, SaveFails, Fault,
      Serial, Undisturbed

(* A GET leaves the server alone and books nothing.                        *)
LEMMA GetBooks ==
  ASSUME NEW p \in Procs, Serial(p), BookingInv, GetNext(p)
  PROVE  Apart' /\ Books(pc'[p], mem'[p], server')
<1>1. UNCHANGED server /\ pc'[p] \in {"idle", "decide", "search", "commit", "mark", "reply"}
  BY DEF Serial, TypeInv, TypeOK, GetNext, GetBegin, GetDecide, GetConnectFails, GetCommitFails,
     ServeCached, GetSearch, GetSearchFails, Searched, GetCommit, GetMark, GetReply, Finish, Step, stores
<1> QED
  BY <1>1 DEF BookingInv, Apart, Books

(* Every step keeps the invariant.                                         *)
LEMMA NextBooking ==
  ASSUME Undisturbed, CalendarLasts, TypeInv, KeysApart, UidsKnown, StaysIn(Lasting), SerialInv, StaysIn(Plain),
         OneAtATime, OneAtATime', BookingInv, [Next]_vars
  PROVE  BookingInv'
<1>0. Complete'
  BY NextComplete DEF BookingInv
<1>1. CASE UNCHANGED vars
  BY <1>0, <1>1 DEF vars, BookingInv, Apart, AllBook
<1>2. CASE Environment
  <2>1. UNCHANGED <<stores, control>>
    BY <1>2, EnvironmentSerial
  <2> QED
    BY <1>0, <2>1 DEF BookingInv, Apart, AllBook, stores, control
<1>3. ASSUME NEW p \in Procs, GetNext(p) \/ WriteNext(p) \/ OccurrenceNext(p) PROVE BookingInv'
  <2>1. Serial(p) /\ OthersIdle(p)'
    BY <1>3, StepsAlone, StillIdle DEF Serial
  <2>2. Apart' /\ Books(pc'[p], mem'[p], server')
    BY <1>3, <2>1, GetBooks, WriteBooks, OccurrenceBooks
  <2>3. AllBook'
    BY <2>1, <2>2 DEF AllBook, Books, OthersIdle
  <2> QED
    BY <1>0, <2>2, <2>3 DEF BookingInv
<1> QED
  BY <1>1, <1>2, <1>3 DEF Next

(* A filled cache, rooms not yet booked twice, and no request.             *)
LEMMA InitBooking ==
  ASSUME PlainCalendar, CachedAtStart, Init
  PROVE  BookingInv
<1>1. Apart
  BY DEF Init, PlainCalendar, Apart, FreeFor
<1>2. AllBook
  BY DEF Init, AllBook, Books
<1> QED
  BY <1>1, <1>2, InitComplete DEF BookingInv

(* No community room is booked twice: the validation against the cache     *)
(* sees every event of the server, when requests come one at a time, no    *)
(* write fails, the cache has been filled, and no event recurs.            *)
THEOREM RoomsBookedOnce ==
  ASSUME Undisturbed, CalendarLasts, CachedAtStart, PlainCalendar
  PROVE  Spec /\ []OneAtATime => []NoDoubleBooking
<1>1. Init => BookingInv /\ StaysIn(Plain)
  BY InitBooking, PlainClosed, InitStays
<1>2. /\ TypeInv /\ KeysApart /\ UidsKnown /\ (StaysIn(Lasting) /\ SerialInv)
      /\ OneAtATime /\ OneAtATime' /\ BookingInv /\ StaysIn(Plain) /\ [Next]_vars
      => BookingInv' /\ StaysIn(Plain)'
  BY NextBooking, PlainClosed, NextStays
<1>3. BookingInv /\ StaysIn(Plain) => NoDoubleBooking
  <2> SUFFICES ASSUME BookingInv, StaysIn(Plain), NEW u \in Uids, NEW v \in Uids, u # v,
                      server[u] # NoEvent, server[v] # NoEvent, Clash(server[u], server[v])
               PROVE  FALSE
    BY DEF NoDoubleBooking
  <2>1. Together(server[u], server[v])
    BY ClashTogether DEF StaysIn, Holds
  <2> QED
    BY <2>1 DEF BookingInv, Apart, FreeFor
<1> QED
  BY <1>1, <1>2, <1>3, TypesAlways, KeysAlways, UidsAlways, SerialAlways, PTL DEF Spec
=============================================================================
