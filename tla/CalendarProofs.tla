--------------------------- MODULE CalendarProofs ---------------------------
(***************************************************************************)
(* Theorems about calendar_app, for every value of the constants.          *)
(***************************************************************************)
EXTENDS CalendarApp, TLAPS

-----------------------------------------------------------------------------
(* The operators of CalendarData return what their names say.              *)

(* A blank memory is a memory.                                             *)
LEMMA BlankType == Blank \in Memory
  BY DEF Blank, Memory, NoRows, NoEvents, RowTable, EventTable, Range

(* get_cached_events returns rows.                                         *)
LEMMA CachedEventsType ==
  ASSUME NEW table \in RowTable, NEW r
  PROVE  CachedEvents(table, r) \in RowTable
  BY DEF CachedEvents, RowTable

(* A search returns events.                                                *)
LEMMA SearchHitsType ==
  ASSUME NEW table \in EventTable, NEW r
  PROVE  SearchHits(table, r) \in EventTable
  BY DEF SearchHits, EventTable

(* process_caldav_sync leaves rows in memory.                              *)
LEMMA MergeFoundType ==
  ASSUME NEW seen \in RowTable, NEW found \in EventTable, NEW time \in Nat
  PROVE  MergeFound(seen, found, time) \in RowTable
  BY NothingAssumption DEF MergeFound, RowTable, EventTable, Row

(* The three statements of the sync's transaction leave rows in the table. *)
LEMMA BulkCreateType ==
  ASSUME NEW table \in RowTable, NEW seen \in RowTable, NEW found \in EventTable,
         NEW ids \in [NewRows(table, seen, found) -> Ids], NEW time \in Nat
  PROVE  BulkCreate(table, seen, found, ids, time) \in RowTable
<1>1. ASSUME NEW u \in Uids PROVE BulkCreate(table, seen, found, ids, time)[u] \in Row \cup {NoRow}
  <2>1. CASE found[u] = NoEvent \/ seen[u] # NoRow
    BY <2>1 DEF BulkCreate, RowTable
  <2>2. CASE found[u] # NoEvent /\ seen[u] = NoRow
    <3> DEFINE id == IF table[u] = NoRow THEN ids[u] ELSE table[u].id
    <3>1. id \in Ids
      BY <2>2 DEF NewRows, RowTable, Row
    <3>2. found[u] \in Event
      BY <2>2 DEF EventTable
    <3>3. BulkCreate(table, seen, found, ids, time)[u] = [id |-> id, ev |-> found[u], synced |-> time]
      BY <2>2 DEF BulkCreate
    <3> QED
      BY <3>1, <3>2, <3>3 DEF Row
  <2> QED
    BY <2>1, <2>2
<1> QED
  BY <1>1 DEF BulkCreate, RowTable

(* A row that bulk_update reaches becomes a row that was read with its     *)
(* key, of an event found; another stays as it is.                         *)
LEMMA UpdatedRowIs ==
  ASSUME NEW row, NEW seen, NEW found
  PROVE  \/ UpdatedRow(row, seen, found) = row
         \/ \E v \in Uids : /\ found[v] # NoEvent /\ SameRow(row, seen[v])
                            /\ UpdatedRow(row, seen, found) = seen[v]
<1> DEFINE merged == {v \in Uids : found[v] # NoEvent /\ SameRow(row, seen[v])}
<1>1. CASE merged = {}
  BY <1>1 DEF UpdatedRow
<1>2. CASE merged # {}
  <2> DEFINE w == CHOOSE v \in merged : TRUE
  <2>1. w \in merged
    BY <1>2
  <2>2. UpdatedRow(row, seen, found) = seen[w]
    BY <1>2 DEF UpdatedRow
  <2> HIDE DEF w
  <2> QED
    BY <2>1, <2>2
<1> QED
  BY <1>1, <1>2

(* bulk_update leaves a table of rows.                                     *)
LEMMA BulkUpdateType ==
  ASSUME NEW table \in RowTable, NEW seen \in RowTable, NEW found
  PROVE  BulkUpdate(table, seen, found) \in RowTable
<1>1. ASSUME NEW u \in Uids PROVE UpdatedRow(table[u], seen, found) \in Row \cup {NoRow}
  BY UpdatedRowIs DEF RowTable
<1> QED
  BY <1>1 DEF BulkUpdate, RowTable

(* cleanup_zombie_events leaves a table of rows.                           *)
LEMMA CleanupZombiesType ==
  ASSUME NEW table \in RowTable, NEW seen, NEW found
  PROVE  CleanupZombies(table, seen, found) \in RowTable
  BY DEF CleanupZombies, RowTable

(* The writes of a single row leave rows in the table.                     *)
LEMMA UpsertRowType ==
  ASSUME NEW table \in RowTable, NEW u \in Uids, NEW ev \in Event, NEW id \in Ids, NEW time \in Nat
  PROVE  UpsertRow(table, u, ev, id, time) \in RowTable
  BY DEF UpsertRow, RowTable, Row

(* The row written by update_event is a row.                               *)
LEMMA UpdateRowType ==
  ASSUME NEW table \in RowTable, NEW u \in Uids, NEW ev \in Event, NEW time \in Nat
  PROVE  UpdateRow(table, u, ev, time) \in RowTable
  BY DEF UpdateRow, RowTable, Row

(* The row that takes a new exdate stays a row.                            *)
LEMMA UpdateExdateType ==
  ASSUME NEW table \in RowTable, NEW u \in Uids, NEW exdate \in SUBSET Nat, NEW time \in Nat
  PROVE  UpdateExdate(table, u, exdate, time) \in RowTable
<1>1. CASE table[u] = NoRow
  BY <1>1 DEF UpdateExdate
<1>2. CASE table[u] # NoRow
  <2>1. table[u] \in Row
    BY <1>2 DEF RowTable
  <2>2. [table[u].ev EXCEPT !.exdate = exdate] \in Event
    BY <2>1 DEF Row, Event
  <2> QED
    BY <1>2, <2>1, <2>2 DEF UpdateExdate, RowTable, Row
<1> QED
  BY <1>1, <1>2

(* What is sent to the server is an event.                                 *)
LEMMA EventForms ==
  ASSUME NEW ev \in Event, NEW occ \in Nat
  PROVE  /\ ServerForm(ev) \in Event
         /\ Standalone(ev) \in Event
         /\ WithExdate(ev, occ) \in Event
  BY DEF ServerForm, Standalone, WithExdate, Event

-----------------------------------------------------------------------------
(* Type correctness.  TypeOK is not inductive: a handler that writes the   *)
(* event it was sent must have been sent one.  Local says which local      *)
(* variables a handler at label l has set in its memory m.                 *)

NeedsEvent == {"createSave", "createDb", "updateLookup", "updateSave", "updateDb", "excSave", "excDb"}
NeedsUid == {"updateLookup", "updateSave", "updateDb", "deleteSave", "deleteDb",
             "addLookup", "addSave", "excSave", "exdDb", "excDb"}
NeedsMaster == {"addSave", "excSave", "exdDb", "excDb"}

Local(l, m) ==
    /\ l \in NeedsEvent => m.ev \in Event
    /\ l \in NeedsUid => m.uid \in Uids
    /\ l \in NeedsMaster => m.master \in Event
    /\ l = "createDb" \/ l = "excDb" \/ (l = "exdDb" /\ m.ev # NoEvent) => m.new \in Uids

Locals == \A p \in Procs : Local(pc[p], mem[p])

TypeInv == TypeOK /\ Locals

(* A step of one process that leaves it at a label l with a memory m good  *)
(* for l keeps the processes' part of the invariant.                       *)
LEMMA ProcessStep ==
  ASSUME TypeInv, NEW p \in Procs, NEW l \in Label, NEW m \in Memory, Local(l, m),
         pc' = [pc EXCEPT ![p] = l], mem' = [mem EXCEPT ![p] = m]
  PROVE  pc' \in [Procs -> Label] /\ mem' \in [Procs -> Memory] /\ Locals'
<1>1. pc \in [Procs -> Label] /\ mem \in [Procs -> Memory]
  BY DEF TypeInv, TypeOK
<1>2. pc' \in [Procs -> Label] /\ mem' \in [Procs -> Memory]
  BY <1>1
<1>3. ASSUME NEW q \in Procs PROVE Local(pc'[q], mem'[q])
  <2>1. CASE q = p
    BY <1>1, <2>1
  <2>2. CASE q # p
    <3>1. pc'[q] = pc[q] /\ mem'[q] = mem[q]
      BY <1>1, <2>2
    <3> QED
      BY <3>1 DEF TypeInv, Locals
  <2> QED
    BY <2>1, <2>2
<1> QED
  BY <1>2, <1>3 DEF Locals

(* The same for a handler that returns.                                    *)
LEMMA FinishStep ==
  ASSUME TypeInv, NEW p \in Procs, NEW l, Finish(p, l)
  PROVE  pc' \in [Procs -> Label] /\ mem' \in [Procs -> Memory] /\ Locals'
<1>1. Local("idle", Blank)
  BY DEF Local, NeedsEvent, NeedsUid, NeedsMaster
<1> QED
  BY <1>1, BlankType, ProcessStep DEF Finish, Step, Label

(* The same for a step that leaves the process's memory alone.             *)
LEMMA MemoryKept ==
  ASSUME TypeInv, NEW p \in Procs, NEW l, NEW k \in Label, Step(p, l, k), UNCHANGED mem,
         Local(k, mem[p])
  PROVE  pc' \in [Procs -> Label] /\ mem' \in [Procs -> Memory] /\ Locals'
<1>1. mem[p] \in Memory /\ mem \in [Procs -> Memory]
  BY DEF TypeInv, TypeOK
<1>2. mem' = [mem EXCEPT ![p] = mem[p]]
  BY <1>1
<1> QED
  BY <1>1, <1>2, ProcessStep DEF Step

(* The server's table and its history after it took an event.              *)
LEMMA PutType ==
  ASSUME TypeInv, NEW u, NEW ev \in Event, PutOnServer(u, ev)
  PROVE  server' \in EventTable /\ held' \in [Uids -> SUBSET Event]
<1>1. server \in EventTable /\ held \in [Uids -> SUBSET Event]
  BY DEF TypeInv, TypeOK
<1> QED
  BY <1>1 DEF PutOnServer, EventTable

-----------------------------------------------------------------------------
(* The handler get_events.                                                 *)
LEMMA GetTypes ==
  ASSUME TypeInv, NEW p \in Procs, GetNext(p)
  PROVE  TypeInv'
<1> USE DEF TypeInv
<1>t. /\ server \in EventTable /\ rows \in RowTable
      /\ marks \in [Workers -> [Months -> Nat]] /\ now \in Nat
      /\ pc \in [Procs -> Label] /\ mem \in [Procs -> Memory] /\ mem[p] \in Memory
      /\ issued \subseteq Uids
      /\ held \in [Uids -> SUBSET Event] /\ absent \in [Procs -> SUBSET Uids]
      /\ faults \in Nat /\ writes \in Nat /\ edits \in Nat
  BY DEF TypeOK
<1>s. Locals /\ Local(pc[p], mem[p])
  BY DEF Locals
<1>1. CASE GetBegin(p)
  <2>1. PICK r \in Ranges, f \in Forces :
          mem' = [mem EXCEPT ![p] = [Blank EXCEPT !.range = r, !.force = f,
                                                  !.seen = CachedEvents(rows, r)]]
    BY <1>1 DEF GetBegin
  <2> DEFINE m == [Blank EXCEPT !.range = r, !.force = f, !.seen = CachedEvents(rows, r)]
  <2>2. r \in Range /\ f \in BOOLEAN /\ CachedEvents(rows, r) \in RowTable
    BY <1>t, ClientsAssumption, CachedEventsType
  <2>3. m \in Memory
    BY <2>2, BlankType DEF Memory
  <2>4. Local("decide", m) /\ "decide" \in Label
    BY DEF Local, NeedsEvent, NeedsUid, NeedsMaster, Label
  <2>5. pc' = [pc EXCEPT ![p] = "decide"] /\ mem' = [mem EXCEPT ![p] = m]
    BY <1>1, <2>1 DEF GetBegin
  <2>6. pc' \in [Procs -> Label] /\ mem' \in [Procs -> Memory] /\ Locals'
    BY <2>3, <2>4, <2>5, ProcessStep
  <2> QED
    BY <1>1, <1>t, <2>6 DEF GetBegin, Receive, TypeOK, stores, observers
<1>2. CASE GetDecide(p)
  <2> DEFINE sync == ShouldSync(mem[p].force, mem[p].seen, mem[p].range, marks[WorkerOf[p]], now)
             l == IF sync THEN "search" ELSE "reply"
             m == [mem[p] EXCEPT !.sync = sync, !.source = IF sync THEN "none" ELSE "cache"]
  <2>1. sync \in BOOLEAN
    BY DEF ShouldSync
  <2>2. m \in Memory
    BY <1>t, <2>1 DEF Memory
  <2>3. Local(l, m) /\ l \in Label
    BY DEF Local, NeedsEvent, NeedsUid, NeedsMaster, Label
  <2>4. pc' = [pc EXCEPT ![p] = l] /\ mem' = [mem EXCEPT ![p] = m]
    BY <1>2 DEF GetDecide, Step
  <2>5. pc' \in [Procs -> Label] /\ mem' \in [Procs -> Memory] /\ Locals'
    BY <2>2, <2>3, <2>4, ProcessStep
  <2> QED
    BY <1>2, <1>t, <2>5 DEF GetDecide, TypeOK, stores, observers, counters
<1>3. ASSUME NEW l, ServeCached(p, l), faults' \in Nat PROVE TypeInv'
  <2> DEFINE m == [mem[p] EXCEPT !.source = "cache"]
  <2>1. m \in Memory
    BY <1>t DEF Memory
  <2>2. Local("reply", m) /\ "reply" \in Label
    BY DEF Local, NeedsEvent, NeedsUid, NeedsMaster, Label
  <2>3. pc' = [pc EXCEPT ![p] = "reply"] /\ mem' = [mem EXCEPT ![p] = m]
    BY <1>3, <1>t DEF ServeCached, Step
  <2>4. pc' \in [Procs -> Label] /\ mem' \in [Procs -> Memory] /\ Locals'
    BY <2>1, <2>2, <2>3, ProcessStep
  <2> QED
    BY <1>3, <1>t, <2>4 DEF ServeCached, TypeOK, stores, observers
<1>4. CASE GetConnectFails(p)
  BY <1>4, <1>3, <1>t DEF GetConnectFails, Fault
<1>5. CASE GetCommitFails(p)
  BY <1>5, <1>3, <1>t DEF GetCommitFails, Fault
<1>6. ASSUME NEW found \in EventTable, Searched(p, found), faults' \in Nat PROVE TypeInv'
  <2> DEFINE m == [mem[p] EXCEPT !.found = found, !.stamp = now,
                                 !.seen = MergeFound(mem[p].seen, found, now)]
  <2>1. MergeFound(mem[p].seen, found, now) \in RowTable
    <3>1. mem[p].seen \in RowTable
      BY <1>t DEF Memory
    <3> QED
      BY <1>t, <3>1, MergeFoundType
  <2>2. m \in Memory
    BY <1>t, <2>1 DEF Memory
  <2>3. Local("commit", m) /\ "commit" \in Label
    BY DEF Local, NeedsEvent, NeedsUid, NeedsMaster, Label
  <2>4. pc' = [pc EXCEPT ![p] = "commit"] /\ mem' = [mem EXCEPT ![p] = m]
    BY <1>6, <1>t DEF Searched, Step
  <2>5. pc' \in [Procs -> Label] /\ mem' \in [Procs -> Memory] /\ Locals'
    BY <2>2, <2>3, <2>4, ProcessStep
  <2>6. absent' \in [Procs -> SUBSET Uids]
    BY <1>6, <1>t DEF Searched
  <2> QED
    BY <1>6, <1>t, <2>5, <2>6 DEF Searched, TypeOK, stores
<1>7. CASE GetSearch(p)
  BY <1>7, <1>6, <1>t, SearchHitsType DEF GetSearch, NoFault
<1>8. CASE GetSearchFails(p)
  <2>1. NoEvents \in EventTable
    BY DEF NoEvents, EventTable
  <2> QED
    BY <1>8, <1>6, <1>t, <2>1 DEF GetSearchFails, Fault
<1>9. CASE GetCommit(p)
  <2> DEFINE m == mem[p]
  <2>1. PICK ids \in NextIds(NewRows(rows, m.seen, m.found)) :
          rows' = CleanupZombies(BulkUpdate(BulkCreate(rows, m.seen, m.found, ids, m.stamp),
                                            m.seen, m.found), m.seen, m.found)
    BY <1>9 DEF GetCommit
  <2>2. m.seen \in RowTable /\ m.found \in EventTable /\ m.stamp \in Nat
    BY <1>t DEF Memory
  <2>3. BulkCreate(rows, m.seen, m.found, ids, m.stamp) \in RowTable
    <3>1. ids \in [NewRows(rows, m.seen, m.found) -> Ids]
      BY DEF NextIds, LeastIds, FreshIds
    <3> QED
      BY <1>t, <2>2, <3>1, BulkCreateType
  <2>4. rows' \in RowTable
    BY <2>1, <2>2, <2>3, BulkUpdateType, CleanupZombiesType
  <2>5. Local("mark", mem[p]) /\ "mark" \in Label
    BY DEF Local, NeedsEvent, NeedsUid, NeedsMaster, Label
  <2>6. pc' \in [Procs -> Label] /\ mem' \in [Procs -> Memory] /\ Locals'
    BY <1>9, <2>5, MemoryKept DEF GetCommit
  <2> QED
    BY <1>9, <1>t, <2>4, <2>6 DEF GetCommit, TypeOK, observers, counters
<1>10. CASE GetMark(p)
  <2> DEFINE m == [mem[p] EXCEPT !.source = "server"]
  <2>1. m \in Memory
    BY <1>t DEF Memory
  <2>2. Local("reply", m) /\ "reply" \in Label
    BY DEF Local, NeedsEvent, NeedsUid, NeedsMaster, Label
  <2>3. pc' = [pc EXCEPT ![p] = "reply"] /\ mem' = [mem EXCEPT ![p] = m]
    BY <1>10, <1>t DEF GetMark, Step
  <2>4. pc' \in [Procs -> Label] /\ mem' \in [Procs -> Memory] /\ Locals'
    BY <2>1, <2>2, <2>3, ProcessStep
  <2>5. marks' \in [Workers -> [Months -> Nat]]
    BY <1>10, <1>t, ClientsAssumption, NumbersAssumption DEF GetMark
  <2> QED
    BY <1>10, <1>t, <2>4, <2>5 DEF GetMark, TypeOK, observers, counters
<1>11. CASE GetReply(p)
  <2>1. pc' \in [Procs -> Label] /\ mem' \in [Procs -> Memory] /\ Locals'
    BY <1>11, FinishStep DEF GetReply
  <2>2. absent' \in [Procs -> SUBSET Uids]
    BY <1>11, <1>t DEF GetReply
  <2> QED
    BY <1>11, <1>t, <2>1, <2>2 DEF GetReply, TypeOK, stores, counters
<1> QED
  BY <1>1, <1>2, <1>4, <1>5, <1>7, <1>8, <1>9, <1>10, <1>11 DEF GetNext

-----------------------------------------------------------------------------
(* The handlers that write.                                                *)

(* Receiving a request counts it.                                          *)
LEMMA ReceiveType ==
  ASSUME TypeInv, NEW p, NEW op, Receive(p, op)
  PROVE  writes' \in Nat
  BY DEF Receive, TypeInv, TypeOK

(* A save that fails changes no store.                                     *)
LEMMA SaveFailsTypes ==
  ASSUME TypeInv, NEW p \in Procs, NEW l, SaveFails(p, l)
  PROVE  TypeInv'
<1>1. pc' \in [Procs -> Label] /\ mem' \in [Procs -> Memory] /\ Locals'
  BY FinishStep DEF SaveFails
<1> QED
  BY <1>1 DEF SaveFails, Fault, TypeInv, TypeOK, stores, observers

(* Every step of create_event keeps the type invariant.                    *)
LEMMA CreateTypes ==
  ASSUME TypeInv, NEW p \in Procs,
         CreateBegin(p) \/ CreateSave(p) \/ CreateLost(p) \/ CreateFails(p) \/ CreateDb(p)
  PROVE  TypeInv'
<1> USE DEF TypeInv
<1>t. /\ server \in EventTable /\ rows \in RowTable
      /\ marks \in [Workers -> [Months -> Nat]] /\ now \in Nat
      /\ pc \in [Procs -> Label] /\ mem \in [Procs -> Memory] /\ mem[p] \in Memory
      /\ issued \subseteq Uids
      /\ held \in [Uids -> SUBSET Event] /\ absent \in [Procs -> SUBSET Uids]
      /\ faults \in Nat /\ writes \in Nat /\ edits \in Nat
  BY DEF TypeOK
<1>s. Locals /\ Local(pc[p], mem[p])
  BY DEF Locals
<1>1. CASE CreateBegin(p)
  <2>1. PICK ev \in Payloads :
          mem' = [mem EXCEPT ![p] = [Blank EXCEPT !.ev = ev]]
    BY <1>1 DEF CreateBegin
  <2> DEFINE m == [Blank EXCEPT !.ev = ev]
  <2>2. ev \in Event
    BY <1>t, ClientsAssumption
  <2>3. m \in Memory
    BY <2>2, BlankType DEF Memory
  <2>4. Local("createSave", m) /\ "createSave" \in Label
    BY <2>2, BlankType DEF Memory, Local, NeedsEvent, NeedsUid, NeedsMaster, Label
  <2>5. pc' = [pc EXCEPT ![p] = "createSave"] /\ mem' = [mem EXCEPT ![p] = m]
    BY <1>1, <2>1 DEF CreateBegin
  <2>6. pc' \in [Procs -> Label] /\ mem' \in [Procs -> Memory] /\ Locals'
    BY <2>3, <2>4, <2>5, ProcessStep
  <2>7. UNCHANGED <<server, rows, marks, now, issued, held, absent, faults, edits>>
    BY <1>1 DEF CreateBegin, stores, observers
  <2>8. writes' \in Nat
    BY <1>1, ReceiveType DEF CreateBegin
  <2> QED
    BY <1>t, <2>6, <2>7, <2>8 DEF TypeOK
<1>2. CASE CreateSave(p)
  <2>1. PICK u \in Uids \ issued :
          /\ PutOnServer(u, ServerForm(mem[p].ev))
          /\ issued' = issued \cup {u}
          /\ mem' = [mem EXCEPT ![p].new = u]
    BY <1>2 DEF CreateSave
  <2> DEFINE m == [mem[p] EXCEPT !.new = u]
  <2>2. mem[p].ev \in Event
    BY <1>2, <1>s DEF CreateSave, Step, Local, NeedsEvent
  <2>3. server' \in EventTable /\ held' \in [Uids -> SUBSET Event]
    BY <2>1, <2>2, EventForms, PutType
  <2>4. m \in Memory
    BY <1>t DEF Memory
  <2>5. Local("createDb", m) /\ "createDb" \in Label
    BY <1>t, <2>2 DEF Memory, Local, NeedsEvent, NeedsUid, NeedsMaster, Label
  <2>6. pc' = [pc EXCEPT ![p] = "createDb"] /\ mem' = [mem EXCEPT ![p] = m]
    BY <1>2, <1>t, <2>1 DEF CreateSave, Step
  <2>7. pc' \in [Procs -> Label] /\ mem' \in [Procs -> Memory] /\ Locals'
    BY <2>4, <2>5, <2>6, ProcessStep
  <2> QED
    BY <1>2, <1>t, <2>1, <2>3, <2>7 DEF CreateSave, NoFault, TypeOK
<1>3. CASE CreateLost(p)
  <2>1. PICK u \in Uids \ issued :
          PutOnServer(u, ServerForm(mem[p].ev)) /\ issued' = issued \cup {u}
    BY <1>3 DEF CreateLost
  <2>2. mem[p].ev \in Event
    BY <1>3, <1>s DEF CreateLost, Finish, Step, Local, NeedsEvent
  <2>3. server' \in EventTable /\ held' \in [Uids -> SUBSET Event]
    BY <2>1, <2>2, EventForms, PutType
  <2>4. pc' \in [Procs -> Label] /\ mem' \in [Procs -> Memory] /\ Locals'
    BY <1>3, FinishStep DEF CreateLost
  <2> QED
    BY <1>3, <1>t, <2>1, <2>3, <2>4 DEF CreateLost, Fault, TypeOK
<1>4. CASE CreateFails(p)
  BY <1>4, SaveFailsTypes DEF CreateFails
<1>5. CASE CreateDb(p)
  <2>1. PICK id \in Ids : rows' = UpsertRow(rows, mem[p].new, mem[p].ev, id, now)
    BY <1>5 DEF CreateDb
  <2>2. mem[p].ev \in Event /\ mem[p].new \in Uids
    BY <1>5, <1>s DEF CreateDb, Finish, Step, Local, NeedsEvent
  <2>3. rows' \in RowTable
    BY <1>t, <2>1, <2>2, UpsertRowType
  <2>4. pc' \in [Procs -> Label] /\ mem' \in [Procs -> Memory] /\ Locals'
    BY <1>5, FinishStep DEF CreateDb
  <2> QED
    BY <1>5, <1>t, <2>3, <2>4 DEF CreateDb, TypeOK, observers, counters
<1> QED
  BY <1>1, <1>2, <1>3, <1>4, <1>5

(* Every step of update_event keeps the type invariant.                    *)
LEMMA UpdateTypes ==
  ASSUME TypeInv, NEW p \in Procs,
         \/ UpdateBegin(p) \/ UpdateFound(p) \/ UpdateNotFound(p)
         \/ UpdateSave(p) \/ UpdateLost(p) \/ UpdateFails(p) \/ UpdateDb(p)
  PROVE  TypeInv'
<1> USE DEF TypeInv
<1>t. /\ server \in EventTable /\ rows \in RowTable
      /\ marks \in [Workers -> [Months -> Nat]] /\ now \in Nat
      /\ pc \in [Procs -> Label] /\ mem \in [Procs -> Memory] /\ mem[p] \in Memory
      /\ issued \subseteq Uids
      /\ held \in [Uids -> SUBSET Event] /\ absent \in [Procs -> SUBSET Uids]
      /\ faults \in Nat /\ writes \in Nat /\ edits \in Nat
  BY DEF TypeOK
<1>s. Locals /\ Local(pc[p], mem[p])
  BY DEF Locals
<1>1. CASE UpdateBegin(p)
  <2>1. PICK u \in issued, ev \in Payloads :
          mem' = [mem EXCEPT ![p] = [Blank EXCEPT !.uid = u, !.ev = ev]]
    BY <1>1 DEF UpdateBegin
  <2> DEFINE m == [Blank EXCEPT !.uid = u, !.ev = ev]
  <2>2. u \in Uids /\ ev \in Event
    BY <1>t, ClientsAssumption
  <2>3. m \in Memory
    BY <2>2, BlankType DEF Memory
  <2>4. Local("updateLookup", m) /\ "updateLookup" \in Label
    BY <2>2, BlankType DEF Memory, Local, NeedsEvent, NeedsUid, NeedsMaster, Label
  <2>5. pc' = [pc EXCEPT ![p] = "updateLookup"] /\ mem' = [mem EXCEPT ![p] = m]
    BY <1>1, <2>1 DEF UpdateBegin
  <2>6. pc' \in [Procs -> Label] /\ mem' \in [Procs -> Memory] /\ Locals'
    BY <2>3, <2>4, <2>5, ProcessStep
  <2>7. UNCHANGED <<server, rows, marks, now, issued, held, absent, faults, edits>>
    BY <1>1 DEF UpdateBegin, stores, observers
  <2>8. writes' \in Nat
    BY <1>1, ReceiveType DEF UpdateBegin
  <2> QED
    BY <1>t, <2>6, <2>7, <2>8 DEF TypeOK
<1>2. CASE UpdateFound(p)
  <2>1. Local("updateSave", mem[p]) /\ "updateSave" \in Label
    BY <1>2, <1>s DEF UpdateFound, Step, Local, NeedsEvent, NeedsUid, NeedsMaster, Label
  <2>2. pc' \in [Procs -> Label] /\ mem' \in [Procs -> Memory] /\ Locals'
    BY <1>2, <2>1, MemoryKept DEF UpdateFound
  <2> QED
    BY <1>2, <1>t, <2>2 DEF UpdateFound, TypeOK, stores, observers, counters
<1>3. CASE UpdateNotFound(p)
  <2>1. pc' \in [Procs -> Label] /\ mem' \in [Procs -> Memory] /\ Locals'
    BY <1>3, FinishStep DEF UpdateNotFound
  <2> QED
    BY <1>3, <1>t, <2>1 DEF UpdateNotFound, TypeOK, stores, observers, counters
<1>4. CASE UpdateSave(p)
  <2>1. mem[p].ev \in Event
    BY <1>4, <1>s DEF UpdateSave, Step, Local, NeedsEvent
  <2>2. server' \in EventTable /\ held' \in [Uids -> SUBSET Event]
    BY <1>4, <2>1, EventForms, PutType DEF UpdateSave
  <2>3. Local("updateDb", mem[p]) /\ "updateDb" \in Label
    BY <1>4, <1>s DEF UpdateSave, Step, Local, NeedsEvent, NeedsUid, NeedsMaster, Label
  <2>4. pc' \in [Procs -> Label] /\ mem' \in [Procs -> Memory] /\ Locals'
    BY <1>4, <2>3, MemoryKept DEF UpdateSave
  <2> QED
    BY <1>4, <1>t, <2>2, <2>4 DEF UpdateSave, NoFault, TypeOK
<1>5. CASE UpdateLost(p)
  <2>1. mem[p].ev \in Event
    BY <1>5, <1>s DEF UpdateLost, Finish, Step, Local, NeedsEvent
  <2>2. server' \in EventTable /\ held' \in [Uids -> SUBSET Event]
    BY <1>5, <2>1, EventForms, PutType DEF UpdateLost
  <2>3. pc' \in [Procs -> Label] /\ mem' \in [Procs -> Memory] /\ Locals'
    BY <1>5, FinishStep DEF UpdateLost
  <2> QED
    BY <1>5, <1>t, <2>2, <2>3 DEF UpdateLost, Fault, TypeOK
<1>6. CASE UpdateFails(p)
  BY <1>6, SaveFailsTypes DEF UpdateFails
<1>7. CASE UpdateDb(p)
  <2>1. mem[p].ev \in Event /\ mem[p].uid \in Uids
    BY <1>7, <1>s DEF UpdateDb, Finish, Step, Local, NeedsEvent, NeedsUid
  <2>2. rows' \in RowTable
    BY <1>7, <1>t, <2>1, UpdateRowType DEF UpdateDb
  <2>3. pc' \in [Procs -> Label] /\ mem' \in [Procs -> Memory] /\ Locals'
    BY <1>7, FinishStep DEF UpdateDb
  <2> QED
    BY <1>7, <1>t, <2>2, <2>3 DEF UpdateDb, TypeOK, observers, counters
<1> QED
  BY <1>1, <1>2, <1>3, <1>4, <1>5, <1>6, <1>7

(* Every step of delete_event keeps the type invariant.                    *)
LEMMA DeleteTypes ==
  ASSUME TypeInv, NEW p \in Procs,
         DeleteBegin(p) \/ DeleteSave(p) \/ DeleteLost(p) \/ DeleteFails(p) \/ DeleteDb(p)
  PROVE  TypeInv'
<1> USE DEF TypeInv
<1>t. /\ server \in EventTable /\ rows \in RowTable
      /\ marks \in [Workers -> [Months -> Nat]] /\ now \in Nat
      /\ pc \in [Procs -> Label] /\ mem \in [Procs -> Memory] /\ mem[p] \in Memory
      /\ issued \subseteq Uids
      /\ held \in [Uids -> SUBSET Event] /\ absent \in [Procs -> SUBSET Uids]
      /\ faults \in Nat /\ writes \in Nat /\ edits \in Nat
  BY DEF TypeOK
<1>s. Locals /\ Local(pc[p], mem[p])
  BY DEF Locals
<1>1. CASE DeleteBegin(p)
  <2>1. PICK u \in issued :
          mem' = [mem EXCEPT ![p] = [Blank EXCEPT !.uid = u]]
    BY <1>1 DEF DeleteBegin
  <2> DEFINE m == [Blank EXCEPT !.uid = u]
  <2>2. u \in Uids
    BY <1>t, ClientsAssumption
  <2>3. m \in Memory
    BY <2>2, BlankType DEF Memory
  <2>4. Local("deleteSave", m) /\ "deleteSave" \in Label
    BY <2>2, BlankType DEF Memory, Local, NeedsEvent, NeedsUid, NeedsMaster, Label
  <2>5. pc' = [pc EXCEPT ![p] = "deleteSave"] /\ mem' = [mem EXCEPT ![p] = m]
    BY <1>1, <2>1 DEF DeleteBegin
  <2>6. pc' \in [Procs -> Label] /\ mem' \in [Procs -> Memory] /\ Locals'
    BY <2>3, <2>4, <2>5, ProcessStep
  <2>7. UNCHANGED <<server, rows, marks, now, issued, held, absent, faults, edits>>
    BY <1>1 DEF DeleteBegin, stores, observers
  <2>8. writes' \in Nat
    BY <1>1, ReceiveType DEF DeleteBegin
  <2> QED
    BY <1>t, <2>6, <2>7, <2>8 DEF TypeOK
<1>2. CASE DeleteSave(p)
  <2>1. Local("deleteDb", mem[p]) /\ "deleteDb" \in Label
    BY <1>2, <1>s DEF DeleteSave, Step, Local, NeedsEvent, NeedsUid, NeedsMaster, Label
  <2>2. pc' \in [Procs -> Label] /\ mem' \in [Procs -> Memory] /\ Locals'
    BY <1>2, <2>1, MemoryKept DEF DeleteSave
  <2>3. server' \in EventTable
    BY <1>2, <1>t DEF DeleteSave, EventTable
  <2> QED
    BY <1>2, <1>t, <2>2, <2>3 DEF DeleteSave, NoFault, TypeOK, observers
<1>3. CASE DeleteLost(p)
  <2>1. pc' \in [Procs -> Label] /\ mem' \in [Procs -> Memory] /\ Locals'
    BY <1>3, FinishStep DEF DeleteLost
  <2>2. server' \in EventTable
    BY <1>3, <1>t DEF DeleteLost, EventTable
  <2> QED
    BY <1>3, <1>t, <2>1, <2>2 DEF DeleteLost, Fault, TypeOK, observers
<1>4. CASE DeleteFails(p)
  BY <1>4, SaveFailsTypes DEF DeleteFails
<1>5. CASE DeleteDb(p)
  <2>1. pc' \in [Procs -> Label] /\ mem' \in [Procs -> Memory] /\ Locals'
    BY <1>5, FinishStep DEF DeleteDb
  <2>2. rows' \in RowTable
    BY <1>5, <1>t DEF DeleteDb, RowTable
  <2> QED
    BY <1>5, <1>t, <2>1, <2>2 DEF DeleteDb, TypeOK, observers, counters
<1> QED
  BY <1>1, <1>2, <1>3, <1>4, <1>5

(* Every step of the two occurrence handlers keeps the type invariant.     *)
LEMMA OccurrenceTypes ==
  ASSUME TypeInv, NEW p \in Procs, OccurrenceNext(p)
  PROVE  TypeInv'
<1> USE DEF TypeInv
<1>t. /\ server \in EventTable /\ rows \in RowTable
      /\ marks \in [Workers -> [Months -> Nat]] /\ now \in Nat
      /\ pc \in [Procs -> Label] /\ mem \in [Procs -> Memory] /\ mem[p] \in Memory
      /\ issued \subseteq Uids
      /\ held \in [Uids -> SUBSET Event] /\ absent \in [Procs -> SUBSET Uids]
      /\ faults \in Nat /\ writes \in Nat /\ edits \in Nat
  BY DEF TypeOK
<1>s. Locals /\ Local(pc[p], mem[p])
  BY DEF Locals
<1>1. CASE ExceptionBegin(p)
  <2>1. PICK u \in issued, occ \in Occs, ev \in Payloads :
          mem' = [mem EXCEPT ![p] = [Blank EXCEPT !.uid = u, !.occ = occ, !.ev = ev]]
    BY <1>1 DEF ExceptionBegin
  <2> DEFINE m == [Blank EXCEPT !.uid = u, !.occ = occ, !.ev = ev]
  <2>2. u \in Uids /\ occ \in Nat /\ ev \in Event
    BY <1>t, ClientsAssumption
  <2>3. m \in Memory
    BY <2>2, BlankType DEF Memory
  <2>4. Local("addLookup", m) /\ "addLookup" \in Label
    BY <2>2, BlankType DEF Memory, Local, NeedsEvent, NeedsUid, NeedsMaster, Label
  <2>5. pc' = [pc EXCEPT ![p] = "addLookup"] /\ mem' = [mem EXCEPT ![p] = m]
    BY <1>1, <2>1 DEF ExceptionBegin
  <2>6. pc' \in [Procs -> Label] /\ mem' \in [Procs -> Memory] /\ Locals'
    BY <2>3, <2>4, <2>5, ProcessStep
  <2>7. UNCHANGED <<server, rows, marks, now, issued, held, absent, faults, edits>>
    BY <1>1 DEF ExceptionBegin, stores, observers
  <2>8. writes' \in Nat
    BY <1>1, ReceiveType DEF ExceptionBegin
  <2> QED
    BY <1>t, <2>6, <2>7, <2>8 DEF TypeOK
<1>2. CASE OccurrenceBegin(p)
  <2>1. PICK u \in issued, occ \in Occs :
          mem' = [mem EXCEPT ![p] = [Blank EXCEPT !.uid = u, !.occ = occ]]
    BY <1>2 DEF OccurrenceBegin
  <2> DEFINE m == [Blank EXCEPT !.uid = u, !.occ = occ]
  <2>2. u \in Uids /\ occ \in Nat
    BY <1>t, ClientsAssumption
  <2>3. m \in Memory
    BY <2>2, BlankType DEF Memory
  <2>4. Local("addLookup", m) /\ "addLookup" \in Label
    BY <2>2, BlankType DEF Memory, Local, NeedsEvent, NeedsUid, NeedsMaster, Label
  <2>5. pc' = [pc EXCEPT ![p] = "addLookup"] /\ mem' = [mem EXCEPT ![p] = m]
    BY <1>2, <2>1 DEF OccurrenceBegin
  <2>6. pc' \in [Procs -> Label] /\ mem' \in [Procs -> Memory] /\ Locals'
    BY <2>3, <2>4, <2>5, ProcessStep
  <2>7. UNCHANGED <<server, rows, marks, now, issued, held, absent, faults, edits>>
    BY <1>2 DEF OccurrenceBegin, stores, observers
  <2>8. writes' \in Nat
    BY <1>2, ReceiveType DEF OccurrenceBegin
  <2> QED
    BY <1>t, <2>6, <2>7, <2>8 DEF TypeOK
<1>3. CASE MasterFound(p)
  <2> DEFINE m == [mem[p] EXCEPT !.master = server[mem[p].uid]]
  <2>1. mem[p].uid \in Uids
    BY <1>3, <1>s DEF MasterFound, Step, Local, NeedsUid
  <2>2. server[mem[p].uid] \in Event
    BY <1>3, <1>t, <2>1 DEF MasterFound, Readable, EventTable
  <2>3. m \in Memory
    BY <1>t, <2>2 DEF Memory
  <2>4. Local("addSave", m) /\ "addSave" \in Label
    BY <1>t, <2>1, <2>2 DEF Memory, Local, NeedsEvent, NeedsUid, NeedsMaster, Label
  <2>5. pc' = [pc EXCEPT ![p] = "addSave"] /\ mem' = [mem EXCEPT ![p] = m]
    BY <1>3, <1>t DEF MasterFound, Step
  <2>6. pc' \in [Procs -> Label] /\ mem' \in [Procs -> Memory] /\ Locals'
    BY <2>3, <2>4, <2>5, ProcessStep
  <2> QED
    BY <1>3, <1>t, <2>6 DEF MasterFound, TypeOK, stores, observers, counters
<1>4. CASE MasterNotFound(p)
  <2>1. pc' \in [Procs -> Label] /\ mem' \in [Procs -> Memory] /\ Locals'
    BY <1>4, FinishStep DEF MasterNotFound
  <2> QED
    BY <1>4, <1>t, <2>1 DEF MasterNotFound, TypeOK, stores, observers, counters
<1>5. CASE MasterSave(p)
  <2> DEFINE master == WithExdate(mem[p].master, mem[p].occ)
             m == [mem[p] EXCEPT !.master = master]
             l == IF mem[p].ev = NoEvent THEN "exdDb" ELSE "excSave"
  <2>1. mem[p].master \in Event /\ mem[p].uid \in Uids
    BY <1>5, <1>s DEF MasterSave, Step, Local, NeedsUid, NeedsMaster
  <2>2. master \in Event /\ ServerForm(master) \in Event
    <3>1. mem[p].occ \in Nat
      BY <1>t DEF Memory
    <3>2. master \in Event
      BY <2>1, <3>1, EventForms
    <3> QED
      BY <3>1, <3>2, EventForms
  <2>3. server' \in EventTable /\ held' \in [Uids -> SUBSET Event]
    <3>1. PutOnServer(mem[p].uid, ServerForm(master))
      BY <1>5 DEF MasterSave
    <3> QED
      BY <2>2, <3>1, PutType
  <2>4. m \in Memory
    <3> HIDE DEF master
    <3> QED
      BY <1>t, <2>2 DEF Memory
  <2>5. Local(l, m) /\ l \in Label
    <3>1. /\ m.ev = mem[p].ev /\ m.uid = mem[p].uid /\ m.master = master
          /\ mem[p].ev \in Event \cup {NoEvent}
      BY <1>t DEF Memory
    <3> HIDE DEF master, m
    <3> QED
      BY <2>1, <2>2, <3>1 DEF Local, NeedsEvent, NeedsUid, NeedsMaster, Label
  <2>6. pc' = [pc EXCEPT ![p] = l] /\ mem' = [mem EXCEPT ![p] = m]
    BY <1>5, <1>t DEF MasterSave, Step
  <2>7. pc' \in [Procs -> Label] /\ mem' \in [Procs -> Memory] /\ Locals'
    <3> HIDE DEF l, m
    <3> QED
      BY <2>4, <2>5, <2>6, ProcessStep
  <2> QED
    BY <1>5, <1>t, <2>3, <2>7 DEF MasterSave, NoFault, TypeOK
<1>6. CASE MasterLost(p)
  <2> DEFINE master == WithExdate(mem[p].master, mem[p].occ)
  <2>1. mem[p].master \in Event /\ mem[p].occ \in Nat
    BY <1>6, <1>s, <1>t DEF MasterLost, Finish, Step, Local, NeedsMaster, Memory
  <2>2. ServerForm(master) \in Event
    <3>1. master \in Event
      BY <2>1, EventForms
    <3> QED
      BY <2>1, <3>1, EventForms
  <2>3. server' \in EventTable /\ held' \in [Uids -> SUBSET Event]
    <3>1. PutOnServer(mem[p].uid, ServerForm(master))
      BY <1>6 DEF MasterLost
    <3> QED
      BY <2>2, <3>1, PutType
  <2>4. pc' \in [Procs -> Label] /\ mem' \in [Procs -> Memory] /\ Locals'
    BY <1>6, FinishStep DEF MasterLost
  <2> QED
    BY <1>6, <1>t, <2>3, <2>4 DEF MasterLost, Fault, TypeOK
<1>7. CASE MasterFails(p)
  BY <1>7, SaveFailsTypes DEF MasterFails
<1>8. CASE ExceptionSave(p)
  <2>1. PICK u \in Uids \ issued :
          /\ PutOnServer(u, Standalone(mem[p].ev))
          /\ issued' = issued \cup {u}
          /\ mem' = [mem EXCEPT ![p].new = u]
    BY <1>8 DEF ExceptionSave
  <2> DEFINE m == [mem[p] EXCEPT !.new = u]
  <2>2. mem[p].ev \in Event /\ mem[p].uid \in Uids /\ mem[p].master \in Event
    BY <1>8, <1>s DEF ExceptionSave, Step, Local, NeedsEvent, NeedsUid, NeedsMaster
  <2>3. server' \in EventTable /\ held' \in [Uids -> SUBSET Event]
    <3>1. Standalone(mem[p].ev) \in Event
      BY <2>2 DEF Standalone, Event
    <3> QED
      BY <2>1, <3>1, PutType
  <2>4. m \in Memory
    BY <1>t DEF Memory
  <2>5. Local("exdDb", m) /\ "exdDb" \in Label
    BY <1>t, <2>2 DEF Memory, Local, NeedsEvent, NeedsUid, NeedsMaster, Label
  <2>6. pc' = [pc EXCEPT ![p] = "exdDb"] /\ mem' = [mem EXCEPT ![p] = m]
    BY <1>8, <1>t, <2>1 DEF ExceptionSave, Step
  <2>7. pc' \in [Procs -> Label] /\ mem' \in [Procs -> Memory] /\ Locals'
    BY <2>4, <2>5, <2>6, ProcessStep
  <2> QED
    BY <1>8, <1>t, <2>1, <2>3, <2>7 DEF ExceptionSave, NoFault, TypeOK
<1>9. CASE ExceptionLost(p)
  <2>1. PICK u \in Uids \ issued :
          PutOnServer(u, Standalone(mem[p].ev)) /\ issued' = issued \cup {u}
    BY <1>9 DEF ExceptionLost
  <2>2. Standalone(mem[p].ev) \in Event
    BY <1>9, <1>s DEF ExceptionLost, Finish, Step, Local, NeedsEvent, Standalone, Event
  <2>3. server' \in EventTable /\ held' \in [Uids -> SUBSET Event]
    BY <2>1, <2>2, PutType
  <2>4. pc' \in [Procs -> Label] /\ mem' \in [Procs -> Memory] /\ Locals'
    BY <1>9, FinishStep DEF ExceptionLost
  <2> QED
    BY <1>9, <1>t, <2>1, <2>3, <2>4 DEF ExceptionLost, Fault, TypeOK
<1>10. CASE ExceptionFails(p)
  BY <1>10, SaveFailsTypes DEF ExceptionFails
<1>11. CASE ExdateDb(p)
  <2>1. pc[p] = "exdDb" /\ mem[p].ev \in Event \cup {NoEvent}
    BY <1>11, <1>t DEF ExdateDb, Finish, Step, Memory
  <2>2. mem[p].uid \in Uids /\ mem[p].master \in Event
        /\ (mem[p].ev # NoEvent => mem[p].new \in Uids)
    BY <2>1, <1>s DEF Local, NeedsUid, NeedsMaster
  <2>3. rows' \in RowTable
    <3>1. mem[p].master.exdate \in SUBSET Nat
      BY <2>2 DEF Event
    <3> QED
      BY <1>11, <1>t, <2>2, <3>1, UpdateExdateType DEF ExdateDb
  <2>4. CASE mem[p].ev = NoEvent
    <3>1. pc' \in [Procs -> Label] /\ mem' \in [Procs -> Memory] /\ Locals'
      BY <1>11, <2>4, FinishStep DEF ExdateDb
    <3> QED
      BY <1>11, <1>t, <2>3, <3>1 DEF ExdateDb, TypeOK, observers, counters
  <2>5. CASE mem[p].ev # NoEvent
    <3>1. Local("excDb", mem[p]) /\ "excDb" \in Label
      BY <2>1, <2>2, <2>5 DEF Local, NeedsEvent, NeedsUid, NeedsMaster, Label
    <3>2. pc' \in [Procs -> Label] /\ mem' \in [Procs -> Memory] /\ Locals'
      BY <1>11, <2>5, <3>1, MemoryKept DEF ExdateDb
    <3> QED
      BY <1>11, <1>t, <2>3, <3>2 DEF ExdateDb, TypeOK, observers, counters
  <2> QED
    BY <2>4, <2>5
<1>12. CASE ExceptionDb(p)
  <2>1. PICK id \in Ids : rows' = UpsertRow(rows, mem[p].new, Standalone(mem[p].ev), id, now)
    BY <1>12 DEF ExceptionDb
  <2>2. Standalone(mem[p].ev) \in Event /\ mem[p].new \in Uids
    BY <1>12, <1>s DEF ExceptionDb, Finish, Step, Local, NeedsEvent, Standalone, Event
  <2>3. rows' \in RowTable
    BY <1>t, <2>1, <2>2, UpsertRowType
  <2>4. pc' \in [Procs -> Label] /\ mem' \in [Procs -> Memory] /\ Locals'
    BY <1>12, FinishStep DEF ExceptionDb
  <2> QED
    BY <1>12, <1>t, <2>3, <2>4 DEF ExceptionDb, TypeOK, observers, counters
<1> QED
  BY <1>1, <1>2, <1>3, <1>4, <1>5, <1>6, <1>7, <1>8, <1>9, <1>10, <1>11, <1>12 DEF OccurrenceNext

-----------------------------------------------------------------------------
(* The environment.                                                        *)
LEMMA EnvironmentTypes ==
  ASSUME TypeInv, Environment
  PROVE  TypeInv'
<1>t. /\ server \in EventTable /\ rows \in RowTable
      /\ marks \in [Workers -> [Months -> Nat]] /\ now \in Nat
      /\ pc \in [Procs -> Label] /\ mem \in [Procs -> Memory]
      /\ issued \subseteq Uids
      /\ held \in [Uids -> SUBSET Event] /\ absent \in [Procs -> SUBSET Uids]
      /\ faults \in Nat /\ writes \in Nat /\ edits \in Nat
  BY DEF TypeInv, TypeOK
<1>1. CASE Tick
  BY <1>1, <1>t DEF Tick, TypeInv, TypeOK, Locals, stores, control, observers, counters
<1>2. CASE ExternalPut
  <2>1. PICK u \in Uids, ev \in ExternalEvents : PutOnServer(u, ev) /\ issued' = issued \cup {u}
    BY <1>2 DEF ExternalPut
  <2>2. ev \in Event
    BY ClientsAssumption
  <2>3. server' \in EventTable /\ held' \in [Uids -> SUBSET Event]
    BY <2>1, <2>2, PutType
  <2> QED
    BY <1>2, <1>t, <2>1, <2>3 DEF ExternalPut, TypeInv, TypeOK, Locals, control
<1>3. CASE ExternalDelete
  <2>1. server' \in EventTable
    BY <1>3, <1>t DEF ExternalDelete, EventTable
  <2> QED
    BY <1>3, <1>t, <2>1 DEF ExternalDelete, TypeInv, TypeOK, Locals, control, observers
<1>4. ASSUME NEW w \in Workers, Crash(w) PROVE TypeInv'
  <2>1. Local("idle", Blank) /\ "idle" \in Label
    BY DEF Local, NeedsEvent, NeedsUid, NeedsMaster, Label
  <2>2. pc' \in [Procs -> Label] /\ mem' \in [Procs -> Memory]
    BY <1>4, <1>t, <2>1, BlankType DEF Crash
  <2>3. Locals'
    BY <1>4, <2>1 DEF Crash, TypeInv, Locals
  <2>4. marks' \in [Workers -> [Months -> Nat]] /\ absent' \in [Procs -> SUBSET Uids]
    BY <1>4, <1>t DEF Crash
  <2> QED
    BY <1>4, <1>t, <2>2, <2>3, <2>4 DEF Crash, Fault, TypeInv, TypeOK
<1> QED
  BY <1>1, <1>2, <1>3, <1>4 DEF Environment

-----------------------------------------------------------------------------
(* The initial state is well typed.                                        *)
LEMMA InitTypes == Init => TypeInv
<1> SUFFICES ASSUME Init PROVE TypeInv
  OBVIOUS
<1>1. rows \in RowTable
  <2>1. PICK ids \in LeastIds(Cached, Ids) :
          rows = [u \in Uids |-> IF u \in Cached THEN [id |-> ids[u], ev |-> Existing[u], synced |-> 0]
                                 ELSE NoRow]
    BY DEF Init
  <2>2. ASSUME NEW u \in Cached PROVE [id |-> ids[u], ev |-> Existing[u], synced |-> 0] \in Row
    BY ClientsAssumption DEF LeastIds, Row, EventTable
  <2> QED
    BY <2>1, <2>2 DEF RowTable
<1>2. server \in EventTable /\ held \in [Uids -> SUBSET Event]
  BY ClientsAssumption DEF Init, EventTable
<1>3. Local("idle", Blank) /\ "idle" \in Label
  BY DEF Local, NeedsEvent, NeedsUid, NeedsMaster, Label
<1>4. Locals
  BY <1>3 DEF Init, Locals
<1> QED
  BY <1>1, <1>2, <1>3, <1>4, BlankType DEF Init, TypeInv, TypeOK

(* Every step keeps the types.                                             *)
LEMMA NextTypes == TypeInv /\ [Next]_vars => TypeInv'
<1> SUFFICES ASSUME TypeInv, [Next]_vars PROVE TypeInv'
  OBVIOUS
<1>1. CASE UNCHANGED vars
  BY <1>1 DEF vars, TypeInv, TypeOK, Locals
<1>2. CASE Environment
  BY <1>2, EnvironmentTypes
<1>3. ASSUME NEW p \in Procs, GetNext(p) PROVE TypeInv'
  BY <1>3, GetTypes
<1>4. ASSUME NEW p \in Procs, WriteNext(p) PROVE TypeInv'
  BY <1>4, CreateTypes, UpdateTypes, DeleteTypes DEF WriteNext
<1>5. ASSUME NEW p \in Procs, OccurrenceNext(p) PROVE TypeInv'
  BY <1>5, OccurrenceTypes
<1> QED
  BY <1>1, <1>2, <1>3, <1>4, <1>5 DEF Next

(* Every state the handlers can reach is well typed, and every handler has *)
(* the local variables it uses.                                            *)
THEOREM TypesAlways == Spec => []TypeInv
  BY InitTypes, NextTypes, PTL DEF Spec

(* The state always has the types TypeOK gives it.                         *)
THEOREM TypeCorrect == Spec => []TypeOK
<1>1. TypeInv => TypeOK
  BY DEF TypeInv
<1> QED
  BY <1>1, TypesAlways, PTL

-----------------------------------------------------------------------------
(* Primary keys.  The bulk statements of a sync find rows by primary key.  *)
(* As long as nobody edits uids in the admin, they reach the rows of the   *)
(* same uid: a key that a row and a request's copy of a row have in common *)
(* belongs to one uid.                                                     *)
KeysApart ==
    /\ \A u, v \in Uids : SameRow(rows[u], rows[v]) => u = v
    /\ \A p \in Procs, u, v \in Uids : SameRow(rows[u], mem[p].seen[v]) => u = v

(* What a step may do to a row's key, and to the keys a request remembers. *)
KeepsKey(new, old) == new # NoRow => SameRow(new, old)
RowKeysStep ==
    \A u \in Uids :
        \/ KeepsKey(rows'[u], rows[u])
        \/ rows'[u].id \in FreshIds /\ \A v \in Uids : SameRow(rows'[v], rows'[u]) => v = u
SeenKeysStep ==
    \A p \in Procs, u \in Uids :
        \/ KeepsKey(mem'[p].seen[u], mem[p].seen[u])
        \/ KeepsKey(mem'[p].seen[u], rows[u]) /\ rows' = rows

(* Such a step keeps the keys apart.                                       *)
LEMMA KeysStep ==
  ASSUME KeysApart, RowKeysStep, SeenKeysStep
  PROVE  KeysApart'
<1>1. ASSUME NEW u \in Uids, NEW v \in Uids, SameRow(rows'[u], rows'[v]) PROVE u = v
  <2>1. SameRow(rows'[v], rows'[u])
    BY <1>1 DEF SameRow
  <2>2. CASE KeepsKey(rows'[u], rows[u]) /\ KeepsKey(rows'[v], rows[v])
    <3>1. SameRow(rows[u], rows[v])
      BY <1>1, <2>2 DEF KeepsKey, SameRow
    <3> QED
      BY <3>1 DEF KeysApart
  <2> QED
    BY <1>1, <2>1, <2>2 DEF RowKeysStep
<1>2. ASSUME NEW p \in Procs, NEW u \in Uids, NEW v \in Uids, SameRow(rows'[u], mem'[p].seen[v]) PROVE u = v
  <2>1. CASE KeepsKey(mem'[p].seen[v], rows[v]) /\ rows' = rows
    <3>1. SameRow(rows[u], rows[v])
      BY <1>2, <2>1 DEF KeepsKey, SameRow
    <3> QED
      BY <3>1 DEF KeysApart
  <2>2. CASE KeepsKey(mem'[p].seen[v], mem[p].seen[v])
    <3>1. SameRow(rows'[u], mem[p].seen[v])
      BY <1>2, <2>2 DEF KeepsKey, SameRow
    <3>2. KeepsKey(rows'[u], rows[u])
      BY <3>1 DEF RowKeysStep, FreshIds, SameRow
    <3>3. SameRow(rows[u], mem[p].seen[v])
      BY <3>1, <3>2 DEF KeepsKey, SameRow
    <3> QED
      BY <3>3 DEF KeysApart
  <2> QED
    BY <2>1, <2>2 DEF SeenKeysStep
<1> QED
  BY <1>1, <1>2 DEF KeysApart

(* A handler that leaves the rows it has read alone, or returns.           *)
LEMMA SeenKept ==
  ASSUME TypeInv, NEW p \in Procs, NEW m, mem' = [mem EXCEPT ![p] = m],
         m.seen = NoRows \/ m.seen = mem[p].seen
  PROVE  SeenKeysStep
<1> SUFFICES ASSUME NEW q \in Procs, NEW u \in Uids PROVE KeepsKey(mem'[q].seen[u], mem[q].seen[u])
  BY DEF SeenKeysStep
<1>1. mem \in [Procs -> Memory]
  BY DEF TypeInv, TypeOK
<1> QED
  BY <1>1 DEF KeepsKey, SameRow, NoRows

(* A handler that changes no local variable.                               *)
LEMMA SeenUnchanged ==
  ASSUME UNCHANGED mem
  PROVE  SeenKeysStep
  BY DEF SeenKeysStep, KeepsKey, SameRow

(* A step that changes no row, or only deletes rows.                       *)
LEMMA RowsKept ==
  ASSUME \A u \in Uids : rows'[u] = rows[u] \/ rows'[u] = NoRow
  PROVE  RowKeysStep
  BY DEF RowKeysStep, KeepsKey, SameRow

(* A step that inserts a row with a fresh key, or updates one.             *)
LEMMA UpsertKeys ==
  ASSUME TypeInv, NEW u \in Uids, NEW ev, NEW id, NEW time, NextId(id),
         rows' = UpsertRow(rows, u, ev, id, time)
  PROVE  RowKeysStep
<1>1. rows \in RowTable
  BY DEF TypeInv, TypeOK
<1>2. \A v \in Uids \ {u} : rows'[v] = rows[v]
  BY <1>1 DEF UpsertRow, RowTable
<1>3. rows'[u] = [id |-> IF rows[u] = NoRow THEN id ELSE rows[u].id, ev |-> ev, synced |-> time]
  BY <1>1 DEF UpsertRow, RowTable
<1>4. CASE rows[u] = NoRow
  <2>1. rows'[u].id \in FreshIds
    BY <1>3, <1>4 DEF NextId
  <2>2. \A v \in Uids : SameRow(rows'[v], rows'[u]) => v = u
    BY <1>2, <2>1 DEF FreshIds, SameRow
  <2> QED
    BY <1>2, <2>1, <2>2 DEF RowKeysStep, KeepsKey, SameRow
<1>5. CASE rows[u] # NoRow
  BY <1>2, <1>3, <1>5 DEF RowKeysStep, KeepsKey, SameRow
<1> QED
  BY <1>4, <1>5

(* The statements of a sync, on the rows of the same uid.                  *)
OwnUpdate(table, seen, found) ==
    [u \in Uids |-> IF found[u] # NoEvent /\ SameRow(table[u], seen[u]) THEN seen[u] ELSE table[u]]
OwnCleanup(table, seen, found) ==
    [u \in Uids |-> IF found[u] = NoEvent /\ SameRow(table[u], seen[u]) THEN NoRow ELSE table[u]]

(* When the keys are apart, that is what the statements by key do.         *)
LEMMA OwnRows ==
  ASSUME NEW table, NEW seen, NEW found,
         \A u, v \in Uids : SameRow(table[u], seen[v]) => u = v
  PROVE  /\ BulkUpdate(table, seen, found) = OwnUpdate(table, seen, found)
         /\ CleanupZombies(table, seen, found) = OwnCleanup(table, seen, found)
<1>1. ASSUME NEW u \in Uids
      PROVE  UpdatedRow(table[u], seen, found) =
               IF found[u] # NoEvent /\ SameRow(table[u], seen[u]) THEN seen[u] ELSE table[u]
  <2> DEFINE merged == {v \in Uids : found[v] # NoEvent /\ SameRow(table[u], seen[v])}
  <2>1. CASE found[u] # NoEvent /\ SameRow(table[u], seen[u])
    <3>1. merged = {u}
      BY <2>1
    <3>2. (CHOOSE v \in merged : TRUE) = u
      BY <3>1
    <3> QED
      BY <2>1, <3>1, <3>2 DEF UpdatedRow
  <2>2. CASE ~ (found[u] # NoEvent /\ SameRow(table[u], seen[u]))
    <3>1. merged = {}
      BY <2>2
    <3> QED
      BY <2>2, <3>1 DEF UpdatedRow
  <2> QED
    BY <2>1, <2>2
<1>2. BulkUpdate(table, seen, found) = OwnUpdate(table, seen, found)
  BY <1>1 DEF BulkUpdate, OwnUpdate
<1>3. CleanupZombies(table, seen, found) = OwnCleanup(table, seen, found)
  <2>1. ASSUME NEW u \in Uids
        PROVE  (\E v \in Uids : found[v] = NoEvent /\ SameRow(table[u], seen[v]))
                 <=> found[u] = NoEvent /\ SameRow(table[u], seen[u])
    OBVIOUS
  <2> QED
    BY <2>1 DEF CleanupZombies, OwnCleanup
<1> QED
  BY <1>2, <1>3

(* The rows after a sync's INSERT keep their keys or have one of ids.      *)
LEMMA CreatedKeys ==
  ASSUME TypeInv, KeysApart, NEW p \in Procs,
         NEW ids \in NextIds(NewRows(rows, mem[p].seen, mem[p].found)), NEW u \in Uids,
         NEW row, row = BulkCreate(rows, mem[p].seen, mem[p].found, ids, mem[p].stamp)[u],
         row # NoRow
  PROVE  \/ SameRow(row, rows[u])
         \/ u \in NewRows(rows, mem[p].seen, mem[p].found) /\ row.id = ids[u]
<1>1. CASE mem[p].found[u] = NoEvent \/ mem[p].seen[u] # NoRow
  BY <1>1 DEF BulkCreate, SameRow
<1>2. CASE mem[p].found[u] # NoEvent /\ mem[p].seen[u] = NoRow
  <2>1. row.id = IF rows[u] = NoRow THEN ids[u] ELSE rows[u].id
    BY <1>2 DEF BulkCreate
  <2> QED
    BY <1>2, <2>1 DEF NewRows, SameRow
<1> QED
  BY <1>1, <1>2

(* A sync's transaction reaches, by key, the rows of the same uid.         *)
LEMMA Committed ==
  ASSUME TypeInv, KeysApart, NEW p \in Procs, NEW seen, NEW found, NEW created,
         seen = mem[p].seen, found = mem[p].found,
         NEW ids \in NextIds(NewRows(rows, seen, found)),
         created = BulkCreate(rows, seen, found, ids, mem[p].stamp),
         rows' = CleanupZombies(BulkUpdate(created, seen, found), seen, found)
  PROVE  /\ rows' = OwnCleanup(OwnUpdate(created, seen, found), seen, found)
         /\ RowKeysStep
<1> DEFINE new == NewRows(rows, seen, found)
           updated == OwnUpdate(created, seen, found)
<1>i. /\ \A u \in new : ids[u] \in FreshIds
      /\ \A u, v \in new : ids[u] = ids[v] => u = v
      /\ new \subseteq Uids
  BY DEF NextIds, LeastIds, NewRows
<1>1. ASSUME NEW u \in Uids, created[u] # NoRow
      PROVE  SameRow(created[u], rows[u]) \/ (u \in new /\ created[u].id = ids[u])
  BY <1>1, CreatedKeys
<1>2. ASSUME NEW u \in Uids, NEW v \in Uids, SameRow(created[u], seen[v]) PROVE u = v
  <2>1. CASE SameRow(created[u], rows[u])
    <3>1. SameRow(rows[u], mem[p].seen[v])
      BY <1>2, <2>1 DEF SameRow
    <3> QED
      BY <3>1 DEF KeysApart
  <2>2. CASE u \in new /\ created[u].id = ids[u]
    BY <1>2, <1>i, <2>2 DEF SameRow, FreshIds
  <2> QED
    BY <1>1, <1>2, <2>1, <2>2 DEF SameRow
<1>3. BulkUpdate(created, seen, found) = updated
  BY <1>2, OwnRows
<1>4. ASSUME NEW u \in Uids PROVE KeepsKey(updated[u], created[u])
  BY DEF OwnUpdate, KeepsKey, SameRow
<1>5. ASSUME NEW u \in Uids, NEW v \in Uids, SameRow(updated[u], seen[v]) PROVE u = v
  <2>1. SameRow(created[u], seen[v])
    BY <1>4, <1>5 DEF KeepsKey, SameRow
  <2> QED
    BY <1>2, <2>1
<1>6. rows' = OwnCleanup(updated, seen, found)
  BY <1>3, <1>5, OwnRows
<1>7. ASSUME NEW u \in Uids PROVE KeepsKey(rows'[u], created[u])
  <2>1. rows'[u] = NoRow \/ rows'[u] = updated[u]
    BY <1>6 DEF OwnCleanup
  <2> QED
    BY <1>4, <2>1 DEF KeepsKey, SameRow
<1>8. ASSUME NEW u \in Uids, rows'[u] # NoRow, u \in new, created[u].id = ids[u]
      PROVE  rows'[u].id \in FreshIds /\ \A v \in Uids : SameRow(rows'[v], rows'[u]) => v = u
  <2>1. rows'[u].id = ids[u]
    BY <1>7, <1>8 DEF KeepsKey, SameRow
  <2>2. ASSUME NEW v \in Uids, SameRow(rows'[v], rows'[u]) PROVE v = u
    <3>1. created[v] # NoRow /\ created[v].id = ids[u]
      BY <1>7, <2>1, <2>2 DEF KeepsKey, SameRow
    <3>2. v \in new /\ created[v].id = ids[v]
      BY <1>1, <1>8, <1>i, <3>1 DEF SameRow, FreshIds
    <3> QED
      BY <1>8, <1>i, <3>1, <3>2
  <2> QED
    BY <1>8, <1>i, <2>1, <2>2
<1>9. RowKeysStep
  <2> SUFFICES ASSUME NEW u \in Uids
               PROVE  \/ KeepsKey(rows'[u], rows[u])
                      \/ /\ rows'[u].id \in FreshIds
                         /\ \A v \in Uids : SameRow(rows'[v], rows'[u]) => v = u
    BY DEF RowKeysStep
  <2>1. CASE rows'[u] = NoRow
    BY <2>1 DEF KeepsKey
  <2>2. CASE rows'[u] # NoRow
    <3>1. SameRow(rows'[u], created[u])
      BY <1>7, <2>2 DEF KeepsKey
    <3>2. CASE SameRow(created[u], rows[u])
      BY <3>1, <3>2 DEF KeepsKey, SameRow
    <3> QED
      BY <1>1, <1>8, <2>2, <3>1, <3>2 DEF SameRow
  <2> QED
    BY <2>1, <2>2
<1> QED
  BY <1>6, <1>9

(* The same, of the handler's step.                                        *)
LEMMA CommitByUid ==
  ASSUME TypeInv, KeysApart, NEW p \in Procs, GetCommit(p), NEW seen, NEW found,
         seen = mem[p].seen, found = mem[p].found
  PROVE  \E ids \in [NewRows(rows, seen, found) -> Ids] :
           rows' = OwnCleanup(OwnUpdate(BulkCreate(rows, seen, found, ids, mem[p].stamp), seen, found),
                              seen, found)
<1>1. PICK ids \in NextIds(NewRows(rows, seen, found)) :
        rows' = CleanupZombies(BulkUpdate(BulkCreate(rows, seen, found, ids, mem[p].stamp), seen, found),
                               seen, found)
  BY DEF GetCommit
<1>2. ids \in [NewRows(rows, seen, found) -> Ids]
  BY DEF NextIds, LeastIds, FreshIds
<1>3. rows' = OwnCleanup(OwnUpdate(BulkCreate(rows, seen, found, ids, mem[p].stamp), seen, found),
                         seen, found)
  BY <1>1, Committed
<1> QED
  BY <1>2, <1>3

(* Every step of get_events keeps the keys apart.                          *)
LEMMA GetKeys ==
  ASSUME TypeInv, KeysApart, NEW p \in Procs, GetNext(p)
  PROVE  KeysApart'
<1>t. rows \in RowTable /\ mem \in [Procs -> Memory]
  BY DEF TypeInv, TypeOK
<1>1. CASE GetBegin(p)
  <2>1. PICK r \in Ranges, f \in Forces :
          mem' = [mem EXCEPT ![p] = [Blank EXCEPT !.range = r, !.force = f,
                                                  !.seen = CachedEvents(rows, r)]]
    BY <1>1 DEF GetBegin
  <2>2. mem'[p].seen = CachedEvents(rows, r)
    BY <1>t, <2>1 DEF Blank
  <2>3. ASSUME NEW u \in Uids PROVE KeepsKey(mem'[p].seen[u], rows[u])
    BY <2>2 DEF CachedEvents, KeepsKey, SameRow
  <2>4. UNCHANGED rows /\ \A q \in Procs \ {p} : mem'[q] = mem[q]
    BY <1>1, <1>t, <2>1 DEF GetBegin, stores
  <2>5. SeenKeysStep
    BY <2>3, <2>4 DEF SeenKeysStep, KeepsKey, SameRow
  <2> QED
    BY <2>4, <2>5, RowsKept, KeysStep
<1>2. CASE GetDecide(p)
  <2>1. PICK sync \in {TRUE, FALSE}, source \in {"none", "cache"} :
          mem' = [mem EXCEPT ![p] = [mem[p] EXCEPT !.sync = sync, !.source = source]]
    BY <1>2 DEF GetDecide, ShouldSync
  <2>2. SeenKeysStep
    BY <1>t, <2>1, SeenKept DEF Memory
  <2> QED
    BY <1>2, <2>2, RowsKept, KeysStep DEF GetDecide, stores
<1>3. CASE GetConnectFails(p) \/ GetCommitFails(p) \/ GetMark(p)
  <2>1. PICK source \in {"server", "cache"} : mem' = [mem EXCEPT ![p] = [mem[p] EXCEPT !.source = source]]
    BY <1>3, <1>t DEF GetConnectFails, GetCommitFails, GetMark, ServeCached
  <2>2. SeenKeysStep
    BY <1>t, <2>1, SeenKept DEF Memory
  <2> QED
    BY <1>3, <2>2, RowsKept, KeysStep DEF GetConnectFails, GetCommitFails, GetMark, ServeCached, stores
<1>4. CASE GetSearch(p) \/ GetSearchFails(p)
  <2>1. PICK found : Searched(p, found)
    BY <1>4 DEF GetSearch, GetSearchFails
  <2>2. mem' = [mem EXCEPT ![p] = [mem[p] EXCEPT !.found = found, !.stamp = now,
                                                 !.seen = MergeFound(mem[p].seen, found, now)]]
    BY <2>1 DEF Searched
  <2>3. mem[p].seen \in RowTable /\ mem'[p].seen = MergeFound(mem[p].seen, found, now)
    BY <1>t, <2>2 DEF Memory
  <2>4. ASSUME NEW u \in Uids PROVE KeepsKey(mem'[p].seen[u], mem[p].seen[u])
    <3>1. CASE mem[p].seen[u] # NoRow /\ found[u] # NoEvent
      <4>1. mem[p].seen[u] \in Row
        BY <2>3, <3>1 DEF RowTable
      <4>2. mem'[p].seen[u] = [mem[p].seen[u] EXCEPT !.ev = found[u], !.synced = now]
        BY <2>3, <3>1 DEF MergeFound
      <4> QED
        BY <3>1, <4>1, <4>2 DEF KeepsKey, SameRow, Row
    <3>2. CASE ~ (mem[p].seen[u] # NoRow /\ found[u] # NoEvent)
      <4>1. mem'[p].seen[u] = mem[p].seen[u]
        BY <2>3, <3>2 DEF MergeFound
      <4> QED
        BY <4>1 DEF KeepsKey, SameRow
    <3> QED
      BY <3>1, <3>2
  <2>5. UNCHANGED rows /\ \A q \in Procs \ {p} : mem'[q] = mem[q]
    BY <1>t, <2>1, <2>2 DEF Searched, stores
  <2>6. SeenKeysStep
    BY <2>4, <2>5 DEF SeenKeysStep, KeepsKey, SameRow
  <2> QED
    BY <2>5, <2>6, RowsKept, KeysStep
<1>5. CASE GetCommit(p)
  <2>1. PICK ids \in NextIds(NewRows(rows, mem[p].seen, mem[p].found)) :
          rows' = CleanupZombies(BulkUpdate(BulkCreate(rows, mem[p].seen, mem[p].found, ids, mem[p].stamp),
                                            mem[p].seen, mem[p].found), mem[p].seen, mem[p].found)
    BY <1>5 DEF GetCommit
  <2>2. RowKeysStep
    BY <2>1, Committed
  <2> QED
    BY <1>5, <2>2, SeenUnchanged, KeysStep DEF GetCommit
<1>6. CASE GetReply(p)
  BY <1>6, SeenKept, RowsKept, KeysStep DEF GetReply, Finish, Blank, stores
<1> QED
  BY <1>1, <1>2, <1>3, <1>4, <1>5, <1>6 DEF GetNext

(* Every step of the handlers that write keeps the keys apart.             *)
LEMMA WriteKeys ==
  ASSUME TypeInv, KeysApart, NEW p \in Procs, WriteNext(p) \/ OccurrenceNext(p)
  PROVE  KeysApart'
<1>t. rows \in RowTable /\ mem \in [Procs -> Memory]
  BY DEF TypeInv, TypeOK
<1>l. Local(pc[p], mem[p])
  BY DEF TypeInv, Locals
<1>1. ASSUME CreateBegin(p) \/ UpdateBegin(p) \/ DeleteBegin(p) \/ ExceptionBegin(p) \/ OccurrenceBegin(p)
      PROVE  KeysApart'
  <2>1. UNCHANGED rows
    BY <1>1 DEF CreateBegin, UpdateBegin, DeleteBegin, ExceptionBegin, OccurrenceBegin, stores
  <2>2. CASE CreateBegin(p)
    <3>1. PICK ev \in Payloads : mem' = [mem EXCEPT ![p] = [Blank EXCEPT !.ev = ev]]
      BY <2>2 DEF CreateBegin
    <3>2. SeenKeysStep
      BY <3>1, SeenKept DEF Blank
    <3> QED
      BY <2>1, <3>2, RowsKept, KeysStep
  <2>3. CASE UpdateBegin(p)
    <3>1. PICK u \in issued, ev \in Payloads : mem' = [mem EXCEPT ![p] = [Blank EXCEPT !.uid = u, !.ev = ev]]
      BY <2>3 DEF UpdateBegin
    <3>2. SeenKeysStep
      BY <3>1, SeenKept DEF Blank
    <3> QED
      BY <2>1, <3>2, RowsKept, KeysStep
  <2>4. CASE DeleteBegin(p)
    <3>1. PICK u \in issued : mem' = [mem EXCEPT ![p] = [Blank EXCEPT !.uid = u]]
      BY <2>4 DEF DeleteBegin
    <3>2. SeenKeysStep
      BY <3>1, SeenKept DEF Blank
    <3> QED
      BY <2>1, <3>2, RowsKept, KeysStep
  <2>5. CASE ExceptionBegin(p)
    <3>1. PICK u \in issued, occ \in Occs, ev \in Payloads :
            mem' = [mem EXCEPT ![p] = [Blank EXCEPT !.uid = u, !.occ = occ, !.ev = ev]]
      BY <2>5 DEF ExceptionBegin
    <3>2. SeenKeysStep
      BY <3>1, SeenKept DEF Blank
    <3> QED
      BY <2>1, <3>2, RowsKept, KeysStep
  <2>6. CASE OccurrenceBegin(p)
    <3>1. PICK u \in issued, occ \in Occs : mem' = [mem EXCEPT ![p] = [Blank EXCEPT !.uid = u, !.occ = occ]]
      BY <2>6 DEF OccurrenceBegin
    <3>2. SeenKeysStep
      BY <3>1, SeenKept DEF Blank
    <3> QED
      BY <2>1, <3>2, RowsKept, KeysStep
  <2> QED
    BY <1>1, <2>2, <2>3, <2>4, <2>5, <2>6
<1>2. ASSUME \/ UpdateFound(p) \/ UpdateSave(p) \/ DeleteSave(p)
      PROVE  KeysApart'
  BY <1>2, SeenUnchanged, RowsKept, KeysStep DEF UpdateFound, UpdateSave, DeleteSave, stores
<1>3. ASSUME NEW l, Finish(p, l), UNCHANGED rows PROVE KeysApart'
  BY <1>3, SeenKept, RowsKept, KeysStep DEF Finish, Blank
<1>4. ASSUME \/ CreateLost(p) \/ CreateFails(p) \/ UpdateNotFound(p) \/ UpdateLost(p) \/ UpdateFails(p)
             \/ DeleteLost(p) \/ DeleteFails(p) \/ MasterNotFound(p) \/ MasterLost(p) \/ MasterFails(p)
             \/ ExceptionLost(p) \/ ExceptionFails(p)
      PROVE  KeysApart'
  BY <1>3, <1>4
  DEF CreateLost, CreateFails, UpdateNotFound, UpdateLost, UpdateFails, DeleteLost, DeleteFails,
      MasterNotFound, MasterLost, MasterFails, ExceptionLost, ExceptionFails, SaveFails, stores
<1>5. ASSUME CreateSave(p) \/ MasterFound(p) \/ MasterSave(p) \/ ExceptionSave(p) PROVE KeysApart'
  <2>1. SeenKeysStep
    <3>1. CASE CreateSave(p) \/ ExceptionSave(p)
      <4>1. PICK u \in Uids : mem' = [mem EXCEPT ![p] = [mem[p] EXCEPT !.new = u]]
        BY <3>1 DEF CreateSave, ExceptionSave
      <4> QED
        BY <1>t, <4>1, SeenKept DEF Memory
    <3>2. CASE MasterFound(p) \/ MasterSave(p)
      <4>1. PICK ev : mem' = [mem EXCEPT ![p] = [mem[p] EXCEPT !.master = ev]]
        BY <3>2 DEF MasterFound, MasterSave
      <4> QED
        BY <1>t, <4>1, SeenKept DEF Memory
    <3> QED
      BY <1>5, <3>1, <3>2
  <2> QED
    BY <1>5, <2>1, RowsKept, KeysStep DEF CreateSave, MasterFound, MasterSave, ExceptionSave, stores
<1>6. ASSUME CreateDb(p) \/ ExceptionDb(p) PROVE KeysApart'
  <2>1. PICK ev, id : NextId(id) /\ rows' = UpsertRow(rows, mem[p].new, ev, id, now)
    BY <1>6 DEF CreateDb, ExceptionDb
  <2>2. mem[p].new \in Uids
    BY <1>6, <1>l DEF CreateDb, ExceptionDb, Finish, Step, Local
  <2>3. RowKeysStep
    BY <2>1, <2>2, UpsertKeys
  <2> QED
    BY <1>6, <2>3, SeenKept, KeysStep DEF CreateDb, ExceptionDb, Finish, Blank
<1>7. ASSUME UpdateDb(p) \/ ExdateDb(p) PROVE KeysApart'
  <2>1. \A u \in Uids : KeepsKey(rows'[u], rows[u])
    BY <1>7, <1>t DEF UpdateDb, ExdateDb, UpdateRow, UpdateExdate, RowTable, KeepsKey, SameRow
  <2>2. RowKeysStep
    BY <2>1 DEF RowKeysStep
  <2>3. SeenKeysStep
    BY <1>7, SeenKept, SeenUnchanged DEF UpdateDb, ExdateDb, Finish, Blank
  <2> QED
    BY <2>2, <2>3, KeysStep
<1>8. ASSUME DeleteDb(p) PROVE KeysApart'
  <2>1. RowKeysStep
    BY <1>8, <1>t, RowsKept DEF DeleteDb, RowTable
  <2> QED
    BY <1>8, <2>1, SeenKept, KeysStep DEF DeleteDb, Finish, Blank
<1> QED
  BY <1>1, <1>2, <1>4, <1>5, <1>6, <1>7, <1>8 DEF WriteNext, OccurrenceNext

(* Every step keeps the keys apart.                                        *)
LEMMA NextKeys == TypeInv /\ KeysApart /\ [Next]_vars => KeysApart'
<1> SUFFICES ASSUME TypeInv, KeysApart, [Next]_vars PROVE KeysApart'
  OBVIOUS
<1>1. CASE UNCHANGED <<rows, mem>>
  BY <1>1, SeenUnchanged, RowsKept, KeysStep
<1>2. ASSUME NEW w \in Workers, Crash(w) PROVE KeysApart'
  <2>1. SeenKeysStep
    BY <1>2 DEF Crash, SeenKeysStep, KeepsKey, SameRow, Blank, NoRows
  <2> QED
    BY <1>2, <2>1, RowsKept, KeysStep DEF Crash
<1>3. ASSUME NEW p \in Procs, GetNext(p) \/ WriteNext(p) \/ OccurrenceNext(p) PROVE KeysApart'
  BY <1>3, GetKeys, WriteKeys
<1>4. Tick \/ ExternalPut \/ ExternalDelete => UNCHANGED <<rows, mem>>
  BY DEF Tick, ExternalPut, ExternalDelete, stores, control
<1> QED
  BY <1>1, <1>2, <1>3, <1>4 DEF Next, Environment, vars

(* At the start the database has given every row a key of its own.         *)
LEMMA InitKeys == Init => KeysApart
<1> SUFFICES ASSUME Init PROVE KeysApart
  OBVIOUS
<1>1. PICK ids \in LeastIds(Cached, Ids) :
        rows = [u \in Uids |-> IF u \in Cached THEN [id |-> ids[u], ev |-> Existing[u], synced |-> 0]
                               ELSE NoRow]
  BY DEF Init
<1>2. \A u, v \in Uids : SameRow(rows[u], rows[v]) => u = v
  BY <1>1 DEF LeastIds, SameRow
<1>3. \A p \in Procs, v \in Uids : mem[p].seen[v] = NoRow
  BY DEF Init, Blank, NoRows
<1> QED
  BY <1>2, <1>3 DEF KeysApart, SameRow

(* Every primary key belongs to one uid, in the table and in the rows the  *)
(* requests have read: the bulk statements of a sync, which go by key,     *)
(* never reach the row of another event.                                   *)
THEOREM KeysAlways == Spec => []KeysApart
  BY InitKeys, NextKeys, TypesAlways, PTL DEF Spec
=============================================================================
