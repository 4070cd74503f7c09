------------------------- MODULE CalendarProvenance -------------------------
(***************************************************************************)
(* The cache never shows content the server never had, for every number of *)
(* threads, every interleaving, outside edits, failures and crashes,       *)
(* provided the recurrence rules clients send can be parsed.               *)
(*                                                                         *)
(* RowsReflectServer is not inductive: a handler writes a row from its own *)
(* memory, and a sync writes back rows it read long before.  So the        *)
(* invariant also says where the contents of every memory come from.       *)
(***************************************************************************)
EXTENDS CalendarProofs

(* Every row of a table reflects the history of its uid.                   *)
AllReflect(table, history) ==
    \A u \in Uids : table[u] # NoRow => Reflects(table[u].ev, history[u])

(* What the search found is part of the history.                           *)
AllFound(found, history) ==
    \A u \in Uids : found[u] # NoEvent => found[u] \in history[u]

(* What a handler at label l is about to write has been on the server.     *)
Sourced(l, m, history) ==
    /\ AllReflect(m.seen, history) /\ AllFound(m.found, history)
    /\ l = "createDb" => m.ev \in history[m.new]
    /\ l = "updateDb" => m.ev \in history[m.uid]
    /\ l \in NeedsMaster => m.master \in history[m.uid]
    /\ l = "excDb" \/ (l = "exdDb" /\ m.ev # NoEvent) => Standalone(m.ev) \in history[m.new]

AllSourced == \A p \in Procs : Sourced(pc[p], mem[p], held)

Contents == AllFound(server, held) /\ AllReflect(rows, held) /\ AllSourced

Provenance == TypeInv /\ KeysApart /\ Contents

(* The history only grows.                                                 *)
Grows(old, new) == \A u \in Uids : old[u] \subseteq new[u]

-----------------------------------------------------------------------------
(* Reflecting a set of contents.                                           *)

(* A content reflects a history it is part of.                             *)
LEMMA ReflectsSelf ==
  ASSUME NEW contents, NEW ev \in contents
  PROVE  Reflects(ev, contents)
  BY DEF Reflects, SameBody

(* A content goes on reflecting a history that grows.                      *)
LEMMA ReflectsGrows ==
  ASSUME NEW ev, NEW old, NEW new, old \subseteq new, Reflects(ev, old)
  PROVE  Reflects(ev, new)
  BY DEF Reflects

(* Taking over an exdate of the history keeps a content reflecting it.     *)
LEMMA ReflectsExdate ==
  ASSUME NEW contents, NEW ev \in Event, NEW c \in contents, c \in Event, Reflects(ev, contents)
  PROVE  Reflects([ev EXCEPT !.exdate = c.exdate], contents)
<1> DEFINE new == [ev EXCEPT !.exdate = c.exdate]
<1>1. PICK body \in contents : SameBody(ev, body)
  BY DEF Reflects
<1>2. SameBody(new, body)
  BY <1>1 DEF SameBody, Event
<1>3. new.exdate = c.exdate
  BY DEF Event
<1> QED
  BY <1>2, <1>3 DEF Reflects

(* Rows go on reflecting a history that grows.                             *)
LEMMA TableGrows ==
  ASSUME NEW table, NEW old, NEW new, Grows(old, new), AllReflect(table, old)
  PROVE  AllReflect(table, new)
  BY ReflectsGrows DEF AllReflect, Grows

(* What was found stays part of a history that grows.                      *)
LEMMA FoundGrows ==
  ASSUME NEW found, NEW old, NEW new, Grows(old, new), AllFound(found, old)
  PROVE  AllFound(found, new)
  BY DEF AllFound, Grows

(* A memory stays sourced while the history grows.                         *)
LEMMA SourcedGrows ==
  ASSUME NEW l, NEW m, NEW old, NEW new, Grows(old, new), Local(l, m), Sourced(l, m, old)
  PROVE  Sourced(l, m, new)
<1>1. AllReflect(m.seen, new) /\ AllFound(m.found, new)
  BY TableGrows, FoundGrows DEF Sourced
<1>2. /\ l = "createDb" => m.ev \in new[m.new]
      /\ l = "updateDb" => m.ev \in new[m.uid]
      /\ l \in NeedsMaster => m.master \in new[m.uid]
      /\ l = "excDb" \/ (l = "exdDb" /\ m.ev # NoEvent) => Standalone(m.ev) \in new[m.new]
  BY DEF Sourced, Local, Grows, NeedsUid, NeedsMaster
<1> QED
  BY <1>1, <1>2 DEF Sourced

(* A blank memory has nothing to source.                                   *)
LEMMA BlankSourced ==
  ASSUME NEW history
  PROVE  Sourced("idle", Blank, history)
  BY DEF Sourced, Blank, NoRows, NoEvents, AllReflect, AllFound, NeedsMaster

-----------------------------------------------------------------------------
(* The operations on tables keep their rows reflecting the history.        *)

(* The rows get_cached_events returns are rows of the table.               *)
LEMMA CachedEventsReflect ==
  ASSUME NEW table \in RowTable, NEW r, NEW history, AllReflect(table, history)
  PROVE  AllReflect(CachedEvents(table, r), history)
  BY DEF CachedEvents, AllReflect

(* A search finds only what is on the server.                              *)
LEMMA SearchHitsFound ==
  ASSUME NEW table \in EventTable, NEW r, NEW history, AllFound(table, history)
  PROVE  AllFound(SearchHits(table, r), history)
  BY DEF SearchHits, AllFound

(* Merging what was found into the rows in memory keeps them sourced.      *)
LEMMA MergeFoundReflects ==
  ASSUME NEW seen \in RowTable, NEW found \in EventTable, NEW time, NEW history,
         AllReflect(seen, history), AllFound(found, history)
  PROVE  AllReflect(MergeFound(seen, found, time), history)
<1> SUFFICES ASSUME NEW u \in Uids, MergeFound(seen, found, time)[u] # NoRow
             PROVE  Reflects(MergeFound(seen, found, time)[u].ev, history[u])
  BY DEF AllReflect
<1>1. CASE seen[u] # NoRow /\ found[u] # NoEvent
  <2>1. MergeFound(seen, found, time)[u].ev = found[u]
    BY <1>1 DEF MergeFound, RowTable, Row
  <2> QED
    BY <1>1, <2>1, ReflectsSelf DEF AllFound
<1>2. CASE ~ (seen[u] # NoRow /\ found[u] # NoEvent)
  BY <1>2 DEF MergeFound, AllReflect
<1> QED
  BY <1>1, <1>2

(* The rows bulk_create adds or overwrites hold what was found.            *)
LEMMA BulkCreateReflects ==
  ASSUME NEW table \in RowTable, NEW seen, NEW found \in EventTable, NEW ids, NEW time, NEW history,
         AllReflect(table, history), AllFound(found, history)
  PROVE  AllReflect(BulkCreate(table, seen, found, ids, time), history)
<1> SUFFICES ASSUME NEW u \in Uids, BulkCreate(table, seen, found, ids, time)[u] # NoRow
             PROVE  Reflects(BulkCreate(table, seen, found, ids, time)[u].ev, history[u])
  BY DEF AllReflect
<1>1. CASE found[u] = NoEvent \/ seen[u] # NoRow
  BY <1>1 DEF BulkCreate, AllReflect
<1>2. CASE ~ (found[u] = NoEvent \/ seen[u] # NoRow)
  <2>1. BulkCreate(table, seen, found, ids, time)[u].ev = found[u]
    BY <1>2 DEF BulkCreate
  <2> QED
    BY <1>2, <2>1, ReflectsSelf DEF AllFound
<1> QED
  BY <1>1, <1>2

(* The rows bulk_update writes back are the ones in memory.                *)
LEMMA OwnUpdateReflects ==
  ASSUME NEW table, NEW seen, NEW found, NEW history,
         AllReflect(table, history), AllReflect(seen, history)
  PROVE  AllReflect(OwnUpdate(table, seen, found), history)
  BY DEF OwnUpdate, AllReflect, SameRow

(* Deleting rows brings in no content.                                     *)
LEMMA OwnCleanupReflects ==
  ASSUME NEW table, NEW seen, NEW found, NEW history, AllReflect(table, history)
  PROVE  AllReflect(OwnCleanup(table, seen, found), history)
  BY DEF OwnCleanup, AllReflect

(* A row written from a content the server has held reflects it.           *)
LEMMA UpsertRowReflects ==
  ASSUME NEW table \in RowTable, NEW u \in Uids, NEW ev, NEW id, NEW time, NEW history,
         AllReflect(table, history), ev \in history[u]
  PROVE  AllReflect(UpsertRow(table, u, ev, id, time), history)
<1> SUFFICES ASSUME NEW v \in Uids, UpsertRow(table, u, ev, id, time)[v] # NoRow
             PROVE  Reflects(UpsertRow(table, u, ev, id, time)[v].ev, history[v])
  BY DEF AllReflect
<1>1. CASE v = u
  BY <1>1, ReflectsSelf DEF UpsertRow, RowTable
<1>2. CASE v # u
  BY <1>2 DEF UpsertRow, RowTable, AllReflect
<1> QED
  BY <1>1, <1>2

(* The same for update_event, which writes only a row that is there.       *)
LEMMA UpdateRowReflects ==
  ASSUME NEW table \in RowTable, NEW u \in Uids, NEW ev, NEW time, NEW history,
         AllReflect(table, history), ev \in history[u]
  PROVE  AllReflect(UpdateRow(table, u, ev, time), history)
<1> SUFFICES ASSUME NEW v \in Uids, UpdateRow(table, u, ev, time)[v] # NoRow
             PROVE  Reflects(UpdateRow(table, u, ev, time)[v].ev, history[v])
  BY DEF AllReflect
<1>1. CASE v = u /\ table[u] # NoRow
  BY <1>1, ReflectsSelf DEF UpdateRow, RowTable
<1>2. CASE v # u \/ table[u] = NoRow
  BY <1>2 DEF UpdateRow, RowTable, AllReflect
<1> QED
  BY <1>1, <1>2

(* A new exdate comes from the master that was saved.                      *)
LEMMA UpdateExdateReflects ==
  ASSUME NEW table \in RowTable, NEW u \in Uids, NEW c \in Event, NEW time, NEW history,
         AllReflect(table, history), c \in history[u]
  PROVE  AllReflect(UpdateExdate(table, u, c.exdate, time), history)
<1> SUFFICES ASSUME NEW v \in Uids, UpdateExdate(table, u, c.exdate, time)[v] # NoRow
             PROVE  Reflects(UpdateExdate(table, u, c.exdate, time)[v].ev, history[v])
  BY DEF AllReflect
<1>1. CASE v = u /\ table[u] # NoRow
  <2>1. table[u].ev \in Event /\ Reflects(table[u].ev, history[u])
    BY <1>1 DEF AllReflect, RowTable, Row
  <2>2. Reflects([table[u].ev EXCEPT !.exdate = c.exdate], history[u])
    BY <2>1, ReflectsExdate
  <2>3. UpdateExdate(table, u, c.exdate, time)[u].ev = [table[u].ev EXCEPT !.exdate = c.exdate]
    BY <1>1 DEF UpdateExdate, RowTable
  <2> QED
    BY <1>1, <2>2, <2>3
<1>2. CASE v # u \/ table[u] = NoRow
  BY <1>2 DEF UpdateExdate, RowTable, AllReflect
<1> QED
  BY <1>1, <1>2

-----------------------------------------------------------------------------
(* Steps.                                                                  *)

(* A step of one process with a sourced memory keeps every memory sourced. *)
LEMMA SourcedStep ==
  ASSUME Provenance, NEW p \in Procs, NEW l, NEW m, Grows(held, held'), Sourced(l, m, held'),
         pc' = [pc EXCEPT ![p] = l], mem' = [mem EXCEPT ![p] = m]
  PROVE  AllSourced'
<1>1. pc \in [Procs -> Label] /\ mem \in [Procs -> Memory]
  BY DEF Provenance, TypeInv, TypeOK
<1> SUFFICES ASSUME NEW q \in Procs PROVE Sourced(pc'[q], mem'[q], held')
  BY DEF AllSourced
<1>2. CASE q = p
  BY <1>1, <1>2
<1>3. CASE q # p
  <2>1. pc'[q] = pc[q] /\ mem'[q] = mem[q]
    BY <1>1, <1>3
  <2>2. Local(pc[q], mem[q]) /\ Sourced(pc[q], mem[q], held)
    BY DEF Provenance, Contents, TypeInv, Locals, AllSourced
  <2> QED
    BY <2>1, <2>2, SourcedGrows
<1> QED
  BY <1>2, <1>3

(* The same for a handler that returns.                                    *)
LEMMA FinishSourced ==
  ASSUME Provenance, NEW p \in Procs, NEW l, Grows(held, held'), Finish(p, l)
  PROVE  AllSourced'
  BY BlankSourced, SourcedStep DEF Finish, Step

(* Steps that leave server and rows alone.                                 *)
LEMMA MemoryUnstored ==
  ASSUME Provenance, NEW p \in Procs, NEW l, NEW m, Sourced(l, m, held),
         pc' = [pc EXCEPT ![p] = l], mem' = [mem EXCEPT ![p] = m],
         UNCHANGED <<server, rows, held>>
  PROVE  Contents'
<1>1. Grows(held, held') /\ Sourced(l, m, held')
  BY DEF Grows
<1>2. AllSourced'
  BY <1>1, SourcedStep
<1> QED
  BY <1>2 DEF Provenance, Contents

(* A handler that returns without touching server or rows.                 *)
LEMMA FinishUnstored ==
  ASSUME Provenance, NEW p \in Procs, NEW l, Finish(p, l), UNCHANGED <<server, rows, held>>
  PROVE  Contents'
  BY BlankSourced, MemoryUnstored DEF Finish, Step

(* A handler that writes its row and returns.                              *)
LEMMA FinishStored ==
  ASSUME Provenance, NEW p \in Procs, NEW l, Finish(p, l), UNCHANGED <<server, held>>,
         AllReflect(rows', held)
  PROVE  Contents'
<1>1. Grows(held, held')
  BY DEF Grows
<1>2. AllSourced'
  BY <1>1, FinishSourced
<1> QED
  BY <1>2 DEF Provenance, Contents

(* A content the server takes becomes part of the history.                 *)
LEMMA PutContents ==
  ASSUME Provenance, NEW u \in Uids, NEW ev, PutOnServer(u, ev), UNCHANGED rows
  PROVE  /\ Grows(held, held') /\ AllFound(server', held') /\ AllReflect(rows', held')
         /\ ev \in held'[u]
<1>1. server \in EventTable /\ held \in [Uids -> SUBSET Event]
      /\ AllFound(server, held) /\ AllReflect(rows, held)
  BY DEF Provenance, Contents, TypeInv, TypeOK
<1>2. Grows(held, held') /\ ev \in held'[u]
  BY <1>1 DEF PutOnServer, Grows
<1>3. AllFound(server', held')
  BY <1>1 DEF PutOnServer, AllFound, EventTable
<1> QED
  BY <1>1, <1>2, <1>3, TableGrows

(* A save whose answer is lost.                                            *)
LEMMA PutAndFinish ==
  ASSUME Provenance, NEW p \in Procs, NEW l, Finish(p, l),
         NEW u \in Uids, NEW ev, PutOnServer(u, ev), UNCHANGED rows
  PROVE  Contents'
  BY PutContents, FinishSourced DEF Contents

(* A save after which the handler goes on with memory m.                   *)
LEMMA PutAndStep ==
  ASSUME Provenance, NEW p \in Procs, NEW l, NEW m,
         pc' = [pc EXCEPT ![p] = l], mem' = [mem EXCEPT ![p] = m],
         NEW u \in Uids, NEW ev, PutOnServer(u, ev), UNCHANGED rows,
         Sourced(l, m, held')
  PROVE  Contents'
  BY PutContents, SourcedStep DEF Contents

(* A rule that can be parsed is stored as it is.                           *)
LEMMA AllRulesParse ==
  ASSUME BadRules = {}, NEW ev
  PROVE  ServerForm(ev) = ev
  BY DEF ServerForm

-----------------------------------------------------------------------------
(* Every step of get_events keeps the contents sourced.                    *)
LEMMA GetContents ==
  ASSUME Provenance, NEW p \in Procs, GetNext(p)
  PROVE  Contents'
<1>t. /\ server \in EventTable /\ rows \in RowTable /\ held \in [Uids -> SUBSET Event]
      /\ pc \in [Procs -> Label] /\ mem \in [Procs -> Memory] /\ mem[p] \in Memory
      /\ issued \subseteq Uids
  BY DEF Provenance, TypeInv, TypeOK
<1>s. Local(pc[p], mem[p]) /\ Sourced(pc[p], mem[p], held)
  BY DEF Provenance, Contents, TypeInv, Locals, AllSourced
<1>c. AllFound(server, held) /\ AllReflect(rows, held)
  BY DEF Provenance, Contents
<1>m. /\ mem[p].seen \in RowTable /\ mem[p].found \in EventTable
      /\ AllReflect(mem[p].seen, held) /\ AllFound(mem[p].found, held)
  BY <1>t, <1>s DEF Memory, Sourced
<1>1. CASE GetBegin(p)
  <2>1. PICK r \in Ranges, f \in Forces :
          mem' = [mem EXCEPT ![p] = [Blank EXCEPT !.range = r, !.force = f,
                                                  !.seen = CachedEvents(rows, r)]]
    BY <1>1 DEF GetBegin
  <2> DEFINE m == [Blank EXCEPT !.range = r, !.force = f, !.seen = CachedEvents(rows, r)]
  <2>2. m.seen = CachedEvents(rows, r) /\ m.found = NoEvents
    BY DEF Blank
  <2>3. AllReflect(CachedEvents(rows, r), held)
    BY <1>t, <1>c, CachedEventsReflect
  <2>4. Sourced("decide", m, held)
    <3> HIDE DEF m
    <3> QED
      BY <2>2, <2>3 DEF Sourced, NeedsMaster, AllFound, NoEvents
  <2>5. pc' = [pc EXCEPT ![p] = "decide"] /\ mem' = [mem EXCEPT ![p] = m]
    BY <1>1, <2>1 DEF GetBegin
  <2>6. UNCHANGED <<server, rows, held>>
    BY <1>1 DEF GetBegin, stores, observers
  <2> HIDE DEF m
  <2> QED
    BY <2>4, <2>5, <2>6, MemoryUnstored
<1>2. CASE GetDecide(p)
  <2> DEFINE sync == ShouldSync(mem[p].force, mem[p].seen, mem[p].range, marks[WorkerOf[p]], now)
             l == IF sync THEN "search" ELSE "reply"
             m == [mem[p] EXCEPT !.sync = sync, !.source = IF sync THEN "none" ELSE "cache"]
  <2>1. m.seen = mem[p].seen /\ m.found = mem[p].found
    BY <1>t DEF Memory
  <2>2. Sourced(l, m, held)
    <3> HIDE DEF m
    <3> QED
      BY <1>m, <2>1 DEF Sourced, NeedsMaster
  <2>3. pc' = [pc EXCEPT ![p] = l] /\ mem' = [mem EXCEPT ![p] = m]
    BY <1>2 DEF GetDecide, Step
  <2>4. UNCHANGED <<server, rows, held>>
    BY <1>2 DEF GetDecide, stores, observers
  <2> HIDE DEF l, m
  <2> QED
    BY <2>2, <2>3, <2>4, MemoryUnstored
<1>3. ASSUME NEW l, ServeCached(p, l) PROVE Contents'
  <2> DEFINE m == [mem[p] EXCEPT !.source = "cache"]
  <2>1. m.seen = mem[p].seen /\ m.found = mem[p].found
    BY <1>t DEF Memory
  <2>2. Sourced("reply", m, held)
    <3> HIDE DEF m
    <3> QED
      BY <1>m, <2>1 DEF Sourced, NeedsMaster
  <2>3. pc' = [pc EXCEPT ![p] = "reply"] /\ mem' = [mem EXCEPT ![p] = m]
    BY <1>3, <1>t DEF ServeCached, Step
  <2>4. UNCHANGED <<server, rows, held>>
    BY <1>3 DEF ServeCached, stores, observers
  <2> HIDE DEF m
  <2> QED
    BY <2>2, <2>3, <2>4, MemoryUnstored
<1>4. ASSUME NEW found \in EventTable, AllFound(found, held), Searched(p, found) PROVE Contents'
  <2> DEFINE seen == MergeFound(mem[p].seen, found, now)
             m == [mem[p] EXCEPT !.found = found, !.stamp = now, !.seen = seen]
  <2>1. m.seen = seen /\ m.found = found
    BY <1>t DEF Memory
  <2>2. AllReflect(seen, held)
    BY <1>4, <1>m, MergeFoundReflects
  <2>3. Sourced("commit", m, held)
    <3> HIDE DEF m, seen
    <3> QED
      BY <1>4, <2>1, <2>2 DEF Sourced, NeedsMaster
  <2>4. pc' = [pc EXCEPT ![p] = "commit"] /\ mem' = [mem EXCEPT ![p] = m]
    BY <1>4, <1>t DEF Searched, Step
  <2>5. UNCHANGED <<server, rows, held>>
    BY <1>4 DEF Searched, stores
  <2> HIDE DEF m
  <2> QED
    BY <2>3, <2>4, <2>5, MemoryUnstored
<1>5. CASE GetSearch(p)
  BY <1>5, <1>4, <1>t, <1>c, SearchHitsType, SearchHitsFound DEF GetSearch
<1>6. CASE GetSearchFails(p)
  <2>1. NoEvents \in EventTable /\ AllFound(NoEvents, held)
    BY DEF NoEvents, EventTable, AllFound
  <2> QED
    BY <1>6, <1>4, <2>1 DEF GetSearchFails
<1>7. CASE GetCommit(p)
  <2> DEFINE m == mem[p]
  <2>1. PICK ids \in [NewRows(rows, m.seen, m.found) -> Ids] :
          rows' = OwnCleanup(OwnUpdate(BulkCreate(rows, m.seen, m.found, ids, m.stamp), m.seen, m.found),
                             m.seen, m.found)
    BY <1>7, CommitByUid DEF Provenance
  <2>2. AllReflect(BulkCreate(rows, m.seen, m.found, ids, m.stamp), held)
    BY <1>t, <1>c, <1>m, BulkCreateReflects
  <2>3. AllReflect(rows', held)
    BY <1>m, <2>1, <2>2, OwnUpdateReflects, OwnCleanupReflects
  <2>4. UNCHANGED <<server, held>> /\ Grows(held, held')
    BY <1>7 DEF GetCommit, observers, Grows
  <2>5. Sourced("mark", mem[p], held')
    BY <1>m, <2>4 DEF Sourced, NeedsMaster
  <2>6. pc' = [pc EXCEPT ![p] = "mark"] /\ mem' = [mem EXCEPT ![p] = mem[p]]
    BY <1>7, <1>t DEF GetCommit, Step
  <2>7. AllSourced'
    BY <2>4, <2>5, <2>6, SourcedStep
  <2> QED
    BY <1>c, <2>3, <2>4, <2>7 DEF Contents
<1>8. CASE GetMark(p)
  <2> DEFINE m == [mem[p] EXCEPT !.source = "server"]
  <2>1. m.seen = mem[p].seen /\ m.found = mem[p].found
    BY <1>t DEF Memory
  <2>2. Sourced("reply", m, held)
    <3> HIDE DEF m
    <3> QED
      BY <1>m, <2>1 DEF Sourced, NeedsMaster
  <2>3. pc' = [pc EXCEPT ![p] = "reply"] /\ mem' = [mem EXCEPT ![p] = m]
    BY <1>8, <1>t DEF GetMark, Step
  <2>4. UNCHANGED <<server, rows, held>>
    BY <1>8 DEF GetMark, observers
  <2> HIDE DEF m
  <2> QED
    BY <2>2, <2>3, <2>4, MemoryUnstored
<1>9. CASE GetReply(p)
  BY <1>9, FinishUnstored DEF GetReply, stores
<1> QED
  BY <1>1, <1>2, <1>3, <1>5, <1>6, <1>7, <1>8, <1>9
  DEF GetNext, GetConnectFails, GetCommitFails

(* A save that is refused changes no content.                              *)
LEMMA SaveFailsContents ==
  ASSUME Provenance, NEW p \in Procs, NEW l, SaveFails(p, l)
  PROVE  Contents'
  BY FinishUnstored DEF SaveFails, stores, observers

(* Every step of create_event keeps the contents sourced.                  *)
LEMMA CreateContents ==
  ASSUME BadRules = {}, Provenance, NEW p \in Procs,
         CreateBegin(p) \/ CreateSave(p) \/ CreateLost(p) \/ CreateFails(p) \/ CreateDb(p)
  PROVE  Contents'
<1>t. /\ server \in EventTable /\ rows \in RowTable /\ held \in [Uids -> SUBSET Event]
      /\ pc \in [Procs -> Label] /\ mem \in [Procs -> Memory] /\ mem[p] \in Memory
      /\ issued \subseteq Uids
  BY DEF Provenance, TypeInv, TypeOK
<1>s. Local(pc[p], mem[p]) /\ Sourced(pc[p], mem[p], held)
  BY DEF Provenance, Contents, TypeInv, Locals, AllSourced
<1>c. AllFound(server, held) /\ AllReflect(rows, held)
  BY DEF Provenance, Contents
<1>1. CASE CreateBegin(p)
  <2>1. PICK ev \in Payloads : mem' = [mem EXCEPT ![p] = [Blank EXCEPT !.ev = ev]]
    BY <1>1 DEF CreateBegin
  <2> DEFINE m == [Blank EXCEPT !.ev = ev]
  <2>2. m.seen = NoRows /\ m.found = NoEvents
    BY DEF Blank
  <2>3. Sourced("createSave", m, held')
    <3> HIDE DEF m
    <3> QED
      BY <2>2 DEF Sourced, NeedsMaster, AllReflect, AllFound, NoRows, NoEvents
  <2>4. pc' = [pc EXCEPT ![p] = "createSave"] /\ mem' = [mem EXCEPT ![p] = m]
    BY <1>1, <2>1 DEF CreateBegin
  <2>5. UNCHANGED <<server, rows, held>>
    BY <1>1 DEF CreateBegin, stores, observers
  <2> HIDE DEF m
  <2> QED
    BY <2>3, <2>4, <2>5, MemoryUnstored
<1>2. CASE CreateSave(p)
  <2>1. PICK u \in Uids \ issued :
          PutOnServer(u, ServerForm(mem[p].ev)) /\ mem' = [mem EXCEPT ![p].new = u]
    BY <1>2 DEF CreateSave
  <2> DEFINE m == [mem[p] EXCEPT !.new = u]
  <2>2. PutOnServer(u, mem[p].ev) /\ UNCHANGED rows
    BY <1>2, <2>1, AllRulesParse DEF CreateSave
  <2>3. Grows(held, held') /\ mem[p].ev \in held'[u]
    BY <2>2, PutContents
  <2>4. m.ev = mem[p].ev /\ m.new = u /\ m.seen = mem[p].seen /\ m.found = mem[p].found
    BY <1>t DEF Memory
  <2>5. AllReflect(mem[p].seen, held') /\ AllFound(mem[p].found, held')
    BY <1>s, <2>3, TableGrows, FoundGrows DEF Sourced
  <2>6. Sourced("createDb", m, held')
    <3> HIDE DEF m
    <3> QED
      BY <2>3, <2>4, <2>5 DEF Sourced, NeedsMaster
  <2>7. pc' = [pc EXCEPT ![p] = "createDb"] /\ mem' = [mem EXCEPT ![p] = m]
    BY <1>2, <1>t, <2>1 DEF CreateSave, Step
  <2> HIDE DEF m
  <2> QED
    BY <2>2, <2>6, <2>7, PutAndStep
<1>3. CASE CreateLost(p)
  <2>1. PICK u \in Uids \ issued : PutOnServer(u, ServerForm(mem[p].ev))
    BY <1>3 DEF CreateLost
  <2> QED
    BY <1>3, <2>1, PutAndFinish DEF CreateLost
<1>4. CASE CreateFails(p)
  BY <1>4, SaveFailsContents DEF CreateFails
<1>5. CASE CreateDb(p)
  <2>1. PICK id \in Ids : rows' = UpsertRow(rows, mem[p].new, mem[p].ev, id, now)
    BY <1>5 DEF CreateDb
  <2>2. mem[p].new \in Uids /\ mem[p].ev \in held[mem[p].new]
    BY <1>5, <1>s DEF CreateDb, Finish, Step, Local, Sourced
  <2>3. AllReflect(rows', held)
    BY <1>t, <1>c, <2>1, <2>2, UpsertRowReflects
  <2> QED
    BY <1>5, <2>3, FinishStored DEF CreateDb, observers
<1> QED
  BY <1>1, <1>2, <1>3, <1>4, <1>5

(* Every step of update_event keeps the contents sourced.                  *)
LEMMA UpdateContents ==
  ASSUME BadRules = {}, Provenance, NEW p \in Procs,
         \/ UpdateBegin(p) \/ UpdateFound(p) \/ UpdateNotFound(p)
         \/ UpdateSave(p) \/ UpdateLost(p) \/ UpdateFails(p) \/ UpdateDb(p)
  PROVE  Contents'
<1>t. /\ server \in EventTable /\ rows \in RowTable /\ held \in [Uids -> SUBSET Event]
      /\ pc \in [Procs -> Label] /\ mem \in [Procs -> Memory] /\ mem[p] \in Memory
      /\ issued \subseteq Uids
  BY DEF Provenance, TypeInv, TypeOK
<1>s. Local(pc[p], mem[p]) /\ Sourced(pc[p], mem[p], held)
  BY DEF Provenance, Contents, TypeInv, Locals, AllSourced
<1>c. AllFound(server, held) /\ AllReflect(rows, held)
  BY DEF Provenance, Contents
<1>1. CASE UpdateBegin(p)
  <2>1. PICK u \in issued, ev \in Payloads : mem' = [mem EXCEPT ![p] = [Blank EXCEPT !.uid = u, !.ev = ev]]
    BY <1>1 DEF UpdateBegin
  <2> DEFINE m == [Blank EXCEPT !.uid = u, !.ev = ev]
  <2>2. m.seen = NoRows /\ m.found = NoEvents
    BY DEF Blank
  <2>3. Sourced("updateLookup", m, held')
    <3> HIDE DEF m
    <3> QED
      BY <2>2 DEF Sourced, NeedsMaster, AllReflect, AllFound, NoRows, NoEvents
  <2>4. pc' = [pc EXCEPT ![p] = "updateLookup"] /\ mem' = [mem EXCEPT ![p] = m]
    BY <1>1, <2>1 DEF UpdateBegin
  <2>5. UNCHANGED <<server, rows, held>>
    BY <1>1 DEF UpdateBegin, stores, observers
  <2> HIDE DEF m
  <2> QED
    BY <2>3, <2>4, <2>5, MemoryUnstored
<1>2. CASE UpdateFound(p)
  <2>1. Sourced("updateSave", mem[p], held)
    BY <1>2, <1>s DEF UpdateFound, Step, Sourced, NeedsMaster
  <2>2. pc' = [pc EXCEPT ![p] = "updateSave"] /\ mem' = [mem EXCEPT ![p] = mem[p]]
    BY <1>2, <1>t DEF UpdateFound, Step
  <2>3. UNCHANGED <<server, rows, held>>
    BY <1>2 DEF UpdateFound, stores, observers
  <2> QED
    BY <2>1, <2>2, <2>3, MemoryUnstored
<1>3. CASE UpdateNotFound(p)
  BY <1>3, FinishUnstored DEF UpdateNotFound, stores, observers
<1>4. CASE UpdateSave(p)
  <2>1. PutOnServer(mem[p].uid, mem[p].ev) /\ UNCHANGED rows
    BY <1>4, AllRulesParse DEF UpdateSave
  <2>2. mem[p].uid \in Uids
    BY <1>4, <1>s DEF UpdateSave, Step, Local, NeedsUid
  <2>3. Grows(held, held') /\ mem[p].ev \in held'[mem[p].uid]
    BY <2>1, <2>2, PutContents
  <2>4. AllReflect(mem[p].seen, held') /\ AllFound(mem[p].found, held')
    BY <1>s, <2>3, TableGrows, FoundGrows DEF Sourced
  <2>5. Sourced("updateDb", mem[p], held')
    BY <2>3, <2>4 DEF Sourced, NeedsMaster
  <2>6. pc' = [pc EXCEPT ![p] = "updateDb"] /\ mem' = [mem EXCEPT ![p] = mem[p]]
    BY <1>4, <1>t DEF UpdateSave, Step
  <2> QED
    BY <2>1, <2>2, <2>5, <2>6, PutAndStep
<1>5. CASE UpdateLost(p)
  <2>1. mem[p].uid \in Uids
    BY <1>5, <1>s DEF UpdateLost, Finish, Step, Local, NeedsUid
  <2> QED
    BY <1>5, <2>1, PutAndFinish DEF UpdateLost
<1>6. CASE UpdateFails(p)
  BY <1>6, SaveFailsContents DEF UpdateFails
<1>7. CASE UpdateDb(p)
  <2>1. mem[p].uid \in Uids /\ mem[p].ev \in held[mem[p].uid]
    BY <1>7, <1>s DEF UpdateDb, Finish, Step, Local, NeedsUid, Sourced
  <2>2. AllReflect(rows', held)
    BY <1>7, <1>t, <1>c, <2>1, UpdateRowReflects DEF UpdateDb
  <2> QED
    BY <1>7, <2>2, FinishStored DEF UpdateDb, observers
<1> QED
  BY <1>1, <1>2, <1>3, <1>4, <1>5, <1>6, <1>7

(* Every step of delete_event keeps the contents sourced.                  *)
LEMMA DeleteContents ==
  ASSUME Provenance, NEW p \in Procs,
         DeleteBegin(p) \/ DeleteSave(p) \/ DeleteLost(p) \/ DeleteFails(p) \/ DeleteDb(p)
  PROVE  Contents'
<1>t. /\ server \in EventTable /\ rows \in RowTable /\ held \in [Uids -> SUBSET Event]
      /\ pc \in [Procs -> Label] /\ mem \in [Procs -> Memory] /\ mem[p] \in Memory
      /\ issued \subseteq Uids
  BY DEF Provenance, TypeInv, TypeOK
<1>s. Local(pc[p], mem[p]) /\ Sourced(pc[p], mem[p], held)
  BY DEF Provenance, Contents, TypeInv, Locals, AllSourced
<1>c. AllFound(server, held) /\ AllReflect(rows, held)
  BY DEF Provenance, Contents
<1>1. CASE DeleteBegin(p)
  <2>1. PICK u \in issued : mem' = [mem EXCEPT ![p] = [Blank EXCEPT !.uid = u]]
    BY <1>1 DEF DeleteBegin
  <2> DEFINE m == [Blank EXCEPT !.uid = u]
  <2>2. m.seen = NoRows /\ m.found = NoEvents
    BY DEF Blank
  <2>3. Sourced("deleteSave", m, held')
    <3> HIDE DEF m
    <3> QED
      BY <2>2 DEF Sourced, NeedsMaster, AllReflect, AllFound, NoRows, NoEvents
  <2>4. pc' = [pc EXCEPT ![p] = "deleteSave"] /\ mem' = [mem EXCEPT ![p] = m]
    BY <1>1, <2>1 DEF DeleteBegin
  <2>5. UNCHANGED <<server, rows, held>>
    BY <1>1 DEF DeleteBegin, stores, observers
  <2> HIDE DEF m
  <2> QED
    BY <2>3, <2>4, <2>5, MemoryUnstored
<1>2. ASSUME server' = [server EXCEPT ![mem[p].uid] = NoEvent]
      PROVE  AllFound(server', held)
  BY <1>2, <1>t, <1>c DEF AllFound, EventTable
<1>3. CASE DeleteSave(p)
  <2>1. UNCHANGED <<rows, held>> /\ Grows(held, held') /\ AllFound(server', held)
    BY <1>3, <1>2 DEF DeleteSave, observers, Grows
  <2>2. Sourced("deleteDb", mem[p], held')
    BY <1>s, <2>1 DEF Sourced, NeedsMaster
  <2>3. pc' = [pc EXCEPT ![p] = "deleteDb"] /\ mem' = [mem EXCEPT ![p] = mem[p]]
    BY <1>3, <1>t DEF DeleteSave, Step
  <2>4. AllSourced'
    BY <2>1, <2>2, <2>3, SourcedStep
  <2> QED
    BY <1>c, <2>1, <2>4 DEF Contents
<1>4. CASE DeleteLost(p)
  <2>1. UNCHANGED <<rows, held>> /\ Grows(held, held') /\ AllFound(server', held)
    BY <1>4, <1>2 DEF DeleteLost, observers, Grows
  <2>2. AllSourced'
    BY <1>4, <2>1, FinishSourced DEF DeleteLost
  <2> QED
    BY <1>c, <2>1, <2>2 DEF Contents
<1>5. CASE DeleteFails(p)
  BY <1>5, SaveFailsContents DEF DeleteFails
<1>6. CASE DeleteDb(p)
  <2>1. AllReflect(rows', held)
    BY <1>6, <1>t, <1>c DEF DeleteDb, AllReflect, RowTable
  <2> QED
    BY <1>6, <2>1, FinishStored DEF DeleteDb, observers
<1> QED
  BY <1>1, <1>3, <1>4, <1>5, <1>6

(* Every step of the occurrence handlers keeps the contents sourced.       *)
LEMMA OccurrenceContents ==
  ASSUME BadRules = {}, Provenance, NEW p \in Procs, OccurrenceNext(p)
  PROVE  Contents'
<1>t. /\ server \in EventTable /\ rows \in RowTable /\ held \in [Uids -> SUBSET Event]
      /\ pc \in [Procs -> Label] /\ mem \in [Procs -> Memory] /\ mem[p] \in Memory
      /\ issued \subseteq Uids
  BY DEF Provenance, TypeInv, TypeOK
<1>s. Local(pc[p], mem[p]) /\ Sourced(pc[p], mem[p], held)
  BY DEF Provenance, Contents, TypeInv, Locals, AllSourced
<1>c. AllFound(server, held) /\ AllReflect(rows, held)
  BY DEF Provenance, Contents
<1>1. CASE ExceptionBegin(p)
  <2>1. PICK u \in issued, occ \in Occs, ev \in Payloads :
          mem' = [mem EXCEPT ![p] = [Blank EXCEPT !.uid = u, !.occ = occ, !.ev = ev]]
    BY <1>1 DEF ExceptionBegin
  <2> DEFINE m == [Blank EXCEPT !.uid = u, !.occ = occ, !.ev = ev]
  <2>2. m.seen = NoRows /\ m.found = NoEvents
    BY DEF Blank
  <2>3. Sourced("addLookup", m, held')
    <3> HIDE DEF m
    <3> QED
      BY <2>2 DEF Sourced, NeedsMaster, AllReflect, AllFound, NoRows, NoEvents
  <2>4. pc' = [pc EXCEPT ![p] = "addLookup"] /\ mem' = [mem EXCEPT ![p] = m]
    BY <1>1, <2>1 DEF ExceptionBegin
  <2>5. UNCHANGED <<server, rows, held>>
    BY <1>1 DEF ExceptionBegin, stores, observers
  <2> HIDE DEF m
  <2> QED
    BY <2>3, <2>4, <2>5, MemoryUnstored
<1>2. CASE OccurrenceBegin(p)
  <2>1. PICK u \in issued, occ \in Occs : mem' = [mem EXCEPT ![p] = [Blank EXCEPT !.uid = u, !.occ = occ]]
    BY <1>2 DEF OccurrenceBegin
  <2> DEFINE m == [Blank EXCEPT !.uid = u, !.occ = occ]
  <2>2. m.seen = NoRows /\ m.found = NoEvents
    BY DEF Blank
  <2>3. Sourced("addLookup", m, held')
    <3> HIDE DEF m
    <3> QED
      BY <2>2 DEF Sourced, NeedsMaster, AllReflect, AllFound, NoRows, NoEvents
  <2>4. pc' = [pc EXCEPT ![p] = "addLookup"] /\ mem' = [mem EXCEPT ![p] = m]
    BY <1>2, <2>1 DEF OccurrenceBegin
  <2>5. UNCHANGED <<server, rows, held>>
    BY <1>2 DEF OccurrenceBegin, stores, observers
  <2> HIDE DEF m
  <2> QED
    BY <2>3, <2>4, <2>5, MemoryUnstored
<1>3. CASE MasterFound(p)
  <2> DEFINE m == [mem[p] EXCEPT !.master = server[mem[p].uid]]
  <2>1. mem[p].uid \in Uids
    BY <1>3, <1>s DEF MasterFound, Step, Local, NeedsUid
  <2>2. server[mem[p].uid] \in held[mem[p].uid]
    BY <1>3, <1>c, <2>1 DEF MasterFound, Readable, AllFound
  <2>3. /\ m.master = server[mem[p].uid] /\ m.uid = mem[p].uid
        /\ m.seen = mem[p].seen /\ m.found = mem[p].found
    BY <1>t DEF Memory
  <2>4. Sourced("addSave", m, held)
    <3> HIDE DEF m
    <3> QED
      BY <1>s, <2>2, <2>3 DEF Sourced, NeedsMaster
  <2>5. pc' = [pc EXCEPT ![p] = "addSave"] /\ mem' = [mem EXCEPT ![p] = m]
    BY <1>3, <1>t DEF MasterFound, Step
  <2>6. UNCHANGED <<server, rows, held>>
    BY <1>3 DEF MasterFound, stores, observers
  <2> HIDE DEF m
  <2> QED
    BY <2>4, <2>5, <2>6, MemoryUnstored
<1>4. CASE MasterNotFound(p)
  BY <1>4, FinishUnstored DEF MasterNotFound, stores, observers
<1>5. CASE MasterSave(p)
  <2> DEFINE master == WithExdate(mem[p].master, mem[p].occ)
             m == [mem[p] EXCEPT !.master = master]
             l == IF mem[p].ev = NoEvent THEN "exdDb" ELSE "excSave"
  <2>1. mem[p].uid \in Uids
    BY <1>5, <1>s DEF MasterSave, Step, Local, NeedsUid
  <2>2. PutOnServer(mem[p].uid, master) /\ UNCHANGED rows
    BY <1>5, AllRulesParse DEF MasterSave
  <2>3. Grows(held, held') /\ master \in held'[mem[p].uid]
    BY <2>1, <2>2, PutContents
  <2>4. /\ m.master = master /\ m.uid = mem[p].uid /\ m.ev = mem[p].ev
        /\ m.seen = mem[p].seen /\ m.found = mem[p].found
    BY <1>t DEF Memory
  <2>5. AllReflect(mem[p].seen, held') /\ AllFound(mem[p].found, held')
    BY <1>s, <2>3, TableGrows, FoundGrows DEF Sourced
  <2>6. Sourced(l, m, held')
    <3> HIDE DEF m, master
    <3> QED
      BY <2>3, <2>4, <2>5 DEF Sourced, NeedsMaster
  <2>7. pc' = [pc EXCEPT ![p] = l] /\ mem' = [mem EXCEPT ![p] = m]
    BY <1>5, <1>t DEF MasterSave, Step
  <2> HIDE DEF l, m, master
  <2> QED
    BY <2>1, <2>2, <2>6, <2>7, PutAndStep
<1>6. CASE MasterLost(p)
  <2>1. mem[p].uid \in Uids
    BY <1>6, <1>s DEF MasterLost, Finish, Step, Local, NeedsUid
  <2> QED
    BY <1>6, <2>1, PutAndFinish DEF MasterLost
<1>7. CASE MasterFails(p)
  BY <1>7, SaveFailsContents DEF MasterFails
<1>8. CASE ExceptionSave(p)
  <2>1. PICK u \in Uids \ issued :
          PutOnServer(u, Standalone(mem[p].ev)) /\ mem' = [mem EXCEPT ![p].new = u]
    BY <1>8 DEF ExceptionSave
  <2> DEFINE m == [mem[p] EXCEPT !.new = u]
  <2>2. mem[p].uid \in Uids /\ mem[p].master \in held[mem[p].uid]
    BY <1>8, <1>s DEF ExceptionSave, Step, Local, NeedsUid, Sourced, NeedsMaster
  <2>3. Grows(held, held') /\ Standalone(mem[p].ev) \in held'[u]
    BY <1>8, <2>1, PutContents DEF ExceptionSave
  <2>4. /\ m.master = mem[p].master /\ m.uid = mem[p].uid /\ m.ev = mem[p].ev /\ m.new = u
        /\ m.seen = mem[p].seen /\ m.found = mem[p].found
    BY <1>t DEF Memory
  <2>5. AllReflect(mem[p].seen, held') /\ AllFound(mem[p].found, held')
    BY <1>s, <2>3, TableGrows, FoundGrows DEF Sourced
  <2>6. mem[p].master \in held'[mem[p].uid]
    BY <2>2, <2>3 DEF Grows
  <2>7. Sourced("exdDb", m, held')
    <3> HIDE DEF m
    <3> QED
      BY <2>3, <2>4, <2>5, <2>6 DEF Sourced, NeedsMaster
  <2>8. pc' = [pc EXCEPT ![p] = "exdDb"] /\ mem' = [mem EXCEPT ![p] = m]
    BY <1>8, <1>t, <2>1 DEF ExceptionSave, Step
  <2> HIDE DEF m
  <2> QED
    BY <1>8, <2>1, <2>7, <2>8, PutAndStep DEF ExceptionSave
<1>9. CASE ExceptionLost(p)
  <2>1. PICK u \in Uids \ issued : PutOnServer(u, Standalone(mem[p].ev))
    BY <1>9 DEF ExceptionLost
  <2> QED
    BY <1>9, <2>1, PutAndFinish DEF ExceptionLost
<1>10. CASE ExceptionFails(p)
  BY <1>10, SaveFailsContents DEF ExceptionFails
<1>11. CASE ExdateDb(p)
  <2>1. pc[p] = "exdDb"
    BY <1>11 DEF ExdateDb, Finish, Step
  <2>2. mem[p].uid \in Uids /\ mem[p].master \in Event /\ mem[p].master \in held[mem[p].uid]
    BY <1>s, <2>1 DEF Local, NeedsUid, NeedsMaster, Sourced
  <2>3. AllReflect(rows', held)
    BY <1>11, <1>t, <1>c, <2>2, UpdateExdateReflects DEF ExdateDb
  <2>4. UNCHANGED <<server, held>> /\ Grows(held, held')
    BY <1>11 DEF ExdateDb, observers, Grows
  <2>5. CASE mem[p].ev = NoEvent
    BY <1>11, <2>3, <2>4, <2>5, FinishStored DEF ExdateDb
  <2>6. CASE mem[p].ev # NoEvent
    <3>1. Sourced("excDb", mem[p], held')
      BY <1>s, <2>1, <2>4, <2>6 DEF Sourced, NeedsMaster
    <3>2. pc' = [pc EXCEPT ![p] = "excDb"] /\ mem' = [mem EXCEPT ![p] = mem[p]]
      BY <1>11, <1>t, <2>6 DEF ExdateDb, Step
    <3>3. AllSourced'
      BY <2>4, <3>1, <3>2, SourcedStep
    <3> QED
      BY <1>c, <2>3, <2>4, <3>3 DEF Contents
  <2> QED
    BY <2>5, <2>6
<1>12. CASE ExceptionDb(p)
  <2>1. PICK id \in Ids : rows' = UpsertRow(rows, mem[p].new, Standalone(mem[p].ev), id, now)
    BY <1>12 DEF ExceptionDb
  <2>2. mem[p].new \in Uids /\ Standalone(mem[p].ev) \in held[mem[p].new]
    BY <1>12, <1>s DEF ExceptionDb, Finish, Step, Local, Sourced
  <2>3. AllReflect(rows', held)
    BY <1>t, <1>c, <2>1, <2>2, UpsertRowReflects
  <2> QED
    BY <1>12, <2>3, FinishStored DEF ExceptionDb, observers
<1> QED
  BY <1>1, <1>2, <1>3, <1>4, <1>5, <1>6, <1>7, <1>8, <1>9, <1>10, <1>11, <1>12 DEF OccurrenceNext

(* Ticks, outside edits and crashes keep the contents sourced.             *)
LEMMA EnvironmentContents ==
  ASSUME Provenance, Environment
  PROVE  Contents'
<1>t. /\ server \in EventTable /\ held \in [Uids -> SUBSET Event]
      /\ pc \in [Procs -> Label] /\ mem \in [Procs -> Memory]
  BY DEF Provenance, TypeInv, TypeOK
<1>c. AllFound(server, held) /\ AllReflect(rows, held) /\ AllSourced /\ Locals
  BY DEF Provenance, Contents, TypeInv
<1>1. CASE Tick
  BY <1>1, <1>c DEF Tick, Contents, AllSourced, stores, control, observers
<1>2. CASE ExternalPut
  <2>1. PICK u \in Uids, ev \in ExternalEvents : PutOnServer(u, ev)
    BY <1>2 DEF ExternalPut
  <2>2. Grows(held, held') /\ AllFound(server', held') /\ AllReflect(rows', held')
    BY <1>2, <2>1, PutContents DEF ExternalPut
  <2>3. AllSourced'
    BY <1>2, <1>c, <2>2, SourcedGrows DEF ExternalPut, control, AllSourced, Locals
  <2> QED
    BY <2>2, <2>3 DEF Contents
<1>3. CASE ExternalDelete
  <2>1. AllFound(server', held)
    BY <1>3, <1>t, <1>c DEF ExternalDelete, AllFound, EventTable
  <2> QED
    BY <1>3, <1>c, <2>1 DEF ExternalDelete, Contents, AllSourced, control, observers
<1>4. ASSUME NEW w \in Workers, Crash(w) PROVE Contents'
  <2>1. ASSUME NEW p \in Procs PROVE Sourced(pc'[p], mem'[p], held)
    <3>1. CASE WorkerOf[p] = w
      BY <1>4, <3>1, BlankSourced DEF Crash
    <3>2. CASE WorkerOf[p] # w
      BY <1>4, <1>c, <3>2 DEF Crash, AllSourced
    <3> QED
      BY <3>1, <3>2
  <2> QED
    BY <1>4, <1>c, <2>1 DEF Crash, Contents, AllSourced
<1> QED
  BY <1>1, <1>2, <1>3, <1>4 DEF Environment

-----------------------------------------------------------------------------
(* At the start every row holds what the server holds.                     *)
LEMMA InitContents == Init => Contents
<1> SUFFICES ASSUME Init PROVE Contents
  OBVIOUS
<1>1. AllFound(server, held)
  BY ClientsAssumption DEF Init, AllFound, EventTable
<1>2. AllReflect(rows, held)
  <2> SUFFICES ASSUME NEW u \in Uids, rows[u] # NoRow PROVE Reflects(rows[u].ev, held[u])
    BY DEF AllReflect
  <2>1. u \in Cached /\ rows[u].ev = Existing[u]
    BY DEF Init
  <2>2. Existing[u] \in held[u]
    BY <2>1, ClientsAssumption DEF Init
  <2> QED
    BY <2>1, <2>2, ReflectsSelf
<1>3. AllSourced
  BY BlankSourced DEF Init, AllSourced
<1> QED
  BY <1>1, <1>2, <1>3 DEF Contents

(* Whatever the cache holds came from the server: the body of a row and    *)
(* its exdate are contents the server has held under the row's uid, when   *)
(* every recurrence rule can be parsed.                                    *)
THEOREM CacheShowsServerContent ==
  ASSUME BadRules = {}
  PROVE  Spec => []RowsReflectServer
<1>1. Init => Provenance
  BY InitTypes, InitKeys, InitContents DEF Provenance
<1>2. Provenance /\ [Next]_vars => Provenance'
  <2> SUFFICES ASSUME Provenance, [Next]_vars PROVE Provenance'
    OBVIOUS
  <2>1. TypeInv' /\ KeysApart'
    BY NextTypes, NextKeys DEF Provenance
  <2>2. ASSUME UNCHANGED vars PROVE Contents'
    BY <2>2 DEF vars, Provenance, Contents, AllFound, AllReflect, AllSourced, Sourced
  <2>3. ASSUME Environment PROVE Contents'
    BY <2>3, EnvironmentContents
  <2>4. ASSUME NEW p \in Procs, GetNext(p) PROVE Contents'
    BY <2>4, GetContents
  <2>5. ASSUME NEW p \in Procs, WriteNext(p) PROVE Contents'
    BY <2>5, CreateContents, UpdateContents, DeleteContents DEF WriteNext
  <2>6. ASSUME NEW p \in Procs, OccurrenceNext(p) PROVE Contents'
    BY <2>6, OccurrenceContents
  <2>7. Contents'
    BY <2>2, <2>3, <2>4, <2>5, <2>6 DEF Next, Provenance
  <2> QED
    BY <2>1, <2>7 DEF Provenance
<1>3. Provenance => RowsReflectServer
  BY DEF Provenance, Contents, AllReflect, RowsReflectServer
<1> QED
  BY <1>1, <1>2, <1>3, PTL DEF Spec
=============================================================================
