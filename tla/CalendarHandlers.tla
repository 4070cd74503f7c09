--------------------------- MODULE CalendarHandlers -------------------------
(***************************************************************************)
(* What the handlers of the calendar keep whatever interleaves, fails or   *)
(* crashes.  Every uid they hold has been issued, so what a sync does not  *)
(* find was deleted and not stored later.  And whatever set of contents    *)
(* the clients and the server start from, if saving and suppressing an     *)
(* occurrence stay in it, the server never holds another.                  *)
(*                                                                         *)
(* From the two follows that cleanup_zombie_events deletes a row only if   *)
(* its event was gone when the sync searched: provided the search did not  *)
(* fail and was made over a window in which every event lies.              *)
(***************************************************************************)
EXTENDS CalendarProofs

(* A table has entries only for the uids of a set.                         *)
RowsAmong(table, uids) == \A u \in Uids : table[u] # NoRow => u \in uids
EventsAmong(table, uids) == \A u \in Uids : table[u] # NoEvent => u \in uids

(* The uids in the memory m of a handler at label l are issued.            *)
Known(l, m, uids) ==
    /\ RowsAmong(m.seen, uids) /\ EventsAmong(m.found, uids)
    /\ l \in NeedsUid => m.uid \in uids
    /\ l = "createDb" \/ l = "excDb" \/ (l = "exdDb" /\ m.ev # NoEvent) => m.new \in uids

AllKnown == \A p \in Procs : Known(pc[p], mem[p], issued)

UidsKnown == EventsAmong(server, issued) /\ RowsAmong(rows, issued) /\ AllKnown

-----------------------------------------------------------------------------
(* The contents in a set that nothing leads out of.                        *)

(* The calendar starts in good, clients send good events, and suppressing  *)
(* an occurrence of a good event leaves a good one.                        *)
Closed(good) ==
    /\ \A u \in Uids : Existing[u] # NoEvent => Existing[u] \in good
    /\ MaxEdits > 0 => ExternalEvents \subseteq good
    /\ \A ev \in Payloads : ServerForm(ev) \in good /\ Standalone(ev) \in good
    /\ \A ev \in good, occ \in Occs : ServerForm(WithExdate(ev, occ)) \in good

(* What a handler at label l has of its request, and of the server.        *)
Asked(l, m, good) ==
    /\ l \in {"decide", "search", "commit", "mark", "reply"} => m.range \in Ranges
    /\ l \in NeedsEvent => m.ev \in Payloads
    /\ l \in {"addLookup", "addSave", "exdDb"} => m.ev \in Payloads \cup {NoEvent}
    /\ l \in {"addLookup", "addSave"} => m.occ \in Occs
    /\ l = "addSave" => m.master \in good

AllAsked(good) == \A p \in Procs : Asked(pc[p], mem[p], good)

(* What the server holds is in good.                                       *)
Holds(good) == \A u \in Uids : server[u] # NoEvent => server[u] \in good

StaysIn(good) == Holds(good) /\ AllAsked(good)

-----------------------------------------------------------------------------
(* Uids.                                                                   *)

(* A memory stays known while uids are issued.                             *)
LEMMA KnownGrows ==
  ASSUME NEW l, NEW m, NEW old, NEW new, old \subseteq new, Known(l, m, old)
  PROVE  Known(l, m, new)
  BY DEF Known, RowsAmong, EventsAmong

(* A blank memory holds no uid.                                            *)
LEMMA BlankKnown ==
  ASSUME NEW uids
  PROVE  Known("idle", Blank, uids)
  BY DEF Known, RowsAmong, EventsAmong, NeedsUid, Blank, NoRows, NoEvents

(* A request that writes begins with the uid it names.                     *)
LEMMA RequestKnown ==
  ASSUME NEW l \in {"createSave", "updateLookup", "deleteSave", "addLookup"}, NEW m, NEW uids,
         m.seen = NoRows, m.found = NoEvents, l = "createSave" \/ m.uid \in uids
  PROVE  Known(l, m, uids)
  BY DEF Known, RowsAmong, EventsAmong, NeedsUid, NoRows, NoEvents

(* A step of one process with a known memory keeps every memory known.     *)
LEMMA KnownStep ==
  ASSUME TypeInv, AllKnown, NEW p \in Procs, NEW l, NEW m,
         pc' = [pc EXCEPT ![p] = l], mem' = [mem EXCEPT ![p] = m], issued \subseteq issued',
         Known(l, m, issued')
  PROVE  AllKnown'
<1>1. pc \in [Procs -> Label] /\ mem \in [Procs -> Memory]
  BY DEF TypeInv, TypeOK
<1> SUFFICES ASSUME NEW q \in Procs PROVE Known(pc'[q], mem'[q], issued')
  BY DEF AllKnown
<1>2. CASE q = p
  BY <1>1, <1>2
<1>3. CASE q # p
  <2>1. pc'[q] = pc[q] /\ mem'[q] = mem[q]
    BY <1>1, <1>3
  <2>2. Known(pc[q], mem[q], issued)
    BY DEF AllKnown
  <2> QED
    BY <2>1, <2>2, KnownGrows
<1> QED
  BY <1>2, <1>3

(* The same for a handler that returns.                                    *)
LEMMA FinishKnown ==
  ASSUME TypeInv, AllKnown, NEW p \in Procs, NEW l, Finish(p, l), issued \subseteq issued'
  PROVE  AllKnown'
  BY BlankKnown, KnownStep DEF Finish, Step

(* The same for a step that leaves the process's memory alone.             *)
LEMMA KeptKnown ==
  ASSUME TypeInv, AllKnown, NEW p \in Procs, NEW l, NEW k, Step(p, l, k),
         UNCHANGED <<mem, issued>>, Known(k, mem[p], issued)
  PROVE  AllKnown'
<1>1. mem' = [mem EXCEPT ![p] = mem[p]]
  BY DEF TypeInv, TypeOK
<1> QED
  BY <1>1, KnownStep DEF Step

(* An event is stored under a uid that is, or becomes, issued.             *)
LEMMA PutKnown ==
  ASSUME TypeInv, EventsAmong(server, issued), NEW u, NEW ev, PutOnServer(u, ev),
         issued \subseteq issued', u \in issued'
  PROVE  EventsAmong(server', issued')
  BY DEF EventsAmong, PutOnServer, TypeInv, TypeOK, EventTable

(* A save that is refused changes no store.                                *)
LEMMA SaveFailsKnown ==
  ASSUME TypeInv, UidsKnown, NEW p \in Procs, NEW l, SaveFails(p, l)
  PROVE  UidsKnown'
<1>1. UNCHANGED <<server, rows, issued>>
  BY DEF SaveFails, stores, observers
<1>2. AllKnown'
  BY <1>1, FinishKnown DEF SaveFails, UidsKnown
<1> QED
  BY <1>1, <1>2 DEF UidsKnown

(* Every step of create_event holds issued uids.                           *)
LEMMA CreateKnown ==
  ASSUME TypeInv, UidsKnown, NEW p \in Procs,
         CreateBegin(p) \/ CreateSave(p) \/ CreateLost(p) \/ CreateFails(p) \/ CreateDb(p)
  PROVE  UidsKnown'
<1>t. rows \in RowTable /\ mem \in [Procs -> Memory] /\ mem[p] \in Memory /\ issued \subseteq Uids
  BY DEF TypeInv, TypeOK
<1>k. /\ EventsAmong(server, issued) /\ RowsAmong(rows, issued) /\ AllKnown
      /\ Known(pc[p], mem[p], issued)
  BY DEF UidsKnown, AllKnown
<1>1. CASE CreateBegin(p)
  <2>1. PICK ev \in Payloads : mem' = [mem EXCEPT ![p] = [Blank EXCEPT !.ev = ev]]
    BY <1>1 DEF CreateBegin
  <2> DEFINE m == [Blank EXCEPT !.ev = ev]
  <2>2. m.seen = NoRows /\ m.found = NoEvents
    BY DEF Blank
  <2>3. pc' = [pc EXCEPT ![p] = "createSave"] /\ mem' = [mem EXCEPT ![p] = m]
        /\ UNCHANGED <<server, rows, issued>>
    BY <1>1, <2>1 DEF CreateBegin, stores, observers
  <2> HIDE DEF m
  <2>4. Known("createSave", m, issued')
    BY <2>2, RequestKnown
  <2>5. AllKnown'
    BY <1>k, <2>3, <2>4, KnownStep
  <2> QED
    BY <1>k, <2>3, <2>5 DEF UidsKnown
<1>2. CASE CreateSave(p)
  <2>1. PICK u \in Uids \ issued :
          /\ PutOnServer(u, ServerForm(mem[p].ev)) /\ issued' = issued \cup {u}
          /\ mem' = [mem EXCEPT ![p].new = u]
    BY <1>2 DEF CreateSave
  <2> DEFINE m == [mem[p] EXCEPT !.new = u]
  <2>2. m.new = u /\ m.seen = mem[p].seen /\ m.found = mem[p].found
    BY <1>t DEF Memory
  <2>3. pc' = [pc EXCEPT ![p] = "createDb"] /\ mem' = [mem EXCEPT ![p] = m] /\ UNCHANGED rows
    BY <1>2, <1>t, <2>1 DEF CreateSave, Step
  <2> HIDE DEF m
  <2>4. Known("createDb", m, issued')
    BY <1>k, <2>1, <2>2 DEF Known, RowsAmong, EventsAmong, NeedsUid
  <2>5. AllKnown' /\ EventsAmong(server', issued')
    BY <1>k, <2>1, <2>3, <2>4, KnownStep, PutKnown
  <2> QED
    BY <1>k, <2>1, <2>3, <2>5 DEF UidsKnown, RowsAmong
<1>3. CASE CreateLost(p)
  <2>1. PICK u \in Uids \ issued : PutOnServer(u, ServerForm(mem[p].ev)) /\ issued' = issued \cup {u}
    BY <1>3 DEF CreateLost
  <2>2. Finish(p, "createSave") /\ UNCHANGED rows
    BY <1>3 DEF CreateLost
  <2>3. AllKnown' /\ EventsAmong(server', issued')
    BY <1>k, <2>1, <2>2, FinishKnown, PutKnown
  <2> QED
    BY <1>k, <2>1, <2>2, <2>3 DEF UidsKnown, RowsAmong
<1>4. CASE CreateFails(p)
  BY <1>4, SaveFailsKnown DEF CreateFails
<1>5. CASE CreateDb(p)
  <2>1. PICK id \in Ids : rows' = UpsertRow(rows, mem[p].new, mem[p].ev, id, now)
    BY <1>5 DEF CreateDb
  <2>2. Finish(p, "createDb") /\ pc[p] = "createDb" /\ UNCHANGED <<server, issued>>
    BY <1>5 DEF CreateDb, Finish, Step, observers
  <2>3. mem[p].new \in issued
    BY <1>k, <2>2 DEF Known
  <2>4. RowsAmong(rows', issued)
    BY <1>t, <1>k, <2>1, <2>3 DEF RowsAmong, UpsertRow, RowTable
  <2>5. AllKnown'
    BY <1>k, <2>2, FinishKnown
  <2> QED
    BY <1>k, <2>2, <2>4, <2>5 DEF UidsKnown
<1> QED
  BY <1>1, <1>2, <1>3, <1>4, <1>5

(* Every step of update_event holds issued uids.                           *)
LEMMA UpdateKnown ==
  ASSUME TypeInv, UidsKnown, NEW p \in Procs,
         \/ UpdateBegin(p) \/ UpdateFound(p) \/ UpdateNotFound(p)
         \/ UpdateSave(p) \/ UpdateLost(p) \/ UpdateFails(p) \/ UpdateDb(p)
  PROVE  UidsKnown'
<1>t. rows \in RowTable /\ mem \in [Procs -> Memory] /\ mem[p] \in Memory /\ issued \subseteq Uids
  BY DEF TypeInv, TypeOK
<1>k. /\ EventsAmong(server, issued) /\ RowsAmong(rows, issued) /\ AllKnown
      /\ Known(pc[p], mem[p], issued)
  BY DEF UidsKnown, AllKnown
<1>1. CASE UpdateBegin(p)
  <2>1. PICK u \in issued, ev \in Payloads :
          mem' = [mem EXCEPT ![p] = [Blank EXCEPT !.uid = u, !.ev = ev]]
    BY <1>1 DEF UpdateBegin
  <2> DEFINE m == [Blank EXCEPT !.uid = u, !.ev = ev]
  <2>2. m.seen = NoRows /\ m.found = NoEvents /\ m.uid = u
    BY DEF Blank
  <2>3. pc' = [pc EXCEPT ![p] = "updateLookup"] /\ mem' = [mem EXCEPT ![p] = m]
        /\ UNCHANGED <<server, rows, issued>>
    BY <1>1, <2>1 DEF UpdateBegin, stores, observers
  <2> HIDE DEF m
  <2>4. Known("updateLookup", m, issued')
    BY <2>2, <2>3, RequestKnown
  <2>5. AllKnown'
    BY <1>k, <2>3, <2>4, KnownStep
  <2> QED
    BY <1>k, <2>3, <2>5 DEF UidsKnown
<1>2. CASE UpdateFound(p)
  <2>1. Step(p, "updateLookup", "updateSave") /\ UNCHANGED <<server, rows, mem, issued>>
    BY <1>2 DEF UpdateFound, stores, observers
  <2>2. Known("updateSave", mem[p], issued)
    BY <1>k, <2>1 DEF Step, Known, NeedsUid
  <2>3. AllKnown'
    BY <1>k, <2>1, <2>2, KeptKnown
  <2> QED
    BY <1>k, <2>1, <2>3 DEF UidsKnown
<1>3. CASE UpdateNotFound(p)
  <2>1. Finish(p, "updateLookup") /\ UNCHANGED <<server, rows, issued>>
    BY <1>3 DEF UpdateNotFound, stores, observers
  <2>2. AllKnown'
    BY <1>k, <2>1, FinishKnown
  <2> QED
    BY <1>k, <2>1, <2>2 DEF UidsKnown
<1>4. CASE UpdateSave(p)
  <2>1. Step(p, "updateSave", "updateDb") /\ PutOnServer(mem[p].uid, ServerForm(mem[p].ev))
        /\ UNCHANGED <<rows, mem, issued>>
    BY <1>4 DEF UpdateSave
  <2>2. Known("updateDb", mem[p], issued) /\ mem[p].uid \in issued'
    BY <1>k, <2>1 DEF Step, Known, NeedsUid
  <2>3. AllKnown' /\ EventsAmong(server', issued')
    BY <1>k, <2>1, <2>2, KeptKnown, PutKnown
  <2> QED
    BY <1>k, <2>1, <2>3 DEF UidsKnown
<1>5. CASE UpdateLost(p)
  <2>1. Finish(p, "updateSave") /\ PutOnServer(mem[p].uid, ServerForm(mem[p].ev))
        /\ UNCHANGED <<rows, issued>>
    BY <1>5 DEF UpdateLost
  <2>2. mem[p].uid \in issued'
    BY <1>k, <2>1 DEF Finish, Step, Known, NeedsUid
  <2>3. AllKnown' /\ EventsAmong(server', issued')
    BY <1>k, <2>1, <2>2, FinishKnown, PutKnown
  <2> QED
    BY <1>k, <2>1, <2>3 DEF UidsKnown
<1>6. CASE UpdateFails(p)
  BY <1>6, SaveFailsKnown DEF UpdateFails
<1>7. CASE UpdateDb(p)
  <2>1. Finish(p, "updateDb") /\ rows' = UpdateRow(rows, mem[p].uid, mem[p].ev, now)
        /\ UNCHANGED <<server, issued>>
    BY <1>7 DEF UpdateDb, observers
  <2>2. RowsAmong(rows', issued)
    BY <1>t, <1>k, <2>1 DEF RowsAmong, UpdateRow, RowTable
  <2>3. AllKnown'
    BY <1>k, <2>1, FinishKnown
  <2> QED
    BY <1>k, <2>1, <2>2, <2>3 DEF UidsKnown
<1> QED
  BY <1>1, <1>2, <1>3, <1>4, <1>5, <1>6, <1>7

(* Every step of delete_event holds issued uids.                           *)
LEMMA DeleteKnown ==
  ASSUME TypeInv, UidsKnown, NEW p \in Procs,
         DeleteBegin(p) \/ DeleteSave(p) \/ DeleteLost(p) \/ DeleteFails(p) \/ DeleteDb(p)
  PROVE  UidsKnown'
<1>t. /\ server \in EventTable /\ rows \in RowTable
      /\ mem \in [Procs -> Memory] /\ mem[p] \in Memory /\ issued \subseteq Uids
  BY DEF TypeInv, TypeOK
<1>k. /\ EventsAmong(server, issued) /\ RowsAmong(rows, issued) /\ AllKnown
      /\ Known(pc[p], mem[p], issued)
  BY DEF UidsKnown, AllKnown
<1>1. CASE DeleteBegin(p)
  <2>1. PICK u \in issued : mem' = [mem EXCEPT ![p] = [Blank EXCEPT !.uid = u]]
    BY <1>1 DEF DeleteBegin
  <2> DEFINE m == [Blank EXCEPT !.uid = u]
  <2>2. m.seen = NoRows /\ m.found = NoEvents /\ m.uid = u
    BY DEF Blank
  <2>3. pc' = [pc EXCEPT ![p] = "deleteSave"] /\ mem' = [mem EXCEPT ![p] = m]
        /\ UNCHANGED <<server, rows, issued>>
    BY <1>1, <2>1 DEF DeleteBegin, stores, observers
  <2> HIDE DEF m
  <2>4. Known("deleteSave", m, issued')
    BY <2>2, <2>3, RequestKnown
  <2>5. AllKnown'
    BY <1>k, <2>3, <2>4, KnownStep
  <2> QED
    BY <1>k, <2>3, <2>5 DEF UidsKnown
<1>2. ASSUME server' = [server EXCEPT ![mem[p].uid] = NoEvent] PROVE EventsAmong(server', issued)
  BY <1>2, <1>t, <1>k DEF EventsAmong, EventTable
<1>3. CASE DeleteSave(p)
  <2>1. Step(p, "deleteSave", "deleteDb") /\ EventsAmong(server', issued)
        /\ UNCHANGED <<rows, mem, issued>>
    BY <1>3, <1>2 DEF DeleteSave, observers
  <2>2. Known("deleteDb", mem[p], issued)
    BY <1>k, <2>1 DEF Step, Known, NeedsUid
  <2>3. AllKnown'
    BY <1>k, <2>1, <2>2, KeptKnown
  <2> QED
    BY <1>k, <2>1, <2>3 DEF UidsKnown
<1>4. CASE DeleteLost(p)
  <2>1. Finish(p, "deleteSave") /\ EventsAmong(server', issued) /\ UNCHANGED <<rows, issued>>
    BY <1>4, <1>2 DEF DeleteLost, observers
  <2>2. AllKnown'
    BY <1>k, <2>1, FinishKnown
  <2> QED
    BY <1>k, <2>1, <2>2 DEF UidsKnown
<1>5. CASE DeleteFails(p)
  BY <1>5, SaveFailsKnown DEF DeleteFails
<1>6. CASE DeleteDb(p)
  <2>1. Finish(p, "deleteDb") /\ rows' = [rows EXCEPT ![mem[p].uid] = NoRow]
        /\ UNCHANGED <<server, issued>>
    BY <1>6 DEF DeleteDb, observers
  <2>2. RowsAmong(rows', issued)
    BY <1>t, <1>k, <2>1 DEF RowsAmong, RowTable
  <2>3. AllKnown'
    BY <1>k, <2>1, FinishKnown
  <2> QED
    BY <1>k, <2>1, <2>2, <2>3 DEF UidsKnown
<1> QED
  BY <1>1, <1>3, <1>4, <1>5, <1>6

(* Every step of the occurrence handlers holds issued uids.                *)
LEMMA OccurrenceKnown ==
  ASSUME TypeInv, UidsKnown, NEW p \in Procs, OccurrenceNext(p)
  PROVE  UidsKnown'
<1>t. rows \in RowTable /\ mem \in [Procs -> Memory] /\ mem[p] \in Memory /\ issued \subseteq Uids
  BY DEF TypeInv, TypeOK
<1>k. /\ EventsAmong(server, issued) /\ RowsAmong(rows, issued) /\ AllKnown
      /\ Known(pc[p], mem[p], issued)
  BY DEF UidsKnown, AllKnown
<1>1. CASE ExceptionBegin(p)
  <2>1. PICK u \in issued, occ \in Occs, ev \in Payloads :
          mem' = [mem EXCEPT ![p] = [Blank EXCEPT !.uid = u, !.occ = occ, !.ev = ev]]
    BY <1>1 DEF ExceptionBegin
  <2> DEFINE m == [Blank EXCEPT !.uid = u, !.occ = occ, !.ev = ev]
  <2>2. m.seen = NoRows /\ m.found = NoEvents /\ m.uid = u
    BY DEF Blank
  <2>3. pc' = [pc EXCEPT ![p] = "addLookup"] /\ mem' = [mem EXCEPT ![p] = m]
        /\ UNCHANGED <<server, rows, issued>>
    BY <1>1, <2>1 DEF ExceptionBegin, stores, observers
  <2> HIDE DEF m
  <2>4. Known("addLookup", m, issued')
    BY <2>2, <2>3, RequestKnown
  <2>5. AllKnown'
    BY <1>k, <2>3, <2>4, KnownStep
  <2> QED
    BY <1>k, <2>3, <2>5 DEF UidsKnown
<1>2. CASE OccurrenceBegin(p)
  <2>1. PICK u \in issued, occ \in Occs :
          mem' = [mem EXCEPT ![p] = [Blank EXCEPT !.uid = u, !.occ = occ]]
    BY <1>2 DEF OccurrenceBegin
  <2> DEFINE m == [Blank EXCEPT !.uid = u, !.occ = occ]
  <2>2. m.seen = NoRows /\ m.found = NoEvents /\ m.uid = u
    BY DEF Blank
  <2>3. pc' = [pc EXCEPT ![p] = "addLookup"] /\ mem' = [mem EXCEPT ![p] = m]
        /\ UNCHANGED <<server, rows, issued>>
    BY <1>2, <2>1 DEF OccurrenceBegin, stores, observers
  <2> HIDE DEF m
  <2>4. Known("addLookup", m, issued')
    BY <2>2, <2>3, RequestKnown
  <2>5. AllKnown'
    BY <1>k, <2>3, <2>4, KnownStep
  <2> QED
    BY <1>k, <2>3, <2>5 DEF UidsKnown
<1>3. CASE MasterFound(p)
  <2> DEFINE m == [mem[p] EXCEPT !.master = server[mem[p].uid]]
  <2>1. m.seen = mem[p].seen /\ m.found = mem[p].found /\ m.uid = mem[p].uid
    BY <1>t DEF Memory
  <2>2. pc' = [pc EXCEPT ![p] = "addSave"] /\ mem' = [mem EXCEPT ![p] = m]
        /\ UNCHANGED <<server, rows, issued>> /\ pc[p] = "addLookup"
    BY <1>3, <1>t DEF MasterFound, Step, stores, observers
  <2> HIDE DEF m
  <2>3. Known("addSave", m, issued')
    BY <1>k, <2>1, <2>2 DEF Known, NeedsUid
  <2>4. AllKnown'
    BY <1>k, <2>2, <2>3, KnownStep
  <2> QED
    BY <1>k, <2>2, <2>4 DEF UidsKnown
<1>4. CASE MasterNotFound(p)
  <2>1. Finish(p, "addLookup") /\ UNCHANGED <<server, rows, issued>>
    BY <1>4 DEF MasterNotFound, stores, observers
  <2>2. AllKnown'
    BY <1>k, <2>1, FinishKnown
  <2> QED
    BY <1>k, <2>1, <2>2 DEF UidsKnown
<1>5. CASE MasterSave(p)
  <2> DEFINE master == WithExdate(mem[p].master, mem[p].occ)
             m == [mem[p] EXCEPT !.master = master]
             l == IF mem[p].ev = NoEvent THEN "exdDb" ELSE "excSave"
  <2>1. /\ m.seen = mem[p].seen /\ m.found = mem[p].found /\ m.uid = mem[p].uid /\ m.ev = mem[p].ev
    BY <1>t DEF Memory
  <2>2. pc' = [pc EXCEPT ![p] = l] /\ mem' = [mem EXCEPT ![p] = m]
        /\ UNCHANGED <<rows, issued>> /\ pc[p] = "addSave"
    BY <1>5, <1>t DEF MasterSave, Step
  <2>3. PutOnServer(mem[p].uid, ServerForm(master)) /\ mem[p].uid \in issued'
    BY <1>5, <1>k, <2>2 DEF MasterSave, Known, NeedsUid
  <2> HIDE DEF m, master
  <2>4. Known(l, m, issued')
    BY <1>k, <2>1, <2>2 DEF Known, NeedsUid
  <2> HIDE DEF l
  <2>5. AllKnown' /\ EventsAmong(server', issued')
    BY <1>k, <2>2, <2>3, <2>4, KnownStep, PutKnown
  <2> QED
    BY <1>k, <2>2, <2>5 DEF UidsKnown
<1>6. CASE MasterLost(p)
  <2>1. Finish(p, "addSave") /\ UNCHANGED <<rows, issued>>
        /\ PutOnServer(mem[p].uid, ServerForm(WithExdate(mem[p].master, mem[p].occ)))
    BY <1>6 DEF MasterLost
  <2>2. mem[p].uid \in issued'
    BY <1>k, <2>1 DEF Finish, Step, Known, NeedsUid
  <2>3. AllKnown' /\ EventsAmong(server', issued')
    BY <1>k, <2>1, <2>2, FinishKnown, PutKnown
  <2> QED
    BY <1>k, <2>1, <2>3 DEF UidsKnown
<1>7. CASE MasterFails(p)
  BY <1>7, SaveFailsKnown DEF MasterFails
<1>8. CASE ExceptionSave(p)
  <2>1. PICK u \in Uids \ issued :
          /\ PutOnServer(u, Standalone(mem[p].ev)) /\ issued' = issued \cup {u}
          /\ mem' = [mem EXCEPT ![p].new = u]
    BY <1>8 DEF ExceptionSave
  <2> DEFINE m == [mem[p] EXCEPT !.new = u]
  <2>2. m.new = u /\ m.seen = mem[p].seen /\ m.found = mem[p].found /\ m.uid = mem[p].uid
    BY <1>t DEF Memory
  <2>3. pc' = [pc EXCEPT ![p] = "exdDb"] /\ mem' = [mem EXCEPT ![p] = m] /\ UNCHANGED rows
        /\ pc[p] = "excSave"
    BY <1>8, <1>t, <2>1 DEF ExceptionSave, Step
  <2> HIDE DEF m
  <2>4. Known("exdDb", m, issued')
    BY <1>k, <2>1, <2>2, <2>3 DEF Known, RowsAmong, EventsAmong, NeedsUid
  <2>5. AllKnown' /\ EventsAmong(server', issued')
    BY <1>k, <2>1, <2>3, <2>4, KnownStep, PutKnown
  <2> QED
    BY <1>k, <2>1, <2>3, <2>5 DEF UidsKnown, RowsAmong
<1>9. CASE ExceptionLost(p)
  <2>1. PICK u \in Uids \ issued : PutOnServer(u, Standalone(mem[p].ev)) /\ issued' = issued \cup {u}
    BY <1>9 DEF ExceptionLost
  <2>2. Finish(p, "excSave") /\ UNCHANGED rows
    BY <1>9 DEF ExceptionLost
  <2>3. AllKnown' /\ EventsAmong(server', issued')
    BY <1>k, <2>1, <2>2, FinishKnown, PutKnown
  <2> QED
    BY <1>k, <2>1, <2>2, <2>3 DEF UidsKnown, RowsAmong
<1>10. CASE ExceptionFails(p)
  BY <1>10, SaveFailsKnown DEF ExceptionFails
<1>11. CASE ExdateDb(p)
  <2>1. rows' = UpdateExdate(rows, mem[p].uid, mem[p].master.exdate, now)
        /\ UNCHANGED <<server, issued>>
    BY <1>11 DEF ExdateDb, observers
  <2>2. RowsAmong(rows', issued)
    BY <1>t, <1>k, <2>1 DEF RowsAmong, UpdateExdate, RowTable
  <2>3. CASE mem[p].ev = NoEvent
    <3>1. AllKnown'
      BY <1>11, <1>k, <2>1, <2>3, FinishKnown DEF ExdateDb
    <3> QED
      BY <1>k, <2>1, <2>2, <3>1 DEF UidsKnown
  <2>4. CASE mem[p].ev # NoEvent
    <3>1. Step(p, "exdDb", "excDb") /\ UNCHANGED mem
      BY <1>11, <2>4 DEF ExdateDb
    <3>2. Known("excDb", mem[p], issued)
      BY <1>k, <2>4, <3>1 DEF Step, Known, NeedsUid
    <3>3. AllKnown'
      BY <1>k, <2>1, <3>1, <3>2, KeptKnown
    <3> QED
      BY <1>k, <2>1, <2>2, <3>3 DEF UidsKnown
  <2> QED
    BY <2>3, <2>4
<1>12. CASE ExceptionDb(p)
  <2>1. PICK id \in Ids : rows' = UpsertRow(rows, mem[p].new, Standalone(mem[p].ev), id, now)
    BY <1>12 DEF ExceptionDb
  <2>2. Finish(p, "excDb") /\ pc[p] = "excDb" /\ UNCHANGED <<server, issued>>
    BY <1>12 DEF ExceptionDb, Finish, Step, observers
  <2>3. mem[p].new \in issued
    BY <1>k, <2>2 DEF Known
  <2>4. RowsAmong(rows', issued)
    BY <1>t, <1>k, <2>1, <2>3 DEF RowsAmong, UpsertRow, RowTable
  <2>5. AllKnown'
    BY <1>k, <2>2, FinishKnown
  <2> QED
    BY <1>k, <2>2, <2>4, <2>5 DEF UidsKnown
<1> QED
  BY <1>1, <1>2, <1>3, <1>4, <1>5, <1>6, <1>7, <1>8, <1>9, <1>10, <1>11, <1>12 DEF OccurrenceNext

(* The transaction of a sync leaves rows of issued uids, and deletes only  *)
(* rows that were read and whose events were not found.                    *)
LEMMA CommitKnown ==
  ASSUME NEW table \in RowTable, NEW seen \in RowTable, NEW found \in EventTable,
         NEW ids \in [NewRows(table, seen, found) -> Ids], NEW time \in Nat, NEW uids, NEW result,
         RowsAmong(table, uids), EventsAmong(found, uids),
         result = OwnCleanup(OwnUpdate(BulkCreate(table, seen, found, ids, time), seen, found),
                             seen, found)
  PROVE  /\ RowsAmong(result, uids)
         /\ \A u \in Uids : table[u] # NoRow /\ result[u] = NoRow => seen[u] # NoRow /\ found[u] = NoEvent
<1> DEFINE created == BulkCreate(table, seen, found, ids, time)
           updated == OwnUpdate(created, seen, found)
<1>1. ASSUME NEW u \in Uids, created[u] # NoRow PROVE u \in uids
  BY <1>1 DEF BulkCreate, RowsAmong, EventsAmong
<1>2. ASSUME NEW u \in Uids, table[u] # NoRow PROVE created[u] # NoRow
  <2>1. CASE found[u] = NoEvent \/ seen[u] # NoRow
    BY <1>2, <2>1 DEF BulkCreate
  <2>2. CASE ~ (found[u] = NoEvent \/ seen[u] # NoRow)
    <3>1. table[u] \in Row /\ found[u] \in Event
      BY <1>2, <2>2 DEF RowTable, EventTable
    <3>2. created[u] = [id |-> table[u].id, ev |-> found[u], synced |-> time]
      BY <1>2, <2>2 DEF BulkCreate
    <3>3. created[u] \in Row
      BY <3>1, <3>2 DEF Row
    <3> QED
      BY <3>3, NothingAssumption
  <2> QED
    BY <2>1, <2>2
<1> HIDE DEF created
<1>3. ASSUME NEW u \in Uids PROVE updated[u] # NoRow <=> created[u] # NoRow
  BY DEF OwnUpdate, SameRow
<1>4. result = OwnCleanup(updated, seen, found)
  BY DEF updated, created
<1> HIDE DEF updated
<1>5. RowsAmong(result, uids)
  BY <1>1, <1>3, <1>4 DEF RowsAmong, OwnCleanup
<1>6. ASSUME NEW u \in Uids, table[u] # NoRow, result[u] = NoRow
      PROVE  seen[u] # NoRow /\ found[u] = NoEvent
  <2>1. updated[u] # NoRow
    BY <1>2, <1>3, <1>6
  <2> QED
    BY <1>4, <1>6, <2>1 DEF OwnCleanup, SameRow
<1> QED
  BY <1>5, <1>6

(* Every step of get_events holds issued uids.                             *)
LEMMA GetKnown ==
  ASSUME TypeInv, KeysApart, UidsKnown, NEW p \in Procs, GetNext(p)
  PROVE  UidsKnown'
<1>t. /\ server \in EventTable /\ rows \in RowTable /\ now \in Nat
      /\ mem \in [Procs -> Memory] /\ mem[p] \in Memory /\ issued \subseteq Uids
  BY DEF TypeInv, TypeOK
<1>k. /\ EventsAmong(server, issued) /\ RowsAmong(rows, issued) /\ AllKnown
      /\ Known(pc[p], mem[p], issued)
  BY DEF UidsKnown, AllKnown
<1>1. CASE GetBegin(p)
  <2>1. PICK r \in Ranges, f \in Forces :
          mem' = [mem EXCEPT ![p] = [Blank EXCEPT !.range = r, !.force = f,
                                                  !.seen = CachedEvents(rows, r)]]
    BY <1>1 DEF GetBegin
  <2> DEFINE m == [Blank EXCEPT !.range = r, !.force = f, !.seen = CachedEvents(rows, r)]
  <2>2. m.seen = CachedEvents(rows, r) /\ m.found = NoEvents
    BY DEF Blank
  <2>3. RowsAmong(CachedEvents(rows, r), issued)
    BY <1>k DEF RowsAmong, CachedEvents
  <2>4. pc' = [pc EXCEPT ![p] = "decide"] /\ mem' = [mem EXCEPT ![p] = m]
        /\ UNCHANGED <<server, rows, issued>>
    BY <1>1, <2>1 DEF GetBegin, stores, observers
  <2> HIDE DEF m
  <2>5. Known("decide", m, issued')
    BY <2>2, <2>3, <2>4 DEF Known, EventsAmong, NoEvents, NeedsUid
  <2>6. AllKnown'
    BY <1>k, <2>4, <2>5, KnownStep
  <2> QED
    BY <1>k, <2>4, <2>6 DEF UidsKnown
<1>2. CASE GetDecide(p)
  <2> DEFINE sync == ShouldSync(mem[p].force, mem[p].seen, mem[p].range, marks[WorkerOf[p]], now)
             l == IF sync THEN "search" ELSE "reply"
             m == [mem[p] EXCEPT !.sync = sync, !.source = IF sync THEN "none" ELSE "cache"]
  <2>1. m.seen = mem[p].seen /\ m.found = mem[p].found
    BY <1>t DEF Memory
  <2>2. pc' = [pc EXCEPT ![p] = l] /\ mem' = [mem EXCEPT ![p] = m]
        /\ UNCHANGED <<server, rows, issued>>
    BY <1>2 DEF GetDecide, Step, stores, observers
  <2> HIDE DEF m, sync
  <2>3. Known(l, m, issued')
    BY <1>k, <2>1, <2>2 DEF Known, NeedsUid
  <2> HIDE DEF l
  <2>4. AllKnown'
    BY <1>k, <2>2, <2>3, KnownStep
  <2> QED
    BY <1>k, <2>2, <2>4 DEF UidsKnown
<1>3. ASSUME NEW l, ServeCached(p, l) PROVE UidsKnown'
  <2> DEFINE m == [mem[p] EXCEPT !.source = "cache"]
  <2>1. m.seen = mem[p].seen /\ m.found = mem[p].found
    BY <1>t DEF Memory
  <2>2. pc' = [pc EXCEPT ![p] = "reply"] /\ mem' = [mem EXCEPT ![p] = m]
        /\ UNCHANGED <<server, rows, issued>>
    BY <1>3, <1>t DEF ServeCached, Step, stores, observers
  <2> HIDE DEF m
  <2>3. Known("reply", m, issued')
    BY <1>k, <2>1, <2>2 DEF Known, NeedsUid
  <2>4. AllKnown'
    BY <1>k, <2>2, <2>3, KnownStep
  <2> QED
    BY <1>k, <2>2, <2>4 DEF UidsKnown
<1>4. ASSUME NEW found, EventsAmong(found, issued), Searched(p, found) PROVE UidsKnown'
  <2> DEFINE seen == MergeFound(mem[p].seen, found, now)
             m == [mem[p] EXCEPT !.found = found, !.stamp = now, !.seen = seen]
  <2>1. m.seen = seen /\ m.found = found
    BY <1>t DEF Memory
  <2>2. pc' = [pc EXCEPT ![p] = "commit"] /\ mem' = [mem EXCEPT ![p] = m]
        /\ UNCHANGED <<server, rows, issued>>
    BY <1>4, <1>t DEF Searched, Step, stores
  <2>3. RowsAmong(seen, issued)
    BY <1>k DEF RowsAmong, Known, MergeFound
  <2> HIDE DEF m, seen
  <2>4. Known("commit", m, issued')
    BY <1>4, <2>1, <2>2, <2>3 DEF Known, NeedsUid
  <2>5. AllKnown'
    BY <1>k, <2>2, <2>4, KnownStep
  <2> QED
    BY <1>k, <2>2, <2>5 DEF UidsKnown
<1>5. CASE GetCommit(p)
  <2> DEFINE m == mem[p]
  <2>1. PICK ids \in [NewRows(rows, m.seen, m.found) -> Ids] :
          rows' = OwnCleanup(OwnUpdate(BulkCreate(rows, m.seen, m.found, ids, m.stamp), m.seen, m.found),
                             m.seen, m.found)
    BY <1>5, CommitByUid
  <2>2. m.seen \in RowTable /\ m.found \in EventTable /\ m.stamp \in Nat /\ EventsAmong(m.found, issued)
    BY <1>t, <1>k DEF Memory, Known
  <2>3. RowsAmong(rows', issued)
    BY <1>t, <1>k, <2>1, <2>2, CommitKnown
  <2>4. Step(p, "commit", "mark") /\ UNCHANGED <<server, mem, issued>>
    BY <1>5 DEF GetCommit, observers
  <2>5. Known("mark", mem[p], issued)
    BY <1>k DEF Known, NeedsUid
  <2>6. AllKnown'
    BY <1>k, <2>4, <2>5, KeptKnown
  <2> QED
    BY <1>k, <2>3, <2>4, <2>6 DEF UidsKnown
<1>6. CASE GetMark(p)
  <2> DEFINE m == [mem[p] EXCEPT !.source = "server"]
  <2>1. m.seen = mem[p].seen /\ m.found = mem[p].found
    BY <1>t DEF Memory
  <2>2. pc' = [pc EXCEPT ![p] = "reply"] /\ mem' = [mem EXCEPT ![p] = m]
        /\ UNCHANGED <<server, rows, issued>>
    BY <1>6, <1>t DEF GetMark, Step, observers
  <2> HIDE DEF m
  <2>3. Known("reply", m, issued')
    BY <1>k, <2>1, <2>2 DEF Known, NeedsUid
  <2>4. AllKnown'
    BY <1>k, <2>2, <2>3, KnownStep
  <2> QED
    BY <1>k, <2>2, <2>4 DEF UidsKnown
<1>7. CASE GetReply(p)
  <2>1. Finish(p, "reply") /\ UNCHANGED <<server, rows, issued>>
        /\ \A q \in Procs : q # p => absent'[q] = absent[q]
    BY <1>7 DEF GetReply, stores
  <2>2. AllKnown'
    BY <1>k, <2>1, FinishKnown
  <2> QED
    BY <1>k, <2>1, <2>2 DEF UidsKnown
<1>8. EventsAmong(SearchHits(server, mem[p].range), issued) /\ EventsAmong(NoEvents, issued)
  BY <1>k DEF EventsAmong, SearchHits, NoEvents
<1> QED
  BY <1>1, <1>2, <1>3, <1>4, <1>5, <1>6, <1>7, <1>8
  DEF GetNext, GetConnectFails, GetCommitFails, GetSearch, GetSearchFails

(* The environment stores events only under issued uids.                   *)
LEMMA EnvironmentKnown ==
  ASSUME TypeInv, UidsKnown, Environment
  PROVE  UidsKnown'
<1>t. server \in EventTable /\ pc \in [Procs -> Label] /\ mem \in [Procs -> Memory]
  BY DEF TypeInv, TypeOK
<1>k. EventsAmong(server, issued) /\ RowsAmong(rows, issued) /\ AllKnown
  BY DEF UidsKnown
<1>1. CASE Tick
  BY <1>1, <1>k DEF Tick, UidsKnown, AllKnown, stores, control
<1>2. CASE ExternalPut
  <2>1. PICK u \in Uids, ev \in ExternalEvents : PutOnServer(u, ev) /\ issued' = issued \cup {u}
    BY <1>2 DEF ExternalPut
  <2>2. UNCHANGED <<rows, pc, mem>>
    BY <1>2 DEF ExternalPut, control
  <2>3. EventsAmong(server', issued')
    BY <1>k, <2>1, PutKnown
  <2>4. ASSUME NEW q \in Procs PROVE Known(pc'[q], mem'[q], issued')
    BY <1>k, <2>1, <2>2, KnownGrows DEF AllKnown
  <2> QED
    BY <1>k, <2>1, <2>2, <2>3, <2>4 DEF UidsKnown, AllKnown, RowsAmong
<1>3. CASE ExternalDelete
  <2>1. EventsAmong(server', issued)
    BY <1>3, <1>t, <1>k DEF ExternalDelete, EventsAmong, EventTable
  <2> QED
    BY <1>3, <1>k, <2>1 DEF ExternalDelete, UidsKnown, AllKnown, control
<1>4. ASSUME NEW w \in Workers, Crash(w) PROVE UidsKnown'
  <2>1. UNCHANGED <<server, rows, issued>>
    BY <1>4 DEF Crash
  <2>2. ASSUME NEW q \in Procs PROVE Known(pc'[q], mem'[q], issued')
    BY <1>4, <1>t, <1>k, <2>1, BlankKnown DEF Crash, AllKnown
  <2> QED
    BY <1>k, <2>1, <2>2 DEF UidsKnown, AllKnown
<1> QED
  BY <1>1, <1>2, <1>3, <1>4 DEF Environment

(* At the start the events on the server have their uids.                  *)
LEMMA InitKnown == Init => UidsKnown
<1> SUFFICES ASSUME Init PROVE UidsKnown
  OBVIOUS
<1>1. EventsAmong(server, issued)
  BY DEF Init, EventsAmong
<1>2. RowsAmong(rows, issued)
  BY ClientsAssumption DEF Init, RowsAmong
<1>3. AllKnown
  BY BlankKnown DEF Init, AllKnown
<1> QED
  BY <1>1, <1>2, <1>3 DEF UidsKnown

(* Every step holds issued uids.                                           *)
LEMMA NextKnown == TypeInv /\ KeysApart /\ UidsKnown /\ [Next]_vars => UidsKnown'
<1> SUFFICES ASSUME TypeInv, KeysApart, UidsKnown, [Next]_vars PROVE UidsKnown'
  OBVIOUS
<1>1. CASE UNCHANGED vars
  BY <1>1 DEF vars, UidsKnown, AllKnown
<1>2. CASE Environment
  BY <1>2, EnvironmentKnown
<1>3. ASSUME NEW p \in Procs, GetNext(p) PROVE UidsKnown'
  BY <1>3, GetKnown
<1>4. ASSUME NEW p \in Procs, WriteNext(p) PROVE UidsKnown'
  BY <1>4, CreateKnown, UpdateKnown, DeleteKnown DEF WriteNext
<1>5. ASSUME NEW p \in Procs, OccurrenceNext(p) PROVE UidsKnown'
  BY <1>5, OccurrenceKnown
<1> QED
  BY <1>1, <1>2, <1>3, <1>4, <1>5 DEF Next

(* No handler, row or event has a uid that was not issued.                 *)
THEOREM UidsAlways == Spec => []UidsKnown
  BY InitKnown, NextKnown, TypesAlways, KeysAlways, PTL DEF Spec
-----------------------------------------------------------------------------
(* Contents.                                                               *)

(* A blank memory has asked for nothing.                                   *)
LEMMA BlankAsked ==
  ASSUME NEW good
  PROVE  Asked("idle", Blank, good)
  BY DEF Asked, NeedsEvent

(* A step of one process that leaves it with a memory that is as asked.    *)
LEMMA AskedStep ==
  ASSUME TypeInv, NEW good, AllAsked(good), NEW p \in Procs, NEW l, NEW m, Asked(l, m, good),
         pc' = [pc EXCEPT ![p] = l], mem' = [mem EXCEPT ![p] = m]
  PROVE  AllAsked(good)'
<1>1. pc \in [Procs -> Label] /\ mem \in [Procs -> Memory]
  BY DEF TypeInv, TypeOK
<1> SUFFICES ASSUME NEW q \in Procs PROVE Asked(pc'[q], mem'[q], good)
  BY DEF AllAsked
<1> QED
  BY <1>1 DEF AllAsked

(* The same for a handler that returns.                                    *)
LEMMA FinishAsked ==
  ASSUME TypeInv, NEW good, AllAsked(good), NEW p \in Procs, NEW l, Finish(p, l)
  PROVE  AllAsked(good)'
  BY BlankAsked, AskedStep DEF Finish, Step

(* The same for a step that leaves the process's memory alone.             *)
LEMMA KeptAsked ==
  ASSUME TypeInv, NEW good, AllAsked(good), NEW p \in Procs, NEW l, NEW k, Step(p, l, k), UNCHANGED mem,
         Asked(k, mem[p], good)
  PROVE  AllAsked(good)'
<1>1. mem' = [mem EXCEPT ![p] = mem[p]]
  BY DEF TypeInv, TypeOK
<1> QED
  BY <1>1, AskedStep DEF Step

(* A good event is stored, or an event is deleted.                         *)
LEMMA PutHolds ==
  ASSUME TypeInv, NEW good, Holds(good), NEW u, NEW ev,
         server' = [server EXCEPT ![u] = ev], ev = NoEvent \/ ev \in good
  PROVE  Holds(good)'
  BY DEF Holds, TypeInv, TypeOK, EventTable

(* Every step of get_events keeps what was asked.                          *)
LEMMA GetAsked ==
  ASSUME TypeInv, NEW good, AllAsked(good), NEW p \in Procs, GetNext(p)
  PROVE  AllAsked(good)' /\ UNCHANGED server
<1>t. mem \in [Procs -> Memory] /\ mem[p] \in Memory
  BY DEF TypeInv, TypeOK
<1>k. Asked(pc[p], mem[p], good)
  BY DEF AllAsked
<1>r. ASSUME NEW m, m.range \in Ranges, NEW l \in {"decide", "search", "commit", "mark", "reply"}
      PROVE  Asked(l, m, good)
  BY <1>r DEF Asked, NeedsEvent
<1>1. CASE GetBegin(p)
  <2>1. PICK r \in Ranges, f \in Forces :
          mem' = [mem EXCEPT ![p] = [Blank EXCEPT !.range = r, !.force = f,
                                                  !.seen = CachedEvents(rows, r)]]
    BY <1>1 DEF GetBegin
  <2> DEFINE m == [Blank EXCEPT !.range = r, !.force = f, !.seen = CachedEvents(rows, r)]
  <2>2. m.range = r
    BY DEF Blank
  <2>3. pc' = [pc EXCEPT ![p] = "decide"] /\ mem' = [mem EXCEPT ![p] = m] /\ UNCHANGED server
    BY <1>1, <2>1 DEF GetBegin, stores
  <2> HIDE DEF m
  <2> QED
    BY <1>r, <2>2, <2>3, AskedStep
<1>2. CASE GetDecide(p)
  <2> DEFINE sync == ShouldSync(mem[p].force, mem[p].seen, mem[p].range, marks[WorkerOf[p]], now)
             l == IF sync THEN "search" ELSE "reply"
             m == [mem[p] EXCEPT !.sync = sync, !.source = IF sync THEN "none" ELSE "cache"]
  <2>1. m.range = mem[p].range
    BY <1>t DEF Memory
  <2>2. pc' = [pc EXCEPT ![p] = l] /\ mem' = [mem EXCEPT ![p] = m] /\ UNCHANGED server /\ pc[p] = "decide"
    BY <1>2 DEF GetDecide, Step, stores
  <2> HIDE DEF m, sync
  <2>3. mem[p].range \in Ranges /\ l \in {"decide", "search", "commit", "mark", "reply"}
    BY <1>k, <2>2 DEF Asked
  <2> HIDE DEF l
  <2> QED
    BY <1>r, <2>1, <2>2, <2>3, AskedStep
<1>3. ASSUME NEW l \in {"search", "commit"}, ServeCached(p, l) PROVE AllAsked(good)' /\ UNCHANGED server
  <2> DEFINE m == [mem[p] EXCEPT !.source = "cache"]
  <2>1. m.range = mem[p].range
    BY <1>t DEF Memory
  <2>2. pc' = [pc EXCEPT ![p] = "reply"] /\ mem' = [mem EXCEPT ![p] = m] /\ UNCHANGED server /\ pc[p] = l
    BY <1>3, <1>t DEF ServeCached, Step, stores
  <2> HIDE DEF m
  <2>3. mem[p].range \in Ranges
    BY <1>k, <2>2 DEF Asked
  <2> QED
    BY <1>r, <2>1, <2>2, <2>3, AskedStep
<1>4. ASSUME NEW found, Searched(p, found) PROVE AllAsked(good)' /\ UNCHANGED server
  <2> DEFINE m == [mem[p] EXCEPT !.found = found, !.stamp = now,
                                 !.seen = MergeFound(mem[p].seen, found, now)]
  <2>1. m.range = mem[p].range
    BY <1>t DEF Memory
  <2>2. pc' = [pc EXCEPT ![p] = "commit"] /\ mem' = [mem EXCEPT ![p] = m] /\ UNCHANGED server
        /\ pc[p] = "search"
    BY <1>4, <1>t DEF Searched, Step, stores
  <2> HIDE DEF m
  <2>3. mem[p].range \in Ranges
    BY <1>k, <2>2 DEF Asked
  <2> QED
    BY <1>r, <2>1, <2>2, <2>3, AskedStep
<1>5. CASE GetCommit(p)
  <2>1. Step(p, "commit", "mark") /\ UNCHANGED <<server, mem>>
    BY <1>5 DEF GetCommit
  <2>2. Asked("mark", mem[p], good)
    BY <1>k, <1>r, <2>1 DEF Step, Asked
  <2> QED
    BY <2>1, <2>2, KeptAsked
<1>6. CASE GetMark(p)
  <2> DEFINE m == [mem[p] EXCEPT !.source = "server"]
  <2>1. m.range = mem[p].range
    BY <1>t DEF Memory
  <2>2. pc' = [pc EXCEPT ![p] = "reply"] /\ mem' = [mem EXCEPT ![p] = m] /\ UNCHANGED server
        /\ pc[p] = "mark"
    BY <1>6, <1>t DEF GetMark, Step
  <2> HIDE DEF m
  <2>3. mem[p].range \in Ranges
    BY <1>k, <2>2 DEF Asked
  <2> QED
    BY <1>r, <2>1, <2>2, <2>3, AskedStep
<1>7. CASE GetReply(p)
  BY <1>7, FinishAsked DEF GetReply, stores
<1> QED
  BY <1>1, <1>2, <1>3, <1>4, <1>5, <1>6, <1>7
  DEF GetNext, GetConnectFails, GetCommitFails, GetSearch, GetSearchFails

(* Every step of the three writing handlers stays in good.                 *)
LEMMA WriteStays ==
  ASSUME TypeInv, NEW good, Closed(good), Holds(good), AllAsked(good), NEW p \in Procs, WriteNext(p)
  PROVE  AllAsked(good)' /\ Holds(good)'
<1>t. mem \in [Procs -> Memory] /\ mem[p] \in Memory
  BY DEF TypeInv, TypeOK
<1>k. Asked(pc[p], mem[p], good)
  BY DEF AllAsked
<1>g. ASSUME mem[p].ev \in Payloads PROVE ServerForm(mem[p].ev) \in good
  BY <1>g DEF Closed
<1>f. ASSUME NEW l, SaveFails(p, l) PROVE AllAsked(good)' /\ Holds(good)'
  BY <1>f, FinishAsked DEF SaveFails, stores, Holds
<1>1. CASE CreateBegin(p)
  <2>1. PICK ev \in Payloads : mem' = [mem EXCEPT ![p] = [Blank EXCEPT !.ev = ev]]
    BY <1>1 DEF CreateBegin
  <2> DEFINE m == [Blank EXCEPT !.ev = ev]
  <2>2. Asked("createSave", m, good)
    BY DEF Asked, Blank, NeedsEvent
  <2>3. pc' = [pc EXCEPT ![p] = "createSave"] /\ mem' = [mem EXCEPT ![p] = m] /\ UNCHANGED server
    BY <1>1, <2>1 DEF CreateBegin, stores
  <2> HIDE DEF m
  <2> QED
    BY <2>2, <2>3, AskedStep DEF Holds
<1>2. CASE CreateSave(p)
  <2>1. PICK u \in Uids \ issued :
          PutOnServer(u, ServerForm(mem[p].ev)) /\ mem' = [mem EXCEPT ![p].new = u]
    BY <1>2 DEF CreateSave
  <2> DEFINE m == [mem[p] EXCEPT !.new = u]
  <2>2. m.ev = mem[p].ev
    BY <1>t DEF Memory
  <2>3. pc' = [pc EXCEPT ![p] = "createDb"] /\ mem' = [mem EXCEPT ![p] = m] /\ pc[p] = "createSave"
    BY <1>2, <1>t, <2>1 DEF CreateSave, Step
  <2> HIDE DEF m
  <2>4. mem[p].ev \in Payloads
    BY <1>k, <2>3 DEF Asked, NeedsEvent
  <2>5. Asked("createDb", m, good)
    BY <2>2, <2>4 DEF Asked, NeedsEvent
  <2> QED
    BY <1>g, <2>1, <2>3, <2>4, <2>5, AskedStep, PutHolds DEF PutOnServer
<1>3. CASE CreateLost(p)
  <2>1. PICK u \in Uids \ issued : PutOnServer(u, ServerForm(mem[p].ev))
    BY <1>3 DEF CreateLost
  <2>2. Finish(p, "createSave") /\ mem[p].ev \in Payloads
    BY <1>3, <1>k DEF CreateLost, Finish, Step, Asked, NeedsEvent
  <2> QED
    BY <1>g, <2>1, <2>2, FinishAsked, PutHolds DEF PutOnServer
<1>4. CASE CreateDb(p)
  BY <1>4, FinishAsked DEF CreateDb, Holds
<1>5. CASE UpdateBegin(p)
  <2>1. PICK u \in issued, ev \in Payloads :
          mem' = [mem EXCEPT ![p] = [Blank EXCEPT !.uid = u, !.ev = ev]]
    BY <1>5 DEF UpdateBegin
  <2> DEFINE m == [Blank EXCEPT !.uid = u, !.ev = ev]
  <2>2. Asked("updateLookup", m, good)
    BY DEF Asked, Blank, NeedsEvent
  <2>3. pc' = [pc EXCEPT ![p] = "updateLookup"] /\ mem' = [mem EXCEPT ![p] = m] /\ UNCHANGED server
    BY <1>5, <2>1 DEF UpdateBegin, stores
  <2> HIDE DEF m
  <2> QED
    BY <2>2, <2>3, AskedStep DEF Holds
<1>6. CASE UpdateFound(p)
  <2>1. Step(p, "updateLookup", "updateSave") /\ UNCHANGED <<server, mem>>
    BY <1>6 DEF UpdateFound, stores
  <2>2. Asked("updateSave", mem[p], good)
    BY <1>k, <2>1 DEF Step, Asked, NeedsEvent
  <2> QED
    BY <2>1, <2>2, KeptAsked DEF Holds
<1>7. CASE UpdateNotFound(p)
  BY <1>7, FinishAsked DEF UpdateNotFound, stores, Holds
<1>8. CASE UpdateSave(p)
  <2>1. Step(p, "updateSave", "updateDb") /\ UNCHANGED mem
        /\ PutOnServer(mem[p].uid, ServerForm(mem[p].ev))
    BY <1>8 DEF UpdateSave
  <2>2. Asked("updateDb", mem[p], good) /\ mem[p].ev \in Payloads
    BY <1>k, <2>1 DEF Step, Asked, NeedsEvent
  <2> QED
    BY <1>g, <2>1, <2>2, KeptAsked, PutHolds DEF PutOnServer
<1>9. CASE UpdateLost(p)
  <2>1. Finish(p, "updateSave") /\ PutOnServer(mem[p].uid, ServerForm(mem[p].ev))
    BY <1>9 DEF UpdateLost
  <2>2. mem[p].ev \in Payloads
    BY <1>k, <2>1 DEF Finish, Step, Asked, NeedsEvent
  <2> QED
    BY <1>g, <2>1, <2>2, FinishAsked, PutHolds DEF PutOnServer
<1>10. CASE UpdateDb(p)
  BY <1>10, FinishAsked DEF UpdateDb, Holds
<1>11. CASE DeleteBegin(p)
  <2>1. PICK u \in issued : mem' = [mem EXCEPT ![p] = [Blank EXCEPT !.uid = u]]
    BY <1>11 DEF DeleteBegin
  <2> DEFINE m == [Blank EXCEPT !.uid = u]
  <2>2. Asked("deleteSave", m, good)
    BY DEF Asked, NeedsEvent
  <2>3. pc' = [pc EXCEPT ![p] = "deleteSave"] /\ mem' = [mem EXCEPT ![p] = m] /\ UNCHANGED server
    BY <1>11, <2>1 DEF DeleteBegin, stores
  <2> HIDE DEF m
  <2> QED
    BY <2>2, <2>3, AskedStep DEF Holds
<1>12. CASE DeleteSave(p)
  <2>1. Asked("deleteDb", mem[p], good)
    BY DEF Asked, NeedsEvent
  <2> QED
    BY <1>12, <2>1, KeptAsked, PutHolds DEF DeleteSave
<1>13. CASE DeleteLost(p)
  BY <1>13, FinishAsked, PutHolds DEF DeleteLost
<1>14. CASE DeleteDb(p)
  BY <1>14, FinishAsked DEF DeleteDb, Holds
<1> QED
  BY <1>f, <1>1, <1>2, <1>3, <1>4, <1>5, <1>6, <1>7, <1>8, <1>9, <1>10, <1>11, <1>12, <1>13, <1>14
  DEF WriteNext, CreateFails, UpdateFails, DeleteFails

(* Every step of the occurrence handlers stays in good.                    *)
LEMMA OccurrenceStays ==
  ASSUME TypeInv, NEW good, Closed(good), Holds(good), AllAsked(good), NEW p \in Procs, OccurrenceNext(p)
  PROVE  AllAsked(good)' /\ Holds(good)'
<1>t. mem \in [Procs -> Memory] /\ mem[p] \in Memory
  BY DEF TypeInv, TypeOK
<1>k. Asked(pc[p], mem[p], good) /\ Local(pc[p], mem[p])
  BY DEF AllAsked, TypeInv, Locals
<1>f. ASSUME NEW l, SaveFails(p, l) PROVE AllAsked(good)' /\ Holds(good)'
  BY <1>f, FinishAsked DEF SaveFails, stores, Holds
<1>1. CASE ExceptionBegin(p)
  <2>1. PICK u \in issued, occ \in Occs, ev \in Payloads :
          mem' = [mem EXCEPT ![p] = [Blank EXCEPT !.uid = u, !.occ = occ, !.ev = ev]]
    BY <1>1 DEF ExceptionBegin
  <2> DEFINE m == [Blank EXCEPT !.uid = u, !.occ = occ, !.ev = ev]
  <2>2. Asked("addLookup", m, good)
    BY DEF Asked, Blank, NeedsEvent
  <2>3. pc' = [pc EXCEPT ![p] = "addLookup"] /\ mem' = [mem EXCEPT ![p] = m] /\ UNCHANGED server
    BY <1>1, <2>1 DEF ExceptionBegin, stores
  <2> HIDE DEF m
  <2> QED
    BY <2>2, <2>3, AskedStep DEF Holds
<1>2. CASE OccurrenceBegin(p)
  <2>1. PICK u \in issued, occ \in Occs :
          mem' = [mem EXCEPT ![p] = [Blank EXCEPT !.uid = u, !.occ = occ]]
    BY <1>2 DEF OccurrenceBegin
  <2> DEFINE m == [Blank EXCEPT !.uid = u, !.occ = occ]
  <2>2. Asked("addLookup", m, good)
    BY DEF Asked, Blank, NeedsEvent
  <2>3. pc' = [pc EXCEPT ![p] = "addLookup"] /\ mem' = [mem EXCEPT ![p] = m] /\ UNCHANGED server
    BY <1>2, <2>1 DEF OccurrenceBegin, stores
  <2> HIDE DEF m
  <2> QED
    BY <2>2, <2>3, AskedStep DEF Holds
<1>3. CASE MasterFound(p)
  <2> DEFINE m == [mem[p] EXCEPT !.master = server[mem[p].uid]]
  <2>1. m.ev = mem[p].ev /\ m.occ = mem[p].occ /\ m.master = server[mem[p].uid]
    BY <1>t DEF Memory
  <2>2. pc' = [pc EXCEPT ![p] = "addSave"] /\ mem' = [mem EXCEPT ![p] = m] /\ UNCHANGED server
        /\ pc[p] = "addLookup"
    BY <1>3, <1>t DEF MasterFound, Step, stores
  <2>3. server[mem[p].uid] \in good
    BY <1>3, <1>k, <2>2 DEF MasterFound, Readable, Holds, Local, NeedsUid
  <2> HIDE DEF m
  <2>4. Asked("addSave", m, good)
    BY <1>k, <2>1, <2>2, <2>3 DEF Asked, NeedsEvent
  <2> QED
    BY <2>2, <2>4, AskedStep DEF Holds
<1>4. CASE MasterNotFound(p)
  BY <1>4, FinishAsked DEF MasterNotFound, stores, Holds
<1>5. ASSUME pc[p] = "addSave" PROVE ServerForm(WithExdate(mem[p].master, mem[p].occ)) \in good
  BY <1>5, <1>k DEF Asked, Closed
<1>6. CASE MasterSave(p)
  <2> DEFINE master == WithExdate(mem[p].master, mem[p].occ)
             m == [mem[p] EXCEPT !.master = master]
             l == IF mem[p].ev = NoEvent THEN "exdDb" ELSE "excSave"
  <2>1. m.ev = mem[p].ev
    BY <1>t DEF Memory
  <2>2. pc' = [pc EXCEPT ![p] = l] /\ mem' = [mem EXCEPT ![p] = m] /\ pc[p] = "addSave"
    BY <1>6, <1>t DEF MasterSave, Step
  <2>3. PutOnServer(mem[p].uid, ServerForm(master)) /\ ServerForm(master) \in good
    BY <1>6, <1>5, <2>2 DEF MasterSave
  <2> HIDE DEF m, master
  <2>4. Asked(l, m, good)
    BY <1>k, <2>1, <2>2 DEF Asked, NeedsEvent
  <2> HIDE DEF l
  <2> QED
    BY <2>2, <2>3, <2>4, AskedStep, PutHolds DEF PutOnServer
<1>7. CASE MasterLost(p)
  <2>1. Finish(p, "addSave") /\ pc[p] = "addSave"
        /\ PutOnServer(mem[p].uid, ServerForm(WithExdate(mem[p].master, mem[p].occ)))
    BY <1>7 DEF MasterLost, Finish, Step
  <2> QED
    BY <1>5, <2>1, FinishAsked, PutHolds DEF PutOnServer
<1>8. ASSUME pc[p] = "excSave" PROVE mem[p].ev \in Payloads /\ Standalone(mem[p].ev) \in good
  <2>1. mem[p].ev \in Payloads
    BY <1>8, <1>k DEF Asked, NeedsEvent
  <2> QED
    BY <2>1 DEF Closed
<1>9. CASE ExceptionSave(p)
  <2>1. PICK u \in Uids \ issued :
          PutOnServer(u, Standalone(mem[p].ev)) /\ mem' = [mem EXCEPT ![p].new = u]
    BY <1>9 DEF ExceptionSave
  <2> DEFINE m == [mem[p] EXCEPT !.new = u]
  <2>2. m.ev = mem[p].ev
    BY <1>t DEF Memory
  <2>3. pc' = [pc EXCEPT ![p] = "exdDb"] /\ mem' = [mem EXCEPT ![p] = m] /\ pc[p] = "excSave"
    BY <1>9, <1>t, <2>1 DEF ExceptionSave, Step
  <2> HIDE DEF m
  <2>4. Asked("exdDb", m, good)
    BY <1>8, <2>2, <2>3 DEF Asked, NeedsEvent
  <2> QED
    BY <1>8, <2>1, <2>3, <2>4, AskedStep, PutHolds DEF PutOnServer
<1>10. CASE ExceptionLost(p)
  <2>1. PICK u \in Uids \ issued : PutOnServer(u, Standalone(mem[p].ev))
    BY <1>10 DEF ExceptionLost
  <2>2. Finish(p, "excSave") /\ pc[p] = "excSave"
    BY <1>10 DEF ExceptionLost, Finish, Step
  <2> QED
    BY <1>8, <2>1, <2>2, FinishAsked, PutHolds DEF PutOnServer
<1>11. CASE ExdateDb(p)
  <2>1. UNCHANGED server
    BY <1>11 DEF ExdateDb
  <2>2. CASE mem[p].ev = NoEvent
    BY <1>11, <2>1, <2>2, FinishAsked DEF ExdateDb, Holds
  <2>3. CASE mem[p].ev # NoEvent
    <3>1. Step(p, "exdDb", "excDb") /\ UNCHANGED mem
      BY <1>11, <2>3 DEF ExdateDb
    <3>2. Asked("excDb", mem[p], good)
      BY <1>k, <2>3, <3>1 DEF Step, Asked, NeedsEvent
    <3> QED
      BY <2>1, <3>1, <3>2, KeptAsked DEF Holds
  <2> QED
    BY <2>2, <2>3
<1>12. CASE ExceptionDb(p)
  BY <1>12, FinishAsked DEF ExceptionDb, Holds
<1> QED
  BY <1>f, <1>1, <1>2, <1>3, <1>4, <1>6, <1>7, <1>9, <1>10, <1>11, <1>12
  DEF OccurrenceNext, MasterFails, ExceptionFails

(* The environment stays in good.                                          *)
LEMMA EnvironmentStays ==
  ASSUME TypeInv, NEW good, Closed(good), Holds(good), AllAsked(good), Environment
  PROVE  AllAsked(good)' /\ Holds(good)'
<1>1. CASE Tick
  BY <1>1 DEF Tick, stores, control, AllAsked, Holds
<1>2. CASE ExternalPut
  <2>1. PICK u \in Uids, ev \in ExternalEvents : PutOnServer(u, ev)
    BY <1>2 DEF ExternalPut
  <2>2. ev \in good
    BY <1>2, ClientsAssumption DEF Closed, ExternalPut, TypeInv, TypeOK
  <2> QED
    BY <1>2, <2>1, <2>2, PutHolds DEF ExternalPut, PutOnServer, control, AllAsked
<1>3. CASE ExternalDelete
  <2>1. PICK u \in Uids : server' = [server EXCEPT ![u] = NoEvent]
    BY <1>3 DEF ExternalDelete
  <2> QED
    BY <1>3, <2>1, PutHolds DEF ExternalDelete, control, AllAsked
<1>4. ASSUME NEW w \in Workers, Crash(w) PROVE AllAsked(good)' /\ Holds(good)'
  <2>1. ASSUME NEW q \in Procs PROVE Asked(pc'[q], mem'[q], good)
    BY <1>4, BlankAsked DEF Crash, AllAsked
  <2> QED
    BY <1>4, <2>1 DEF Crash, AllAsked, Holds
<1> QED
  BY <1>1, <1>2, <1>3, <1>4 DEF Environment

(* Every step stays in good.                                               *)
LEMMA NextStays ==
  ASSUME TypeInv, NEW good, Closed(good), StaysIn(good), [Next]_vars
  PROVE  StaysIn(good)'
<1>k. Holds(good) /\ AllAsked(good)
  BY DEF StaysIn
<1> SUFFICES AllAsked(good)' /\ Holds(good)'
  BY DEF StaysIn
<1>1. CASE UNCHANGED vars
  BY <1>1, <1>k DEF vars, AllAsked, Holds
<1>2. CASE Environment
  BY <1>2, <1>k, EnvironmentStays
<1>3. ASSUME NEW p \in Procs, GetNext(p) PROVE AllAsked(good)' /\ Holds(good)'
  BY <1>3, <1>k, GetAsked DEF Holds
<1>4. ASSUME NEW p \in Procs, WriteNext(p) PROVE AllAsked(good)' /\ Holds(good)'
  BY <1>4, <1>k, WriteStays
<1>5. ASSUME NEW p \in Procs, OccurrenceNext(p) PROVE AllAsked(good)' /\ Holds(good)'
  BY <1>5, <1>k, OccurrenceStays
<1> QED
  BY <1>1, <1>2, <1>3, <1>4, <1>5 DEF Next

(* The calendar starts in good.                                            *)
LEMMA InitStays ==
  ASSUME NEW good, Closed(good), Init
  PROVE  StaysIn(good)
  BY BlankAsked DEF Init, StaysIn, Holds, AllAsked, Closed

-----------------------------------------------------------------------------
(* Control.                                                                *)

(* A step of one process leaves the others where they are.                 *)
LEMMA OthersKept ==
  ASSUME TypeInv, NEW p \in Procs, GetNext(p) \/ WriteNext(p) \/ OccurrenceNext(p), NEW q \in Procs, q # p
  PROVE  pc'[q] = pc[q] /\ mem'[q] = mem[q] /\ absent'[q] = absent[q]
<1>t. pc \in [Procs -> Label] /\ mem \in [Procs -> Memory] /\ absent \in [Procs -> SUBSET Uids]
  BY DEF TypeInv, TypeOK
<1>1. CASE GetNext(p)
  BY <1>1, <1>t DEF GetNext, GetBegin, GetDecide, GetConnectFails, GetCommitFails, ServeCached,
     GetSearch, GetSearchFails, Searched, GetCommit, GetMark, GetReply, Finish, Step, observers
<1>2. CASE WriteNext(p)
  BY <1>2, <1>t DEF WriteNext, CreateBegin, CreateSave, CreateLost, CreateFails, CreateDb,
     UpdateBegin, UpdateFound, UpdateNotFound, UpdateSave, UpdateLost, UpdateFails, UpdateDb,
     DeleteBegin, DeleteSave, DeleteLost, DeleteFails, DeleteDb, SaveFails, Finish, Step, observers
<1>3. CASE OccurrenceNext(p)
  BY <1>3, <1>t DEF OccurrenceNext, ExceptionBegin, OccurrenceBegin, MasterFound, MasterNotFound,
     MasterSave, MasterLost, MasterFails, ExceptionSave, ExceptionLost, ExceptionFails, ExdateDb,
     ExceptionDb, SaveFails, Finish, Step, observers
<1> QED
  BY <1>1, <1>2, <1>3

(* A step of one process changes the server at a uid of its own: the one   *)
(* its request names, or a new one.                                        *)
LEMMA ServerChanges ==
  ASSUME TypeInv, NEW p \in Procs, GetNext(p) \/ WriteNext(p) \/ OccurrenceNext(p),
         NEW u \in issued, pc[p] \in NeedsUid => u # mem[p].uid
  PROVE  server'[u] = server[u]
<1>t. server \in EventTable /\ issued \subseteq Uids
  BY DEF TypeInv, TypeOK
<1>1. CASE GetNext(p)
  BY <1>1 DEF GetNext, GetBegin, GetDecide, GetConnectFails, GetCommitFails, ServeCached,
     GetSearch, GetSearchFails, Searched, GetCommit, GetMark, GetReply, stores
<1>2. CASE WriteNext(p)
  BY <1>2, <1>t DEF WriteNext, CreateBegin, CreateSave, CreateLost, CreateFails, CreateDb,
     UpdateBegin, UpdateFound, UpdateNotFound, UpdateSave, UpdateLost, UpdateFails, UpdateDb,
     DeleteBegin, DeleteSave, DeleteLost, DeleteFails, DeleteDb, SaveFails, Finish, Step, stores,
     PutOnServer, NeedsUid, EventTable
<1>3. CASE OccurrenceNext(p)
  BY <1>3, <1>t DEF OccurrenceNext, ExceptionBegin, OccurrenceBegin, MasterFound, MasterNotFound,
     MasterSave, MasterLost, MasterFails, ExceptionSave, ExceptionLost, ExceptionFails, ExdateDb,
     ExceptionDb, SaveFails, Finish, Step, stores, PutOnServer, NeedsUid, EventTable
<1> QED
  BY <1>1, <1>2, <1>3

(* A handler is about to commit because it has just searched.              *)
LEMMA CommitFrom ==
  ASSUME TypeInv, NEW p \in Procs, GetNext(p) \/ WriteNext(p) \/ OccurrenceNext(p), pc'[p] = "commit"
  PROVE  GetSearch(p) \/ GetSearchFails(p)
<1>t. pc \in [Procs -> Label]
  BY DEF TypeInv, TypeOK
<1>1. CASE GetNext(p)
  BY <1>1, <1>t DEF GetNext, GetBegin, GetDecide, GetConnectFails, GetCommitFails, ServeCached,
     GetCommit, GetMark, GetReply, Finish, Step
<1>2. CASE WriteNext(p)
  BY <1>2, <1>t DEF WriteNext, CreateBegin, CreateSave, CreateLost, CreateFails, CreateDb,
     UpdateBegin, UpdateFound, UpdateNotFound, UpdateSave, UpdateLost, UpdateFails, UpdateDb,
     DeleteBegin, DeleteSave, DeleteLost, DeleteFails, DeleteDb, SaveFails, Finish, Step
<1>3. CASE OccurrenceNext(p)
  BY <1>3, <1>t DEF OccurrenceNext, ExceptionBegin, OccurrenceBegin, MasterFound, MasterNotFound,
     MasterSave, MasterLost, MasterFails, ExceptionSave, ExceptionLost, ExceptionFails, ExdateDb,
     ExceptionDb, SaveFails, Finish, Step
<1> QED
  BY <1>1, <1>2, <1>3
-----------------------------------------------------------------------------
(* cleanup_zombie_events.                                                  *)

(* A search that is about to be made will return every event there is.     *)
SearchCovers ==
    \A p \in Procs : pc[p] = "search" =>
        \A u \in Uids : server[u] # NoEvent => SearchHits(server, mem[p].range)[u] # NoEvent

(* Of the rows it has read, a sync has found all but those of events that  *)
(* were gone when it searched.                                             *)
FoundOrGone ==
    \A p \in Procs, u \in Uids :
        pc[p] = "commit" /\ mem[p].seen[u] # NoRow /\ mem[p].found[u] = NoEvent => u \in absent[p]

(* A search that covers the calendar misses only events that are gone.     *)
LEMMA SearchMisses ==
  ASSUME TypeInv, UidsKnown, SearchCovers, NEW p \in Procs, GetSearch(p), NEW u \in Uids,
         mem'[p].seen[u] # NoRow, mem'[p].found[u] = NoEvent
  PROVE  u \in absent'[p]
<1> DEFINE found == SearchHits(server, mem[p].range)
           seen == MergeFound(mem[p].seen, found, now)
<1>t. mem \in [Procs -> Memory] /\ mem[p] \in Memory /\ absent \in [Procs -> SUBSET Uids]
  BY DEF TypeInv, TypeOK
<1>1. pc[p] = "search" /\ mem'[p].seen = seen /\ mem'[p].found = found
      /\ absent'[p] = {v \in issued : server[v] = NoEvent}
  BY <1>t DEF GetSearch, Searched, Step, Memory
<1>2. server[u] = NoEvent
  BY <1>1 DEF SearchCovers
<1>3. mem[p].seen[u] # NoRow
  BY <1>1 DEF MergeFound
<1>4. u \in issued
  BY <1>3 DEF UidsKnown, AllKnown, Known, RowsAmong
<1> QED
  BY <1>1, <1>2, <1>4

(* Every step keeps it so, if no search fails.                             *)
LEMMA NextFoundOrGone ==
  ASSUME "search" \notin FaultKinds, TypeInv, UidsKnown, SearchCovers, FoundOrGone, [Next]_vars
  PROVE  FoundOrGone'
<1> SUFFICES ASSUME NEW p \in Procs, NEW u \in Uids,
                    pc'[p] = "commit", mem'[p].seen[u] # NoRow, mem'[p].found[u] = NoEvent
             PROVE  u \in absent'[p]
  BY DEF FoundOrGone
<1>1. CASE pc'[p] = pc[p] /\ mem'[p] = mem[p] /\ absent'[p] = absent[p]
  BY <1>1 DEF FoundOrGone
<1>2. CASE UNCHANGED vars
  BY <1>1, <1>2 DEF vars
<1>3. CASE Environment
  <2>1. CASE Tick \/ ExternalPut \/ ExternalDelete
    BY <1>1, <2>1 DEF Tick, ExternalPut, ExternalDelete, control, observers
  <2>2. ASSUME NEW w \in Workers, Crash(w) PROVE u \in absent'[p]
    <3>1. CASE WorkerOf[p] = w
      BY <2>2, <3>1 DEF Crash
    <3>2. CASE WorkerOf[p] # w
      BY <1>1, <2>2, <3>2 DEF Crash
    <3> QED
      BY <3>1, <3>2
  <2> QED
    BY <1>3, <2>1, <2>2 DEF Environment
<1>4. ASSUME NEW q \in Procs, GetNext(q) \/ WriteNext(q) \/ OccurrenceNext(q) PROVE u \in absent'[p]
  <2>1. CASE q # p
    BY <1>1, <1>4, <2>1, OthersKept
  <2>2. CASE q = p
    <3>1. GetSearch(p) \/ GetSearchFails(p)
      BY <1>4, <2>2, CommitFrom
    <3> QED
      BY <3>1, SearchMisses DEF GetSearchFails, Fault
  <2> QED
    BY <2>1, <2>2
<1> QED
  BY <1>2, <1>3, <1>4 DEF Next

(* The rows a commit deletes were read and not found.                      *)
LEMMA CommitDeletes ==
  ASSUME TypeInv, KeysApart, UidsKnown, FoundOrGone, NEW p \in Procs, NEW u \in Uids,
         GetCommit(p), rows[u] # NoRow, rows'[u] = NoRow
  PROVE  u \in absent[p]
<1>t. rows \in RowTable /\ mem[p] \in Memory /\ pc[p] = "commit"
  BY DEF TypeInv, TypeOK, GetCommit, Step
<1> DEFINE m == mem[p]
<1>1. PICK ids \in [NewRows(rows, m.seen, m.found) -> Ids] :
        rows' = OwnCleanup(OwnUpdate(BulkCreate(rows, m.seen, m.found, ids, m.stamp), m.seen, m.found),
                           m.seen, m.found)
  BY CommitByUid
<1>2. m.seen \in RowTable /\ m.found \in EventTable /\ m.stamp \in Nat
      /\ EventsAmong(m.found, issued) /\ RowsAmong(rows, issued)
  BY <1>t DEF Memory, UidsKnown, AllKnown, Known
<1> HIDE DEF m
<1>3. m.seen[u] # NoRow /\ m.found[u] = NoEvent
  BY <1>t, <1>1, <1>2, CommitKnown
<1> QED
  BY <1>t, <1>3 DEF m, FoundOrGone

(* cleanup_zombie_events deletes a row only if its event was gone when the *)
(* sync searched the server, whatever other requests do between its three  *)
(* accesses: if no search fails and all searches are made over windows     *)
(* that every event on the server lies in.                                 *)
THEOREM CleanupOfCovered ==
  ASSUME "search" \notin FaultKinds
  PROVE  Spec /\ []SearchCovers => CleanupSound
<1>1. Init => FoundOrGone
  BY DEF Init, FoundOrGone
<1>2. TypeInv /\ UidsKnown /\ SearchCovers /\ FoundOrGone /\ [Next]_vars => FoundOrGone'
  BY NextFoundOrGone
<1>3. TypeInv /\ KeysApart /\ UidsKnown /\ FoundOrGone
        => [\A p \in Procs, u \in Uids :
              GetCommit(p) /\ rows[u] # NoRow /\ rows'[u] = NoRow => u \in absent[p]]_vars
  BY CommitDeletes
<1> QED
  BY <1>1, <1>2, <1>3, TypesAlways, KeysAlways, UidsAlways, PTL DEF Spec, CleanupSound

-----------------------------------------------------------------------------
(* Calendars every window covers.                                          *)

(* The events that lie in every window searched: some occurrence that no   *)
(* client names overlaps it.                                               *)
Everywhere ==
    {ev \in Event :
        /\ Parses(ev) /\ ev.rrule \notin BadRules
        /\ \A r \in Ranges : \E s \in OccurrenceStarts(ev) \ Occs :
              s < SearchTo(r) /\ s + (ev.end - ev.start) > SearchFrom(r)}

(* The calendar has only such events, and is sent only such.               *)
WindowsCover ==
    /\ \A u \in Uids : Existing[u] # NoEvent => Existing[u] \in Everywhere
    /\ ExternalEvents \subseteq Everywhere
    /\ \A ev \in Payloads : ServerForm(ev) \in Everywhere /\ Standalone(ev) \in Everywhere

(* Suppressing an occurrence a client names leaves the others.             *)
LEMMA EverywhereKept ==
  ASSUME NEW ev \in Everywhere, NEW occ \in Occs
  PROVE  ServerForm(WithExdate(ev, occ)) \in Everywhere
<1> DEFINE new == WithExdate(ev, occ)
<1>1. ev \in Event /\ occ \in Nat
  BY ClientsAssumption DEF Everywhere
<1>2. /\ new \in Event /\ new.start = ev.start /\ new.end = ev.end /\ new.rrule = ev.rrule
      /\ new.title = ev.title /\ new.exdate = ev.exdate \cup {occ}
  BY <1>1, EventForms DEF WithExdate, Event
<1> HIDE DEF new
<1>3. OccurrenceStarts(new) \ Occs = OccurrenceStarts(ev) \ Occs
  BY <1>2 DEF OccurrenceStarts
<1>4. new \in Everywhere
  BY <1>2, <1>3 DEF Everywhere, Parses
<1> QED
  BY <1>4 DEF new, Everywhere, ServerForm

(* Every search of such a calendar covers it.                              *)
THEOREM SearchesCover ==
  ASSUME WindowsCover
  PROVE  Spec => []SearchCovers
<1>1. Closed(Everywhere)
  BY EverywhereKept DEF WindowsCover, Closed
<1>2. StaysIn(Everywhere) => SearchCovers
  <2> SUFFICES ASSUME StaysIn(Everywhere), NEW p \in Procs, pc[p] = "search",
                      NEW u \in Uids, server[u] # NoEvent
               PROVE  SearchHits(server, mem[p].range)[u] # NoEvent
    BY DEF SearchCovers
  <2>1. server[u] \in Everywhere /\ mem[p].range \in Ranges
    BY DEF StaysIn, Holds, AllAsked, Asked
  <2>2. Overlaps(server[u], SearchFrom(mem[p].range), SearchTo(mem[p].range)) /\ Parses(server[u])
    BY <2>1 DEF Everywhere, Overlaps
  <2> QED
    BY <2>2 DEF SearchHits
<1>3. Init => StaysIn(Everywhere)
  BY <1>1, InitStays
<1>4. TypeInv /\ StaysIn(Everywhere) /\ [Next]_vars => StaysIn(Everywhere)'
  BY <1>1, NextStays
<1> QED
  BY <1>2, <1>3, <1>4, TypesAlways, PTL DEF Spec

(* On such a calendar, if no search fails, cleanup_zombie_events deletes   *)
(* only rows of events that were gone when the sync searched the server.   *)
THEOREM OnlyZombiesDeleted ==
  ASSUME WindowsCover, "search" \notin FaultKinds
  PROVE  Spec => CleanupSound
  BY SearchesCover, CleanupOfCovered, PTL
=============================================================================
