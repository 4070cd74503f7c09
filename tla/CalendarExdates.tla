--------------------------- MODULE CalendarExdates --------------------------
(***************************************************************************)
(* Suppressing an occurrence of a series, for any number of threads, with  *)
(* failures and crashes at any point: its EXDATE is on the server before   *)
(* the event that replaces the occurrence.                                 *)
(*                                                                         *)
(* _add_exdate_to_master writes back a copy it has read, so the EXDATE can *)
(* be lost to another such copy before the replacement is stored: it is    *)
(* there only if nobody else changes the master meanwhile, no other        *)
(* request about the same event and no other client.  Requests about other *)
(* events, creations and reads interleave freely.                          *)
(***************************************************************************)
EXTENDS CalendarHandlers

(* No two requests that change or delete an event are about the same one.  *)
Unshared ==
    \A p, q \in Procs :
        p # q /\ pc[p] \in NeedsUid /\ pc[q] \in NeedsUid => mem[p].uid # mem[q].uid

(* A handler that is about to store a replacement has suppressed the       *)
(* occurrence.                                                             *)
OccurrenceSuppressed ==
    \A p \in Procs : pc[p] = "excSave" =>
        server[mem[p].uid] # NoEvent /\ mem[p].occ \in server[mem[p].uid].exdate

-----------------------------------------------------------------------------
(* What another request does to an event this one is about: nothing.       *)
LEMMA OwnEventKept ==
  ASSUME TypeInv, UidsKnown, Unshared, NEW p \in Procs, pc[p] \in NeedsUid,
         NEW q \in Procs, q # p, GetNext(q) \/ WriteNext(q) \/ OccurrenceNext(q)
  PROVE  /\ server'[mem[p].uid] = server[mem[p].uid]
         /\ pc'[p] = pc[p] /\ mem'[p] = mem[p]
<1>1. mem[p].uid \in issued
  BY DEF UidsKnown, AllKnown, Known
<1>2. pc[q] \in NeedsUid => mem[p].uid # mem[q].uid
  BY DEF Unshared
<1>3. server'[mem[p].uid] = server[mem[p].uid]
  BY <1>1, <1>2, ServerChanges
<1> QED
  BY <1>3, OthersKept

(* A handler is about to store a replacement because it has just saved the *)
(* master.                                                                 *)
LEMMA SaveFrom ==
  ASSUME TypeInv, NEW p \in Procs, GetNext(p) \/ WriteNext(p) \/ OccurrenceNext(p)
  PROVE  pc'[p] = "excSave" => MasterSave(p)
<1>t. pc \in [Procs -> Label]
  BY DEF TypeInv, TypeOK
<1>1. CASE GetNext(p)
  BY <1>1, <1>t DEF GetNext, GetBegin, GetDecide, GetConnectFails, GetCommitFails, ServeCached,
     GetSearch, GetSearchFails, Searched, GetCommit, GetMark, GetReply, Finish, Step
<1>2. CASE WriteNext(p)
  BY <1>2, <1>t DEF WriteNext, CreateBegin, CreateSave, CreateLost, CreateFails, CreateDb,
     UpdateBegin, UpdateFound, UpdateNotFound, UpdateSave, UpdateLost, UpdateFails, UpdateDb,
     DeleteBegin, DeleteSave, DeleteLost, DeleteFails, DeleteDb, SaveFails, Finish, Step
<1>3. CASE OccurrenceNext(p)
  BY <1>3, <1>t DEF OccurrenceNext, ExceptionBegin, OccurrenceBegin, MasterNotFound,
     MasterLost, MasterFails, MasterSave, MasterFound, ExceptionSave, ExceptionLost, ExceptionFails,
     ExdateDb, ExceptionDb, SaveFails, Finish, Step
<1> QED
  BY <1>1, <1>2, <1>3

(* Saving the master suppresses the occurrence.                            *)
LEMMA SavedSuppressed ==
  ASSUME TypeInv, NEW p \in Procs, MasterSave(p)
  PROVE  server'[mem'[p].uid] # NoEvent /\ mem'[p].occ \in server'[mem'[p].uid].exdate
<1> DEFINE master == WithExdate(mem[p].master, mem[p].occ)
<1>t. /\ server \in EventTable /\ mem \in [Procs -> Memory] /\ mem[p] \in Memory
      /\ mem[p].uid \in Uids /\ mem[p].master \in Event /\ mem[p].occ \in Nat
  BY DEF TypeInv, TypeOK, Locals, Local, NeedsUid, NeedsMaster, MasterSave, Step, Memory
<1>1. mem'[p].uid = mem[p].uid /\ mem'[p].occ = mem[p].occ
  BY <1>t DEF MasterSave, Memory
<1>2. master \in Event /\ ServerForm(master) \in Event /\ mem[p].occ \in ServerForm(master).exdate
  <2>1. master \in Event /\ mem[p].occ \in master.exdate
    BY <1>t DEF WithExdate, Event
  <2> HIDE DEF master
  <2> QED
    BY <2>1 DEF ServerForm, Event
<1>3. PutOnServer(mem[p].uid, ServerForm(master))
  BY DEF MasterSave
<1> HIDE DEF master
<1>4. server'[mem[p].uid] = ServerForm(master)
  BY <1>t, <1>3 DEF PutOnServer, EventTable
<1> QED
  BY <1>1, <1>2, <1>4, NothingAssumption

(* A worker that dies, or the clock, changes no event; without outside     *)
(* edits nothing else does.                                                *)
LEMMA QuietEnvironment ==
  ASSUME MaxEdits = 0, TypeInv, Environment, NEW p \in Procs, pc'[p] # "idle"
  PROVE  UNCHANGED server /\ pc'[p] = pc[p] /\ mem'[p] = mem[p]
<1>1. CASE Tick
  BY <1>1 DEF Tick, stores, control
<1>2. ~ ExternalPut /\ ~ ExternalDelete
  BY DEF ExternalPut, ExternalDelete, TypeInv, TypeOK
<1>3. ASSUME NEW w \in Workers, Crash(w) PROVE UNCHANGED server /\ pc'[p] = pc[p] /\ mem'[p] = mem[p]
  BY <1>3 DEF Crash
<1> QED
  BY <1>1, <1>2, <1>3 DEF Environment

(* While events are not shared every step keeps the occurrences            *)
(* suppressed.                                                             *)
LEMMA NextSuppressed ==
  ASSUME MaxEdits = 0, TypeInv, UidsKnown, Unshared, OccurrenceSuppressed, [Next]_vars
  PROVE  OccurrenceSuppressed'
<1> SUFFICES ASSUME NEW p \in Procs, pc'[p] = "excSave"
             PROVE  server'[mem'[p].uid] # NoEvent /\ mem'[p].occ \in server'[mem'[p].uid].exdate
  BY DEF OccurrenceSuppressed
<1>1. CASE pc'[p] = pc[p] /\ mem'[p] = mem[p] /\ server'[mem[p].uid] = server[mem[p].uid]
  BY <1>1 DEF OccurrenceSuppressed
<1>2. CASE UNCHANGED vars
  BY <1>1, <1>2 DEF vars
<1>3. CASE Environment
  BY <1>1, <1>3, QuietEnvironment
<1>4. ASSUME NEW q \in Procs, GetNext(q) \/ WriteNext(q) \/ OccurrenceNext(q), q # p
      PROVE  pc'[p] = pc[p] /\ mem'[p] = mem[p] /\ server'[mem[p].uid] = server[mem[p].uid]
  <2>1. pc'[p] = pc[p]
    BY <1>4, OthersKept
  <2>2. pc[p] \in NeedsUid
    BY <2>1 DEF NeedsUid
  <2> QED
    BY <1>4, <2>2, OwnEventKept
<1>5. CASE GetNext(p) \/ WriteNext(p) \/ OccurrenceNext(p)
  BY <1>5, SaveFrom, SavedSuppressed
<1> QED
  BY <1>1, <1>2, <1>3, <1>4, <1>5 DEF Next

(* At the start nobody is about to store anything.                         *)
LEMMA InitSuppressed == Init => OccurrenceSuppressed
  BY DEF Init, OccurrenceSuppressed

(* The event that replaces an occurrence is stored only once the           *)
(* occurrence is suppressed, whatever fails or crashes, as long as no two  *)
(* requests are about one event at once.                                   *)
THEOREM ReplacedIsSuppressed ==
  ASSUME MaxEdits = 0
  PROVE  Spec /\ []Unshared => SuppressedBeforeReplaced
<1>1. TypeInv /\ UidsKnown /\ Unshared /\ OccurrenceSuppressed /\ [Next]_vars => OccurrenceSuppressed'
  BY NextSuppressed
<1>2. OccurrenceSuppressed
        => [\A p \in Procs : ExceptionSave(p) \/ ExceptionLost(p) =>
              /\ server[mem[p].uid] # NoEvent
              /\ mem[p].occ \in server[mem[p].uid].exdate]_vars
  BY DEF OccurrenceSuppressed, ExceptionSave, ExceptionLost, Finish, Step
<1> QED
  BY InitSuppressed, <1>1, <1>2, TypesAlways, UidsAlways, PTL DEF Spec, SuppressedBeforeReplaced

=============================================================================
