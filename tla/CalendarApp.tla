---------------------------- MODULE CalendarApp -----------------------------
(***************************************************************************)
(* calendar_app as it runs: several threads in several worker processes    *)
(* serve the six endpoints over one CalDAV server and one database, other  *)
(* calendar clients edit the server directly, time passes, workers die.    *)
(***************************************************************************)
EXTENDS CalendarSync, CalendarOccurrences

-----------------------------------------------------------------------------
(* The environment.                                                        *)

Tick ==
    /\ now < MaxNow /\ now' = now + 1
    /\ UNCHANGED <<stores, control, issued, observers, counters>>

(* Another calendar client stores an event or deletes one.                 *)
ExternalPut ==
    /\ edits < MaxEdits /\ edits' = edits + 1
    /\ \E u \in Uids, ev \in ExternalEvents :
          /\ u \in issued \/ SpareUid
          /\ PutOnServer(u, ev) /\ issued' = issued \cup {u}
    /\ UNCHANGED <<rows, marks, now, control, absent, faults, writes>>

ExternalDelete ==
    /\ edits < MaxEdits /\ edits' = edits + 1
    /\ \E u \in Uids : server[u] # NoEvent /\ server' = [server EXCEPT ![u] = NoEvent]
    /\ UNCHANGED <<rows, marks, now, control, issued, observers, faults, writes>>

(* A worker is killed and restarted: its requests stop where they are and  *)
(* its in-memory cache is empty.                                           *)
Crash(w) ==
    /\ Fault("crash")
    /\ pc' = [p \in Procs |-> IF WorkerOf[p] = w THEN "idle" ELSE pc[p]]
    /\ mem' = [p \in Procs |-> IF WorkerOf[p] = w THEN Blank ELSE mem[p]]
    /\ absent' = [p \in Procs |-> IF WorkerOf[p] = w THEN {} ELSE absent[p]]
    /\ marks' = [marks EXCEPT ![w] = [m \in Months |-> 0]]
    /\ UNCHANGED <<server, rows, now, issued, held, writes, edits>>

-----------------------------------------------------------------------------
Environment == Tick \/ ExternalPut \/ ExternalDelete \/ \E w \in Workers : Crash(w)

Next == Environment \/ \E p \in Procs : GetNext(p) \/ WriteNext(p) \/ OccurrenceNext(p)

Spec == Init /\ [][Next]_vars

(* A thread that serves a request goes on serving it.                      *)
Handle(p) ==
    \/ GetDecide(p) \/ GetSearch(p) \/ GetCommit(p) \/ GetMark(p) \/ GetReply(p)
    \/ CreateSave(p) \/ CreateDb(p)
    \/ UpdateFound(p) \/ UpdateNotFound(p) \/ UpdateSave(p) \/ UpdateDb(p)
    \/ DeleteSave(p) \/ DeleteDb(p)
    \/ MasterFound(p) \/ MasterNotFound(p) \/ MasterSave(p)
    \/ ExceptionSave(p) \/ ExdateDb(p) \/ ExceptionDb(p)

(* Scheduling: every thread runs.  Clients: a page that shows the calendar *)
(* keeps refreshing it, so an idle thread is given another GET.            *)
FairSpec == Spec /\ \A p \in Procs : WF_vars(Handle(p)) /\ WF_vars(GetBegin(p))

-----------------------------------------------------------------------------
(* Properties.                                                             *)

Idle == \A p \in Procs : pc[p] = "idle"

(* The cache never shows content the server never had: the fields of a     *)
(* row other than exdate were the server's at one time, and its exdate     *)
(* was, perhaps at another.  A handler that wrote its row before, or in    *)
(* spite of, a failed save would break it.                                 *)
SameBody(a, b) == [a EXCEPT !.exdate = {}] = [b EXCEPT !.exdate = {}]
Reflects(ev, contents) ==
    /\ \E c \in contents : SameBody(ev, c)
    /\ \E c \in contents : ev.exdate = c.exdate
RowsReflectServer == \A u \in Uids : rows[u] # NoRow => Reflects(rows[u].ev, held[u])

(* cleanup_zombie_events deletes a row only if the event had been deleted  *)
(* when the sync searched the server: not because the search failed, the   *)
(* event lay outside the window searched, or another request made event    *)
(* and row since.                                                          *)
CleanupSound ==
    [][\A p \in Procs, u \in Uids :
          GetCommit(p) /\ rows[u] # NoRow /\ rows'[u] = NoRow => u \in absent[p]]_vars

(* When no request is in progress the cache and the server agree on every  *)
(* event: the write-through of all five writing handlers loses nothing.    *)
Mirrors == \A u \in Uids : IF server[u] = NoEvent THEN rows[u] = NoRow
                           ELSE rows[u] # NoRow /\ rows[u].ev = server[u]
QuiescentAgreement == Idle => Mirrors

(* An answer given from the cache without a sync holds every event of the  *)
(* server in the range asked for: the keys of synced months never mask an  *)
(* event that was not fetched.                                             *)
NoMasking ==
    \A p \in Procs : pc[p] = "reply" /\ ~ mem[p].sync =>
        \A u \in Uids : server[u] # NoEvent /\ InView(server[u], mem[p].range)
                          => Response(p)[u] = server[u]

(* _add_exdate_to_master appends an EXDATE to a master: it changes nothing *)
(* else on the server, so what another request or client wrote to the      *)
(* master since it was read is kept.                                       *)
AddsOnlyItsExdate ==
    [][\A p \in Procs : MasterSave(p) =>
          /\ server[mem[p].uid] # NoEvent
          /\ server'[mem[p].uid] = [server[mem[p].uid] EXCEPT !.exdate = @ \cup {mem[p].occ}]]_vars

(* At the moment the event that replaces an occurrence is stored the       *)
(* occurrence is suppressed, whatever failed before: from then on the two  *)
(* are both on the calendar only if another writer takes the EXDATE away.  *)
SuppressedBeforeReplaced ==
    [][\A p \in Procs : ExceptionSave(p) \/ ExceptionLost(p) =>
          /\ server[mem[p].uid] # NoEvent
          /\ mem[p].occ \in server[mem[p].uid].exdate]_vars

(* Two events on the server do not occupy a community room at once.        *)
Clash(a, b) == a.room = b.room /\ a.room \in Rooms
               /\ \E s \in OccurrenceStarts(a) : Overlaps(b, s, s + (a.end - a.start))
NoDoubleBooking ==
    \A u, v \in Uids : u # v /\ server[u] # NoEvent /\ server[v] # NoEvent
                         => ~ Clash(server[u], server[v])

(* Once the outside edits, writes and faults are over, refreshing brings   *)
(* the cache to agree with the server and keeps it so.                     *)
Converges == <>[]Mirrors
=============================================================================
