---------------------------- MODULE CalendarState ---------------------------
(***************************************************************************)
(* The state the calendar handlers share, and the memory of each request.  *)
(*                                                                         *)
(* A process is a thread of a gunicorn worker that serves one request at a *)
(* time.  Between two accesses to the CalDAV server, the database or the   *)
(* worker's cache, it works on its own memory; so each access is a step.   *)
(* There is no ATOMIC_REQUESTS: a database statement takes effect at once, *)
(* apart from the transaction of a sync.                                   *)
(***************************************************************************)
EXTENDS CalendarData

CONSTANTS
    Procs,          \* threads serving requests
    WorkerOf,       \* the worker process each thread belongs to
    Workers,        \* gunicorn worker processes, each with its own LocMemCache
    Ops,            \* the endpoints clients call in this instance
    Payloads,       \* the events clients submit
    Ranges,         \* the date ranges clients ask for
    Forces,         \* the values of force_sync clients send
    Occs,           \* the occurrence starts clients name
    ExternalEvents, \* the events other calendar clients store on the server
    FaultKinds,     \* what may fail in this instance
    MaxFaults, MaxWrites, MaxEdits, MaxNow, \* bounds on faults, write requests, outside edits, ticks
    Existing,       \* the events on the server at the start
    Cached          \* which of them have a row at the start

ASSUME ClientsAssumption ==
    /\ WorkerOf \in [Procs -> Workers]
    /\ Payloads \subseteq Event /\ ExternalEvents \subseteq Event
    /\ \A ev \in Payloads : Parses(ev)
    /\ Ranges \subseteq Range /\ Forces \subseteq BOOLEAN /\ Occs \subseteq Nat
    /\ Existing \in EventTable /\ Cached \subseteq Uids
    /\ \A u \in Cached : Existing[u] # NoEvent
    /\ {MaxFaults, MaxWrites, MaxEdits, MaxNow} \subseteq Nat

VARIABLES
    server,     \* the CalDAV calendar, by uid
    rows,       \* the table CalendarEvent, by uid
    marks,      \* per worker and month, when the key caldav_synced_... expires
    now,        \* the clock, in ticks
    pc, mem,    \* where each process is in its handler, and its local variables
    issued,     \* uids in use: uuid4 never returns one twice
    held,       \* observer: every content the server has held, by uid
    absent,     \* observer: the events already deleted when a sync searched the server
    faults, writes, edits   \* counters for the bounds

stores == <<server, rows, marks>>
control == <<pc, mem>>
observers == <<held, absent>>
counters == <<faults, writes, edits>>
vars == <<server, rows, marks, now, pc, mem, issued, held, absent, faults, writes, edits>>

Label == {"idle",
          "decide", "search", "commit", "mark", "reply",
          "createSave", "createDb",
          "updateLookup", "updateSave", "updateDb",
          "deleteSave", "deleteDb",
          "addLookup", "addSave", "excSave", "exdDb", "excDb",
          "adminSave"}

(* What a request remembers.  new is the uid it generated, ev the event it *)
(* was sent, master the recurring event it read, seen the rows it read     *)
(* (cached_events) and found the events the server returned; stamp is the  *)
(* last_synced_at of a sync, sync the flag should_sync, and source says    *)
(* where response_events came from.                                        *)
Memory == [range: Range, force: BOOLEAN, uid: Uids \cup {NoUid}, new: Uids \cup {NoUid},
           occ: Nat, ev: Event \cup {NoEvent}, master: Event \cup {NoEvent},
           seen: RowTable, found: EventTable, stamp: Nat, sync: BOOLEAN,
           source: {"none", "cache", "server"}]

NoRows == [u \in Uids |-> NoRow]
NoEvents == [u \in Uids |-> NoEvent]
Blank == [range |-> [start |-> NoDate, end |-> NoDate], force |-> FALSE,
          uid |-> NoUid, new |-> NoUid, occ |-> 0, ev |-> NoEvent, master |-> NoEvent,
          seen |-> NoRows, found |-> NoEvents, stamp |-> 0, sync |-> FALSE, source |-> "none"]

(* One type invariant for the calendar: it is strengthened to an inductive *)
(* invariant in CalendarProofs.                                            *)
TypeOK ==
    /\ server \in EventTable /\ rows \in RowTable
    /\ marks \in [Workers -> [Months -> Nat]] /\ now \in Nat
    /\ pc \in [Procs -> Label] /\ mem \in [Procs -> Memory]
    /\ issued \subseteq Uids
    /\ held \in [Uids -> SUBSET Event] /\ absent \in [Procs -> SUBSET Uids]
    /\ faults \in Nat /\ writes \in Nat /\ edits \in Nat

(* The keys the database gives to new rows: distinct, and the least free.  *)
LeastIds(new, free) ==
    {ids \in [new -> free] :
        /\ \A u, v \in new : ids[u] = ids[v] => u = v
        /\ \A i \in free, u \in new : i < ids[u] => \E v \in new : ids[v] = i}

Init ==
    /\ server = Existing
    /\ \E ids \in LeastIds(Cached, Ids) :
          rows = [u \in Uids |-> IF u \in Cached THEN [id |-> ids[u], ev |-> Existing[u], synced |-> 0]
                                 ELSE NoRow]
    /\ marks = [w \in Workers |-> [m \in Months |-> 0]]
    /\ now = 0
    /\ pc = [p \in Procs |-> "idle"] /\ mem = [p \in Procs |-> Blank]
    /\ issued = {u \in Uids : Existing[u] # NoEvent}
    /\ held = [u \in Uids |-> {Existing[u]} \ {NoEvent}]
    /\ absent = [p \in Procs |-> {}]
    /\ faults = 0 /\ writes = 0 /\ edits = 0

-----------------------------------------------------------------------------
(* Control flow.                                                           *)

(* A client sends a request of kind op to the idle process p; requests     *)
(* that write are bounded by MaxWrites.                                    *)
Receive(p, op) ==
    /\ pc[p] = "idle" /\ op \in Ops
    /\ IF op = "get" THEN writes' = writes
       ELSE writes < MaxWrites /\ writes' = writes + 1

(* Bound on new events: a uid is left for one more, besides those that     *)
(* requests in progress are going to create.                               *)
SpareUid ==
    LET creating == {p \in Procs : /\ pc[p] \in {"createSave", "addLookup", "addSave", "excSave"}
                                   /\ mem[p].ev # NoEvent}
    IN  Cardinality(issued) + Cardinality(creating) < Cardinality(Uids)

Step(p, from, to) == pc[p] = from /\ pc' = [pc EXCEPT ![p] = to]

(* The handler returns: its local variables are gone.                      *)
Finish(p, from) == Step(p, from, "idle") /\ mem' = [mem EXCEPT ![p] = Blank]

NoFault == UNCHANGED faults
Fault(kind) == kind \in FaultKinds /\ faults < MaxFaults /\ faults' = faults + 1

(* The server takes ev as the content of u.                                *)
PutOnServer(u, ev) ==
    /\ server' = [server EXCEPT ![u] = ev]
    /\ held' = [held EXCEPT ![u] = @ \cup {ev}]

(* The primary keys that no row of the table has and no request remembers: *)
(* the database never reuses one, here it may once forgotten.  New rows    *)
(* take the least such keys.                                               *)
FreshIds ==
    {i \in Ids : /\ \A u \in Uids : rows[u] # NoRow => rows[u].id # i
                 /\ \A p \in Procs, u \in Uids : mem[p].seen[u] # NoRow => mem[p].seen[u].id # i}
NextIds(new) == LeastIds(new, FreshIds)
NextId(id) == id \in FreshIds /\ \A i \in FreshIds : id <= i
=============================================================================
