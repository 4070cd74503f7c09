------------------------------ MODULE Workshop ------------------------------
(***************************************************************************)
(* The workshop app: members book and cancel one-hour slots on Saturdays.  *)
(*                                                                         *)
(* Each access to the database is a step: WorkshopSlot.save validates with *)
(* one query and writes with another, cancel_slot reads the booking and    *)
(* deletes it afterwards, the listing asks for one Saturday at a time and  *)
(* then for the owners.  Only the constraint unique_slot_per_date is       *)
(* checked by the database itself.                                         *)
(***************************************************************************)
EXTENDS Naturals, FiniteSets

CONSTANTS
    Procs,          \* threads serving requests
    Users,          \* accounts
    Dates,          \* dates a slotId may name
    Saturdays,      \* those whose weekday() is 5
    Listed,         \* those the listing shows, the next four
    Slots,          \* SLOT_CHOICES
    Nobody, Nothing,\* no user; no request
    Ops,            \* the operations of this instance
    MaxWrites       \* bound on bookings and edits asked for

ASSUME CalendarAssumption ==
    Listed \subseteq Saturdays /\ Saturdays \subseteq Dates /\ Dates \subseteq Nat /\ MaxWrites \in Nat
ASSUME NobodyAssumption ==
    /\ Nobody \notin Users
    /\ Nothing \notin [what : {"take", "release"}, user : Users, key : Dates \X Slots]
    /\ Nothing \notin [what : {"list"}, user : Users]

VARIABLES
    bookings,   \* the table WorkshopSlot
    nextId,     \* the sequence its primary keys are drawn from
    users,      \* the accounts there are
    pc, mem,    \* where each thread is, and its local variables
    answer,     \* the status of its last answer
    shown,      \* observer: what the last listing showed each member, until a save
    writes      \* counter for the bound

table == <<bookings, nextId, users>>
vars == <<bookings, nextId, users, pc, mem, answer, shown, writes>>

Booking == [id : Nat, date : Dates, slot : Slots, user : Users]
Label == {"idle", "clean", "write", "get", "delete", "list", "owners"}
Status == {"none", "200", "400", "404", "500"}

(* A request: id is the primary key of the booking it handles, 0 if it has *)
(* none yet; by says who asked, a member or a superuser in the admin.      *)
Memory == [id : Nat, date : Dates, slot : Slots, user : Users, by : {"member", "admin"}]
Listing == [user : Users, days : SUBSET Listed, rows : SUBSET Booking]

(* What a listing says of a slot of its day: available, or the member's.   *)
Entry == [user : Users, date : Listed, slot : Slots, as : {"available", "own"}]

TypeOK ==
    /\ bookings \subseteq Booking /\ nextId \in Nat /\ users \subseteq Users
    /\ \A b \in bookings : b.user \in users
    /\ pc \in [Procs -> Label]
    /\ \A p \in Procs : pc[p] # "idle" => mem[p] \in IF pc[p] \in {"list", "owners"} THEN Listing ELSE Memory
    /\ shown \subseteq Entry
    /\ answer \in [Procs -> Status] /\ writes \in Nat

Init ==
    /\ bookings = {} /\ nextId = 1 /\ users = Users
    /\ pc = [p \in Procs |-> "idle"] /\ mem = [p \in Procs |-> Nothing]
    /\ answer = [p \in Procs |-> "none"] /\ shown = {} /\ writes = 0

-----------------------------------------------------------------------------
Write == writes < MaxWrites /\ writes' = writes + 1

Start(p, op, to, m) ==
    /\ pc[p] = "idle" /\ op \in Ops
    /\ pc' = [pc EXCEPT ![p] = to] /\ mem' = [mem EXCEPT ![p] = m]
    /\ answer' = [answer EXCEPT ![p] = "none"]
    /\ UNCHANGED <<table, shown>>

Goto(p, from, to) == pc[p] = from /\ pc' = [pc EXCEPT ![p] = to] /\ UNCHANGED <<answer, writes>>
Step(p, from, to) == Goto(p, from, to) /\ UNCHANGED shown

Finish(p, from, status) ==
    /\ pc[p] = from /\ pc' = [pc EXCEPT ![p] = "idle"]
    /\ mem' = [mem EXCEPT ![p] = Nothing] /\ answer' = [answer EXCEPT ![p] = status]
    /\ UNCHANGED writes
Return(p, from, status) == Finish(p, from, status) /\ UNCHANGED shown

(* WorkshopSlot.clean: a Saturday, and no other booking of the user on the *)
(* day.  CleanSlot is the slip of looking at the slot only.                *)
CleanSlot(m) ==
    /\ m.date \in Saturdays
    /\ ~ \E b \in bookings : b.user = m.user /\ b.date = m.date /\ b.slot = m.slot /\ b.id # m.id
Clean(m) ==
    /\ m.date \in Saturdays
    /\ ~ \E b \in bookings : b.user = m.user /\ b.date = m.date /\ b.id # m.id

(* unique_slot_per_date allows this row.                                   *)
Unique(m) == ~ \E b \in bookings : b.date = m.date /\ b.slot = m.slot /\ b.id # m.id

-----------------------------------------------------------------------------
(* Booking a slot, or editing a booking in the admin.                      *)

BookBegin(p) ==
    \E u \in users, d \in Dates, s \in Slots :
        /\ Write
        /\ Start(p, "book", "clean", [id |-> 0, date |-> d, slot |-> s, user |-> u, by |-> "member"])

(* A superuser's form, to add a booking or to change one, is valid: the    *)
(* form calls clean and checks the constraint before it saves.             *)
AdminBegin(p) ==
    \E u \in users, d \in Dates, s \in Slots, id \in {0} \cup {b.id : b \in bookings} :
        LET m == [id |-> id, date |-> d, slot |-> s, user |-> u, by |-> "admin"]
        IN  /\ Write /\ Clean(m) /\ Unique(m)
            /\ Start(p, IF id = 0 THEN "add" ELSE "change", "clean", m)

SaveClean(p) == Step(p, "clean", "write") /\ Clean(mem[p]) /\ UNCHANGED <<table, mem>>

(* ValidationError: book_slot answers 400, the admin does not catch it.    *)
SaveRefused(p) ==
    /\ Return(p, "clean", IF mem[p].by = "member" THEN "400" ELSE "500")
    /\ ~ Clean(mem[p]) /\ UNCHANGED table

(* INSERT; or UPDATE by primary key, and INSERT if the row is gone.        *)
(* WriteAnyway is the slip of a table without the constraint.              *)
Row(m) == [id |-> IF m.id = 0 THEN nextId ELSE m.id, date |-> m.date, slot |-> m.slot, user |-> m.user]
Written(p) ==
    /\ Finish(p, "write", "200") /\ mem[p].user \in users
    /\ bookings' = {b \in bookings : b.id # mem[p].id} \cup {Row(mem[p])} /\ shown' = {}
    /\ nextId' = IF mem[p].id = 0 THEN nextId + 1 ELSE nextId
    /\ UNCHANGED users
WriteAnyway(p) == Written(p)
SaveWrite(p) == Written(p) /\ Unique(mem[p])

(* IntegrityError: the slot is taken, or the account is gone.  A failed    *)
(* INSERT has used up its primary key.                                     *)
SaveConflict(p) ==
    /\ Return(p, "write", "500")
    /\ ~ Unique(mem[p]) \/ mem[p].user \notin users
    /\ nextId' = IF mem[p].id = 0 THEN nextId + 1 ELSE nextId
    /\ UNCHANGED <<bookings, users>>

-----------------------------------------------------------------------------
(* Cancelling a booking.                                                   *)

CancelBegin(p) ==
    \E u \in users, d \in Dates, s \in Slots :
        /\ UNCHANGED writes
        /\ Start(p, "cancel", "get", [id |-> 0, date |-> d, slot |-> s, user |-> u, by |-> "member"])

(* The booking of the slot that belongs to the user.  FoundAny is the slip *)
(* of leaving the user out of the query.                                   *)
FoundAny(m) == {b \in bookings : b.date = m.date /\ b.slot = m.slot}
Found(m) == {b \in bookings : b.date = m.date /\ b.slot = m.slot /\ b.user = m.user}

CancelFound(p) ==
    /\ Step(p, "get", "delete")
    /\ \E b \in Found(mem[p]) : mem' = [mem EXCEPT ![p].id = b.id]
    /\ UNCHANGED table

CancelNotFound(p) == Return(p, "get", "404") /\ Found(mem[p]) = {} /\ UNCHANGED table

(* booking.delete(): by primary key, whatever the row says by now.         *)
(* CancelBySlot is the slip of deleting by date and slot.                  *)
CancelBySlot(p) ==
    /\ Return(p, "delete", "200")
    /\ bookings' = bookings \ FoundAny(mem[p])
    /\ UNCHANGED <<nextId, users>>
CancelDelete(p) ==
    /\ Return(p, "delete", "200")
    /\ bookings' = {b \in bookings : b.id # mem[p].id}
    /\ UNCHANGED <<nextId, users>>

-----------------------------------------------------------------------------
(* generate_available_slots.                                               *)

ListBegin(p) ==
    \E u \in users :
        UNCHANGED writes /\ Start(p, "list", "list", [user |-> u, days |-> Listed, rows |-> {}])

(* One query a day.  OwnRows is the slip of asking for the member's own    *)
(* bookings.                                                               *)
OwnRows(m, d) == {b \in bookings : b.date = d /\ b.user = m.user}
DayRows(m, d) == {b \in bookings : b.date = d}

(* A slot that no row takes is available, on a day of a booking of the     *)
(* member's own as well; one that a row takes may be the member's own.     *)
Entries(m, d, rows) ==
    {e \in [user : {m.user}, date : {d}, slot : Slots, as : {"available", "own"}] :
        \/ e.as = "available" /\ \A b \in rows : b.slot # e.slot
        \/ e.as = "own" /\ \E b \in rows : b.slot = e.slot /\ b.user = e.user}

ListDay(p) ==
    /\ Goto(p, "list", "owners")
    /\ \E d \in mem[p].days :
          /\ \A e \in mem[p].days : d <= e
          /\ LET rows == DayRows(mem[p], d)
             IN  /\ mem' = [mem EXCEPT ![p].days = @ \ {d}, ![p].rows = rows]
                 /\ shown' = {e \in shown : e.user # mem[p].user \/ e.date # d}
                                  \cup Entries(mem[p], d, rows)
    /\ UNCHANGED table

(* booking.user: one query a row, which fails if the account is gone.      *)
OwnersThere(m) == \A b \in m.rows : b.user \in users
ListOwners(p) ==
    /\ Step(p, "owners", "list") /\ mem[p].days # {} /\ OwnersThere(mem[p])
    /\ UNCHANGED <<table, mem>>
ListReply(p) ==
    /\ Return(p, "owners", "200") /\ mem[p].days = {} /\ OwnersThere(mem[p])
    /\ UNCHANGED table
ListFails(p) == Return(p, "owners", "500") /\ ~ OwnersThere(mem[p]) /\ UNCHANGED table

-----------------------------------------------------------------------------
(* A superuser deletes a booking in the admin.                             *)
AdminDelete ==
    /\ "remove" \in Ops
    /\ \E b \in bookings : bookings' = bookings \ {b}
    /\ UNCHANGED <<nextId, users, pc, mem, answer, shown, writes>>

(* An account is deleted, and its bookings with it; a superuser is left.   *)
(* DeleteUserSetsNull is the slip of on_delete=SET_NULL.                   *)
DeleteUserSetsNull ==
    /\ "leave" \in Ops
    /\ \E u \in users :
          /\ users # {u} /\ users' = users \ {u}
          /\ bookings' = {IF b.user = u THEN [b EXCEPT !.user = Nobody] ELSE b : b \in bookings}
    /\ UNCHANGED <<nextId, pc, mem, answer, shown, writes>>
DeleteUser ==
    /\ "leave" \in Ops
    /\ \E u \in users :
          /\ users # {u} /\ users' = users \ {u}
          /\ bookings' = {b \in bookings : b.user # u}
    /\ UNCHANGED <<nextId, pc, mem, answer, shown, writes>>

Next ==
    \/ AdminDelete \/ DeleteUser
    \/ \E p \in Procs :
          \/ BookBegin(p) \/ AdminBegin(p)
          \/ SaveClean(p) \/ SaveRefused(p) \/ SaveWrite(p) \/ SaveConflict(p)
          \/ CancelBegin(p) \/ CancelFound(p) \/ CancelNotFound(p) \/ CancelDelete(p)
          \/ ListBegin(p) \/ ListDay(p) \/ ListOwners(p) \/ ListReply(p) \/ ListFails(p)

Spec == Init /\ [][Next]_vars

-----------------------------------------------------------------------------
(* Properties.                                                             *)

(* A member has at most one booking a day: clean sees to it, and nothing   *)
(* in the database does.                                                   *)
OnePerDay == \A a, b \in bookings : a.user = b.user /\ a.date = b.date => a = b

(* A cancellation deletes no booking but the one of the member who asked:  *)
(* not one made for the slot since the booking was read.                   *)
CancelsOwn ==
    [][\A p \in Procs : CancelDelete(p) => bookings \ bookings' \subseteq Found(mem[p])]_vars

(* Listing and booking agree: as long as nobody saves a booking, a slot    *)
(* that the last listing showed a member as available is refused to that   *)
(* member only on a day on which it showed the member a booking already,   *)
(* whatever is deleted meanwhile, unless the account itself is gone.       *)
Shows(m, s, as) == [user |-> m.user, date |-> m.date, slot |-> s, as |-> as] \in shown
RefusedMember(p) ==
    (SaveRefused(p) \/ SaveConflict(p)) /\ mem[p].by = "member" /\ mem[p].user \in users
HonoredOffer ==
    [][\A p \in Procs :
          RefusedMember(p) /\ Shows(mem[p], mem[p].slot, "available")
             => \E s \in Slots : Shows(mem[p], s, "own")]_vars

(* The table is a register of slots in which requests take effect at once: *)
(* the two queries of a save and of a cancellation act as one.  A booking  *)
(* is answered 200 only if it took a free slot for a member who is there,  *)
(* a cancellation only if it released the slot or the booking it had read  *)
(* was removed since; a refusal has its reason when it is made, and a      *)
(* listing fails only if an account was deleted while it was made.         *)
RegisterOf(rows) ==
    [k \in Dates \X Slots |->
        LET holders == {b \in rows : b.date = k[1] /\ b.slot = k[2]}
        IN  IF holders = {} THEN Nobody ELSE (CHOOSE b \in holders : TRUE).user]
RequestOf(label, m) ==
    CASE label = "idle" -> Nothing
      [] label \in {"list", "owners"} -> [what |-> "list", user |-> m.user]
      [] label \in {"clean", "write"} -> [what |-> "take", user |-> m.user, key |-> <<m.date, m.slot>>]
      [] OTHER -> [what |-> "release", user |-> m.user, key |-> <<m.date, m.slot>>]
Overtaken(p) ==
    \/ pc[p] = "delete" /\ \A b \in bookings : b.id # mem[p].id
    \/ pc[p] = "owners" /\ ~ OwnersThere(mem[p])
Register == INSTANCE SlotRegister WITH
    register <- RegisterOf(bookings),
    members <- users,
    asked <- [p \in Procs |-> RequestOf(pc[p], mem[p])],
    told <- answer,
    overtaken <- {p \in Procs : Overtaken(p)}
ActsAtOnce == Register!Spec
=============================================================================
