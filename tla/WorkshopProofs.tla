--------------------------- MODULE WorkshopProofs ---------------------------
(***************************************************************************)
(* Theorems about the workshop app, for every value of the constants.      *)
(***************************************************************************)
EXTENDS Workshop, TLAPS

-----------------------------------------------------------------------------
(* Types.  TypeOK says nothing of the memory of an idle thread; that it is *)
(* there to be written is what has to be added.                            *)

AnyMemory == Memory \cup Listing \cup {Nothing}
Shaped == mem \in [Procs -> AnyMemory]
TypeInv == TypeOK /\ Shaped

(* What a label needs of the memory of its thread.                         *)
Fits(label, m) ==
    label # "idle" => m \in IF label \in {"list", "owners"} THEN Listing ELSE Memory

(* A thread moves to a label, with a memory that fits.                     *)
LEMMA MoveTypes ==
  ASSUME TypeInv, NEW p \in Procs, NEW to \in Label, NEW m \in AnyMemory, Fits(to, m),
         pc' = [pc EXCEPT ![p] = to], mem' = [mem EXCEPT ![p] = m]
  PROVE  /\ pc' \in [Procs -> Label] /\ Shaped'
         /\ \A q \in Procs : Fits(pc'[q], mem'[q])
  BY DEF TypeInv, TypeOK, Shaped, Fits

(* A thread moves to a label, and its memory, which fits, stays.           *)
LEMMA StayTypes ==
  ASSUME TypeInv, NEW p \in Procs, NEW to \in Label, Fits(to, mem[p]),
         pc' = [pc EXCEPT ![p] = to], UNCHANGED mem
  PROVE  /\ pc' \in [Procs -> Label] /\ Shaped'
         /\ \A q \in Procs : Fits(pc'[q], mem'[q])
  BY DEF TypeInv, TypeOK, Shaped, Fits

(* TypeInv, conjunct by conjunct.                                          *)
LEMMA Typed ==
  TypeInv <=> /\ bookings \subseteq Booking /\ nextId \in Nat /\ users \subseteq Users
              /\ \A b \in bookings : b.user \in users
              /\ pc \in [Procs -> Label] /\ Shaped
              /\ \A q \in Procs : Fits(pc[q], mem[q])
              /\ shown \subseteq Entry
              /\ answer \in [Procs -> Status] /\ writes \in Nat
  BY DEF TypeInv, TypeOK, Fits

(* The initial state is well typed.                                        *)
LEMMA InitTypes == Init => TypeInv
  BY DEF Init, TypeInv, TypeOK, Shaped, AnyMemory, Label, Status

(* A request begins well typed.                                            *)
LEMMA StartTypes ==
  ASSUME TypeInv, NEW p \in Procs, NEW op, NEW to \in Label, NEW m \in AnyMemory, Fits(to, m),
         Start(p, op, to, m), writes' \in Nat
  PROVE  TypeInv'
<1>1. pc' \in [Procs -> Label] /\ Shaped' /\ \A q \in Procs : Fits(pc'[q], mem'[q])
  BY MoveTypes DEF Start
<1>2. answer' \in [Procs -> Status]
  BY Typed DEF Start, Status
<1> QED
  BY <1>1, <1>2, Typed DEF Start, table, TypeInv, TypeOK, Fits

(* A request about a slot fits where handlers begin.                       *)
LEMMA RequestFits ==
  ASSUME NEW to \in {"clean", "get"}, NEW m \in Memory
  PROVE  to \in Label /\ m \in AnyMemory /\ Fits(to, m)
  BY DEF Label, AnyMemory, Fits

(* A handler goes on to its next access with the memory it has.            *)
LEMMA StepTypes ==
  ASSUME TypeInv, NEW p \in Procs, NEW from, NEW to \in Label, Step(p, from, to),
         Fits(to, mem[p]), UNCHANGED <<table, mem>>
  PROVE  TypeInv'
<1>1. pc' \in [Procs -> Label] /\ Shaped' /\ \A q \in Procs : Fits(pc'[q], mem'[q])
  BY StayTypes DEF Step, Goto
<1> QED
  BY <1>1, Typed DEF Step, Goto, table, TypeInv, TypeOK, Fits

(* A handler answers, and leaves no memory.                                *)
LEMMA FinishTypes ==
  ASSUME TypeInv, NEW p \in Procs, NEW from, NEW status \in Status, Finish(p, from, status),
         bookings' \subseteq Booking, \A b \in bookings' : b.user \in users,
         nextId' \in Nat, UNCHANGED users, shown' \subseteq Entry
  PROVE  TypeInv'
<1>1. Fits("idle", Nothing) /\ "idle" \in Label /\ Nothing \in AnyMemory
  BY DEF Fits, Label, AnyMemory
<1>2. pc' \in [Procs -> Label] /\ Shaped' /\ \A q \in Procs : Fits(pc'[q], mem'[q])
  BY <1>1, MoveTypes DEF Finish
<1>3. answer' \in [Procs -> Status] /\ writes' \in Nat
  BY Typed DEF Finish
<1> QED
  BY <1>2, <1>3, Typed DEF TypeInv, TypeOK, Fits

-----------------------------------------------------------------------------
(* The steps of the handlers keep the types.                               *)

(* Booking and the admin's form.                                           *)
LEMMA SaveTypes ==
  ASSUME TypeInv, NEW p \in Procs,
         \/ BookBegin(p) \/ AdminBegin(p)
         \/ SaveClean(p) \/ SaveRefused(p) \/ SaveWrite(p) \/ SaveConflict(p)
  PROVE  TypeInv'
<1>1. CASE BookBegin(p)
  <2>1. PICK u \in users, d \in Dates, s \in Slots :
            /\ Write
            /\ Start(p, "book", "clean", [id |-> 0, date |-> d, slot |-> s, user |-> u, by |-> "member"])
    BY <1>1 DEF BookBegin
  <2>2. [id |-> 0, date |-> d, slot |-> s, user |-> u, by |-> "member"] \in Memory
    BY Typed DEF Memory
  <2>3. writes' \in Nat
    BY <2>1, Typed DEF Write
  <2> QED
    BY <2>1, <2>2, <2>3, RequestFits, StartTypes
<1>2. CASE AdminBegin(p)
  <2>1. PICK u \in users, d \in Dates, s \in Slots, id \in {0} \cup {b.id : b \in bookings} :
            /\ Write
            /\ Start(p, IF id = 0 THEN "add" ELSE "change", "clean",
                     [id |-> id, date |-> d, slot |-> s, user |-> u, by |-> "admin"])
    BY <1>2 DEF AdminBegin
  <2>2. id \in Nat
    BY Typed DEF Booking
  <2>3. [id |-> id, date |-> d, slot |-> s, user |-> u, by |-> "admin"] \in Memory
    BY <2>2, Typed DEF Memory
  <2>4. writes' \in Nat
    BY <2>1, Typed DEF Write
  <2> QED
    BY <2>1, <2>3, <2>4, RequestFits, StartTypes
<1>3. CASE SaveClean(p)
  <2>1. Fits("write", mem[p]) /\ "write" \in Label
    BY <1>3, Typed DEF SaveClean, Step, Goto, Fits, Label
  <2> QED
    BY <1>3, <2>1, StepTypes DEF SaveClean
<1>4. CASE SaveRefused(p)
  <2>1. (IF mem[p].by = "member" THEN "400" ELSE "500") \in Status
    BY DEF Status
  <2> QED
    BY <1>4, <2>1, FinishTypes, Typed DEF SaveRefused, Return, table
<1>5. CASE SaveWrite(p)
  <2>1. mem[p] \in Memory /\ nextId \in Nat
    BY <1>5, Typed DEF SaveWrite, Written, Finish, Fits
  <2>2. Row(mem[p]) \in Booking
    BY <2>1 DEF Row, Booking, Memory
  <2>3. /\ bookings' \subseteq Booking /\ nextId' \in Nat /\ UNCHANGED users
        /\ shown' \subseteq Entry /\ \A b \in bookings' : b.user \in users
    BY <1>5, <2>1, <2>2, Typed DEF SaveWrite, Written, Row
  <2> QED
    BY <1>5, <2>3, FinishTypes DEF SaveWrite, Written, Status
<1>6. CASE SaveConflict(p)
  BY <1>6, FinishTypes, Typed DEF SaveConflict, Return, Status
<1> QED
  BY <1>1, <1>2, <1>3, <1>4, <1>5, <1>6

(* Cancelling.                                                             *)
LEMMA CancelTypes ==
  ASSUME TypeInv, NEW p \in Procs,
         CancelBegin(p) \/ CancelFound(p) \/ CancelNotFound(p) \/ CancelDelete(p)
  PROVE  TypeInv'
<1>1. CASE CancelBegin(p)
  <2>1. PICK u \in users, d \in Dates, s \in Slots :
            Start(p, "cancel", "get", [id |-> 0, date |-> d, slot |-> s, user |-> u, by |-> "member"])
    BY <1>1 DEF CancelBegin
  <2>2. [id |-> 0, date |-> d, slot |-> s, user |-> u, by |-> "member"] \in Memory
    BY Typed DEF Memory
  <2>3. writes' \in Nat
    BY <1>1, Typed DEF CancelBegin
  <2> QED
    BY <2>1, <2>2, <2>3, RequestFits, StartTypes
<1>2. CASE CancelFound(p)
  <2>1. PICK b \in Found(mem[p]) : mem' = [mem EXCEPT ![p] = [mem[p] EXCEPT !.id = b.id]]
    BY <1>2 DEF CancelFound
  <2>2. mem[p] \in Memory /\ b.id \in Nat
    BY <1>2, Typed DEF CancelFound, Step, Goto, Found, Booking, Fits
  <2>3. [mem[p] EXCEPT !.id = b.id] \in Memory
    BY <2>2 DEF Memory
  <2>4. Fits("delete", [mem[p] EXCEPT !.id = b.id]) /\ "delete" \in Label
        /\ [mem[p] EXCEPT !.id = b.id] \in AnyMemory
    BY <2>3 DEF Fits, Label, AnyMemory
  <2>5. pc' \in [Procs -> Label] /\ Shaped' /\ \A q \in Procs : Fits(pc'[q], mem'[q])
    BY <1>2, <2>1, <2>4, MoveTypes DEF CancelFound, Step, Goto
  <2> QED
    BY <1>2, <2>5, Typed DEF CancelFound, Step, Goto, table, TypeInv, TypeOK, Fits
<1>3. CASE CancelNotFound(p)
  BY <1>3, FinishTypes, Typed DEF CancelNotFound, Return, table, Status
<1>4. CASE CancelDelete(p)
  BY <1>4, FinishTypes, Typed DEF CancelDelete, Return, Status
<1> QED
  BY <1>1, <1>2, <1>3, <1>4

(* The listing.                                                            *)
LEMMA ListTypes ==
  ASSUME TypeInv, NEW p \in Procs,
         ListBegin(p) \/ ListDay(p) \/ ListOwners(p) \/ ListReply(p) \/ ListFails(p)
  PROVE  TypeInv'
<1>1. CASE ListBegin(p)
  <2>1. PICK u \in users : Start(p, "list", "list", [user |-> u, days |-> Listed, rows |-> {}])
    BY <1>1 DEF ListBegin
  <2>2. [user |-> u, days |-> Listed, rows |-> {}] \in Listing
    BY Typed DEF Listing
  <2>3. /\ Fits("list", [user |-> u, days |-> Listed, rows |-> {}]) /\ "list" \in Label
        /\ [user |-> u, days |-> Listed, rows |-> {}] \in AnyMemory
    BY <2>2 DEF Fits, Label, AnyMemory
  <2>4. writes' \in Nat
    BY <1>1, Typed DEF ListBegin
  <2> QED
    BY <2>1, <2>3, <2>4, StartTypes
<1>2. CASE ListDay(p)
  <2> DEFINE m(d) == [mem[p] EXCEPT !.days = @ \ {d}, !.rows = DayRows(mem[p], d)]
  <2>1. PICK d \in mem[p].days :
            /\ mem' = [mem EXCEPT ![p] = m(d)]
            /\ shown' = {e \in shown : e.user # mem[p].user \/ e.date # d}
                            \cup Entries(mem[p], d, DayRows(mem[p], d))
    BY <1>2 DEF ListDay
  <2>2. mem[p] \in Listing
    BY <1>2, Typed DEF ListDay, Goto, Fits
  <2>3. d \in Listed /\ mem[p].user \in Users
    BY <2>2 DEF Listing
  <2>4. m(d) \in Listing
    BY <2>2, Typed DEF Listing, DayRows
  <2>5. Fits("owners", m(d)) /\ "owners" \in Label /\ m(d) \in AnyMemory
    BY <2>4 DEF Fits, Label, AnyMemory
  <2>6. pc' \in [Procs -> Label] /\ Shaped' /\ \A q \in Procs : Fits(pc'[q], mem'[q])
    BY <1>2, <2>1, <2>5, MoveTypes DEF ListDay, Goto
  <2>7. shown' \subseteq Entry
    BY <2>1, <2>3, Typed DEF Entries, Entry
  <2> QED
    BY <1>2, <2>6, <2>7, Typed DEF ListDay, Goto, table, TypeInv, TypeOK, Fits
<1>3. CASE ListOwners(p)
  <2>1. Fits("list", mem[p]) /\ "list" \in Label
    BY <1>3, Typed DEF ListOwners, Step, Goto, Fits, Label
  <2> QED
    BY <1>3, <2>1, StepTypes DEF ListOwners
<1>4. CASE ListReply(p) \/ ListFails(p)
  BY <1>4, FinishTypes, Typed DEF ListReply, ListFails, Return, table, Status
<1> QED
  BY <1>1, <1>2, <1>3, <1>4

(* Every step keeps the types.                                             *)
LEMMA NextTypes == TypeInv /\ [Next]_vars => TypeInv'
<1> SUFFICES ASSUME TypeInv, [Next]_vars PROVE TypeInv'
  OBVIOUS
<1>1. CASE UNCHANGED vars
  BY <1>1 DEF vars, TypeInv, TypeOK, Shaped
<1>2. CASE AdminDelete
  BY <1>2 DEF AdminDelete, TypeInv, TypeOK, Shaped
<1>3. CASE DeleteUser
  BY <1>3 DEF DeleteUser, TypeInv, TypeOK, Shaped
<1> QED
  BY <1>1, <1>2, <1>3, SaveTypes, CancelTypes, ListTypes DEF Next

(* The state always has the types TypeOK gives it.                         *)
THEOREM TypesAlways == Spec => []TypeInv
  BY InitTypes, NextTypes, PTL DEF Spec

(* The state always has the types TypeOK gives it.                         *)
THEOREM TypeCorrect == Spec => []TypeOK
<1>1. TypeInv => TypeOK
  BY DEF TypeInv
<1> QED
  BY <1>1, TypesAlways, PTL

-----------------------------------------------------------------------------
(* What the listing shows.                                                 *)

(* No booking has a slot that the listing shows as available, and if it    *)
(* shows a member no booking of the member's own on the day, the member    *)
(* has none: rows are only deleted until the next save, which clears what  *)
(* was shown.                                                              *)
Own(e) == \E o \in shown : o.user = e.user /\ o.date = e.date /\ o.as = "own"
StillTrue(e) ==
    /\ e.date \in Saturdays
    /\ \A b \in bookings : b.date = e.date => b.slot # e.slot
    /\ Own(e) \/ \A b \in bookings : b.date = e.date => b.user # e.user
ShownIsTrue == \A e \in shown : e.as = "available" => StillTrue(e)

(* Every step keeps it so.                                                 *)
LEMMA NextShown == TypeInv /\ ShownIsTrue /\ [Next]_vars => ShownIsTrue'
<1> SUFFICES ASSUME TypeInv, ShownIsTrue, [Next]_vars PROVE ShownIsTrue'
  OBVIOUS
<1>1. CASE bookings' \subseteq bookings /\ UNCHANGED shown
  BY <1>1 DEF ShownIsTrue, StillTrue, Own
<1>2. ASSUME NEW p \in Procs, ListDay(p) PROVE ShownIsTrue'
  <2> DEFINE u == mem[p].user
  <2>1. PICK d \in mem[p].days :
            shown' = {e \in shown : e.user # u \/ e.date # d} \cup Entries(mem[p], d, DayRows(mem[p], d))
    BY <1>2 DEF ListDay
  <2>2. mem[p] \in Listing /\ UNCHANGED bookings
    BY <1>2, Typed DEF ListDay, Goto, Fits, table
  <2>3. d \in Saturdays
    BY <2>2, CalendarAssumption DEF Listing
  <2>4. ASSUME NEW e \in shown', e.as = "available" PROVE StillTrue(e)'
    <3>1. CASE e.user # u \/ e.date # d
      <4>1. e \in shown
        BY <2>1, <3>1 DEF Entries
      <4>2. Own(e) => Own(e)'
        BY <2>1, <3>1 DEF Own
      <4> QED
        BY <2>2, <2>4, <4>1, <4>2 DEF ShownIsTrue, StillTrue
    <3>2. CASE e.user = u /\ e.date = d
      <4>1. e \in Entries(mem[p], d, DayRows(mem[p], d))
        BY <2>1, <3>2
      <4>2. \A b \in bookings : b.date = d => b.slot # e.slot
        BY <2>4, <4>1 DEF Entries, DayRows
      <4>3. ASSUME NEW b \in bookings, b.date = d, b.user = u PROVE Own(e)'
        <5> DEFINE o == [user |-> u, date |-> d, slot |-> b.slot, as |-> "own"]
        <5>1. b.slot \in Slots /\ b \in DayRows(mem[p], d)
          BY <4>3, Typed DEF Booking, DayRows
        <5>2. o \in Entries(mem[p], d, DayRows(mem[p], d))
          BY <4>3, <5>1 DEF Entries
        <5> QED
          BY <2>1, <3>2, <5>2 DEF Own
      <4> QED
        BY <2>2, <2>3, <3>2, <4>2, <4>3 DEF StillTrue
    <3> QED
      BY <3>1, <3>2
  <2> QED
    BY <2>4 DEF ShownIsTrue
<1>3. ASSUME NEW p \in Procs, SaveWrite(p) PROVE ShownIsTrue'
  BY <1>3 DEF SaveWrite, Written, ShownIsTrue
<1>4. CASE UNCHANGED vars
  BY <1>1, <1>4 DEF vars
<1>5. CASE AdminDelete \/ DeleteUser
  BY <1>1, <1>5 DEF AdminDelete, DeleteUser
<1>6. ASSUME NEW p \in Procs, BookBegin(p) \/ AdminBegin(p) \/ CancelBegin(p) \/ ListBegin(p)
      PROVE  ShownIsTrue'
  BY <1>1, <1>6 DEF BookBegin, AdminBegin, CancelBegin, ListBegin, Start, table
<1>7. ASSUME NEW p \in Procs,
             \/ SaveClean(p) \/ SaveRefused(p) \/ SaveConflict(p)
             \/ CancelFound(p) \/ CancelNotFound(p) \/ CancelDelete(p)
             \/ ListOwners(p) \/ ListReply(p) \/ ListFails(p)
      PROVE  ShownIsTrue'
  BY <1>1, <1>7 DEF SaveClean, SaveRefused, SaveConflict, CancelFound, CancelNotFound, CancelDelete,
                    ListOwners, ListReply, ListFails, Step, Goto, Return, table
<1> QED
  BY <1>2, <1>3, <1>4, <1>5, <1>6, <1>7 DEF Next

(* Whatever interleaves, before somebody saves a booking, a slot that the  *)
(* last listing showed a member as available is refused to the member only *)
(* on a day on which it showed a booking of the member's own.              *)
THEOREM OffersAreHonored == Spec => HonoredOffer
<1>1. Init => ShownIsTrue
  BY DEF Init, ShownIsTrue
<1>2. TypeInv /\ ShownIsTrue /\ [Next]_vars =>
        [\A p \in Procs :
            RefusedMember(p) /\ Shows(mem[p], mem[p].slot, "available")
               => \E s \in Slots : Shows(mem[p], s, "own")]_vars
  <2> SUFFICES ASSUME TypeInv, ShownIsTrue, NEW p \in Procs,
                      RefusedMember(p), Shows(mem[p], mem[p].slot, "available")
               PROVE  \E s \in Slots : Shows(mem[p], s, "own")
    OBVIOUS
  <2> DEFINE m == mem[p]
             e == [user |-> m.user, date |-> m.date, slot |-> m.slot, as |-> "available"]
  <2>1. ~ Clean(m) \/ ~ Unique(m)
    BY DEF RefusedMember, SaveRefused, SaveConflict
  <2>2. StillTrue(e)
    BY DEF Shows, ShownIsTrue
  <2>3. Unique(m)
    BY <2>2 DEF StillTrue, Unique
  <2>4. \E b \in bookings : b.user = m.user /\ b.date = m.date
    BY <2>1, <2>2, <2>3 DEF StillTrue, Clean
  <2>5. PICK o \in shown : o.user = m.user /\ o.date = m.date /\ o.as = "own"
    BY <2>2, <2>4 DEF StillTrue, Own
  <2>6. o.slot \in Slots /\ o = [user |-> m.user, date |-> m.date, slot |-> o.slot, as |-> "own"]
    BY <2>5, Typed DEF Entry
  <2> QED
    BY <2>6 DEF Shows
<1> QED
  BY <1>1, <1>2, NextShown, TypesAlways, PTL DEF Spec, HonoredOffer

-----------------------------------------------------------------------------
(* One booking a day.                                                      *)

OneThread == \A p, q \in Procs : p = q

(* A thread that is about to write has validated, and nothing was saved    *)
(* since: there is nobody else who saves.                                  *)
Validated == \A p \in Procs : pc[p] = "write" => Clean(mem[p])

(* A single thread keeps the rule.                                         *)
LEMMA NextPerDay ==
  ASSUME OneThread
  PROVE  TypeInv /\ Validated /\ OnePerDay /\ [Next]_vars => Validated' /\ OnePerDay'
<1> SUFFICES ASSUME TypeInv, Validated, OnePerDay, [Next]_vars PROVE Validated' /\ OnePerDay'
  OBVIOUS
<1>1. ASSUME bookings' \subseteq bookings, NEW m, Clean(m) PROVE Clean(m)'
  BY <1>1 DEF Clean
<1>2. ASSUME bookings' \subseteq bookings PROVE OnePerDay'
  BY <1>2 DEF OnePerDay
<1>3. CASE UNCHANGED vars
  BY <1>3 DEF vars, Validated, OnePerDay, Clean
<1>4. CASE AdminDelete \/ DeleteUser
  BY <1>2, <1>4 DEF AdminDelete, DeleteUser, Validated, Clean
<1>5. ASSUME NEW p \in Procs, SaveWrite(p) PROVE Validated' /\ OnePerDay'
  <2>1. Clean(mem[p]) /\ pc'[p] = "idle"
    BY <1>5, Typed DEF SaveWrite, Written, Finish, Validated
  <2>2. Validated'
    BY <2>1 DEF Validated, OneThread
  <2>3. bookings' = {b \in bookings : b.id # mem[p].id} \cup {Row(mem[p])}
    BY <1>5 DEF SaveWrite, Written
  <2>4. Row(mem[p]).user = mem[p].user /\ Row(mem[p]).date = mem[p].date
    BY DEF Row
  <2> QED
    BY <2>1, <2>2, <2>3, <2>4 DEF OnePerDay, Clean
<1>6. ASSUME NEW p \in Procs, SaveClean(p) PROVE Validated' /\ OnePerDay'
  BY <1>6 DEF SaveClean, Step, Goto, table, Validated, OneThread, OnePerDay, Clean
<1>7. ASSUME NEW p \in Procs, pc'[p] # "write", bookings' \subseteq bookings PROVE Validated' /\ OnePerDay'
  BY <1>2, <1>7 DEF Validated, OneThread
<1>8. ASSUME NEW p \in Procs, BookBegin(p) \/ AdminBegin(p) \/ CancelBegin(p) \/ ListBegin(p)
      PROVE  Validated' /\ OnePerDay'
  <2>1. pc'[p] # "write" /\ UNCHANGED bookings
    BY <1>8, Typed DEF BookBegin, AdminBegin, CancelBegin, ListBegin, Start, table
  <2> QED
    BY <1>7, <2>1
<1>9. ASSUME NEW p \in Procs,
             \/ SaveRefused(p) \/ SaveConflict(p) \/ CancelFound(p) \/ CancelNotFound(p)
             \/ CancelDelete(p) \/ ListDay(p) \/ ListOwners(p) \/ ListReply(p) \/ ListFails(p)
      PROVE  Validated' /\ OnePerDay'
  <2>1. pc'[p] # "write" /\ bookings' \subseteq bookings
    BY <1>9, Typed DEF SaveRefused, SaveConflict, CancelFound, CancelNotFound, CancelDelete,
                       ListDay, ListOwners, ListReply, ListFails, Step, Goto, Return, Finish, table
  <2> QED
    BY <1>7, <2>1
<1> QED
  BY <1>3, <1>4, <1>5, <1>6, <1>8, <1>9 DEF Next

(* As long as requests come one at a time, a member has at most one        *)
(* booking a day, whatever the admin changes and whoever leaves.           *)
THEOREM OneBookingPerDay ==
  ASSUME OneThread
  PROVE  Spec => []OnePerDay
<1>1. Init => Validated /\ OnePerDay
  BY DEF Init, Validated, OnePerDay
<1> QED
  BY <1>1, NextPerDay, TypesAlways, PTL DEF Spec

-----------------------------------------------------------------------------
(* The table is a register.  An admin who changes a booking moves it, which*)
(* is no operation of a register, so that is left out from here on.        *)

NoChange == "change" \notin Ops

(* Primary keys and slots are unique, and the sequence is ahead of both    *)
(* the table and the requests.                                             *)
KeysUnique ==
    /\ nextId > 0
    /\ \A b \in bookings : 0 < b.id /\ b.id < nextId
    /\ \A a, b \in bookings : a.id = b.id => a = b
    /\ \A a, b \in bookings : a.date = b.date /\ a.slot = b.slot => a = b

(* A save inserts, on a Saturday once it has validated; the row a          *)
(* cancellation has read is still what it was, or gone.                    *)
Knows(rows, next, label, m) ==
    /\ label \in {"clean", "write"} => m.id = 0
    /\ label = "write" => m.date \in Saturdays
    /\ label = "delete" =>
          /\ m.id \in Nat /\ 0 < m.id /\ m.id < next
          /\ \A b \in rows : b.id = m.id => b.date = m.date /\ b.slot = m.slot /\ b.user = m.user
AllKnow == \A p \in Procs : Knows(bookings, nextId, pc[p], mem[p])

TableInv == TypeInv /\ KeysUnique /\ AllKnow

(* A thread moves on, and rows are at most deleted.                        *)
LEMMA MoveKnows ==
  ASSUME TableInv, NEW p \in Procs, NEW to, NEW m, Knows(bookings, nextId, to, m),
         pc' = [pc EXCEPT ![p] = to], mem' = [mem EXCEPT ![p] = m],
         bookings' \subseteq bookings, nextId' \in Nat, nextId <= nextId'
  PROVE  KeysUnique' /\ AllKnow'
<1>1. nextId \in Nat /\ \A b \in bookings : b.id \in Nat
  BY Typed DEF TableInv, Booking
<1>2. KeysUnique'
  BY <1>1 DEF TableInv, KeysUnique
<1>3. ASSUME NEW label, NEW n, Knows(bookings, nextId, label, n)
      PROVE  Knows(bookings', nextId', label, n)
  BY <1>1, <1>3 DEF Knows
<1>4. ASSUME NEW q \in Procs PROVE Knows(bookings', nextId', pc'[q], mem'[q])
  <2>1. pc'[q] = (IF q = p THEN to ELSE pc[q]) /\ mem'[q] = (IF q = p THEN m ELSE mem[q])
    BY Typed DEF TableInv, Shaped
  <2>2. Knows(bookings, nextId, pc[q], mem[q])
    BY DEF TableInv, AllKnow
  <2> QED
    BY <1>3, <2>1, <2>2
<1> QED
  BY <1>2, <1>4 DEF AllKnow

(* The same, for a thread that keeps its memory.                           *)
LEMMA StayKnows ==
  ASSUME TableInv, NEW p \in Procs, NEW to, Knows(bookings, nextId, to, mem[p]),
         pc' = [pc EXCEPT ![p] = to], UNCHANGED <<mem, table>>
  PROVE  KeysUnique' /\ AllKnow'
<1>1. mem' = [mem EXCEPT ![p] = mem[p]]
  BY Typed DEF TableInv, Shaped
<1>2. bookings' \subseteq bookings /\ nextId' \in Nat /\ nextId <= nextId'
  BY Typed DEF TableInv, table
<1> QED
  BY <1>1, <1>2, MoveKnows

(* A request that is over, or one that lists, needs to know nothing.       *)
LEMMA KnowsNothing ==
  ASSUME NEW label \in {"idle", "get", "list", "owners"}, NEW m
  PROVE  Knows(bookings, nextId, label, m)
  BY DEF Knows

(* A handler answers, and no row is added.                                 *)
LEMMA FinishKnows ==
  ASSUME TableInv, NEW p \in Procs, NEW from, NEW status, Finish(p, from, status),
         bookings' \subseteq bookings, nextId' \in Nat, nextId <= nextId'
  PROVE  KeysUnique' /\ AllKnow'
  BY MoveKnows, KnowsNothing DEF Finish

(* Requests begin knowing what they need.                                  *)
LEMMA StartKnows ==
  ASSUME TableInv, NEW p \in Procs, NEW op, NEW to, NEW m, Start(p, op, to, m),
         Knows(bookings, nextId, to, m)
  PROVE  KeysUnique' /\ AllKnow'
<1>1. bookings' \subseteq bookings /\ nextId' \in Nat /\ nextId <= nextId'
  BY Typed DEF TableInv, Start, table
<1> QED
  BY <1>1, MoveKnows DEF Start

(* Saving keeps keys and slots unique.                                     *)
LEMMA SaveKnows ==
  ASSUME NoChange, TableInv, NEW p \in Procs,
         \/ BookBegin(p) \/ AdminBegin(p)
         \/ SaveClean(p) \/ SaveRefused(p) \/ SaveWrite(p) \/ SaveConflict(p)
  PROVE  KeysUnique' /\ AllKnow'
<1>1. CASE BookBegin(p)
  <2>1. PICK u \in users, d \in Dates, s \in Slots :
            Start(p, "book", "clean", [id |-> 0, date |-> d, slot |-> s, user |-> u, by |-> "member"])
    BY <1>1 DEF BookBegin
  <2>2. Knows(bookings, nextId, "clean", [id |-> 0, date |-> d, slot |-> s, user |-> u, by |-> "member"])
    BY DEF Knows
  <2> QED
    BY <2>1, <2>2, StartKnows
<1>2. CASE AdminBegin(p)
  <2>1. PICK u \in users, d \in Dates, s \in Slots, id \in {0} \cup {b.id : b \in bookings} :
            Start(p, IF id = 0 THEN "add" ELSE "change", "clean",
                  [id |-> id, date |-> d, slot |-> s, user |-> u, by |-> "admin"])
    BY <1>2 DEF AdminBegin
  <2>2. id = 0
    BY <2>1 DEF Start, NoChange
  <2>3. Knows(bookings, nextId, "clean", [id |-> id, date |-> d, slot |-> s, user |-> u, by |-> "admin"])
    BY <2>2 DEF Knows
  <2> QED
    BY <2>1, <2>3, StartKnows
<1>3. CASE SaveClean(p)
  <2>1. Knows(bookings, nextId, pc[p], mem[p]) /\ pc[p] = "clean" /\ Clean(mem[p])
    BY <1>3 DEF TableInv, AllKnow, SaveClean, Step, Goto
  <2>2. Knows(bookings, nextId, "write", mem[p])
    BY <2>1 DEF Knows, Clean
  <2> QED
    BY <1>3, <2>2, StayKnows DEF SaveClean, Step, Goto
<1>4. CASE SaveRefused(p)
  <2>1. bookings' \subseteq bookings /\ nextId' \in Nat /\ nextId <= nextId'
    BY <1>4, Typed DEF TableInv, SaveRefused, table
  <2> QED
    BY <1>4, <2>1, FinishKnows DEF SaveRefused, Return
<1>5. CASE SaveWrite(p)
  <2>1. mem[p].id = 0
    BY <1>5 DEF SaveWrite, Written, Finish, TableInv, AllKnow, Knows
  <2>2. nextId \in Nat /\ nextId > 0 /\ nextId' = nextId + 1 /\ \A b \in bookings : b.id \in Nat
    BY <1>5, <2>1, Typed DEF SaveWrite, Written, TableInv, KeysUnique, Booking
  <2>3. bookings' = bookings \cup {Row(mem[p])}
    BY <1>5, <2>1 DEF SaveWrite, Written, TableInv, KeysUnique
  <2>4. Row(mem[p]).id = nextId /\ Row(mem[p]).date = mem[p].date /\ Row(mem[p]).slot = mem[p].slot
    BY <2>1 DEF Row
  <2>5. \A b \in bookings : b.date # mem[p].date \/ b.slot # mem[p].slot
    BY <1>5, <2>1 DEF SaveWrite, Unique, TableInv, KeysUnique
  <2>6. KeysUnique'
    BY <2>2, <2>3, <2>4, <2>5 DEF TableInv, KeysUnique
  <2>7. ASSUME NEW q \in Procs PROVE Knows(bookings', nextId', pc'[q], mem'[q])
    <3>1. CASE q = p
      <4>1. pc'[q] = "idle"
        BY <1>5, <3>1, Typed DEF SaveWrite, Written, Finish, TableInv
      <4> QED
        BY <4>1 DEF Knows
    <3>2. CASE q # p
      <4>1. pc'[q] = pc[q] /\ mem'[q] = mem[q]
        BY <1>5, <3>2, Typed DEF SaveWrite, Written, Finish, TableInv, Shaped
      <4>2. Knows(bookings, nextId, pc[q], mem[q])
        BY DEF TableInv, AllKnow
      <4> QED
        BY <2>2, <2>3, <2>4, <4>1, <4>2 DEF Knows
    <3> QED
      BY <3>1, <3>2
  <2> QED
    BY <2>6, <2>7 DEF AllKnow
<1>6. CASE SaveConflict(p)
  <2>1. bookings' \subseteq bookings /\ nextId' \in Nat /\ nextId <= nextId'
    BY <1>6, Typed DEF TableInv, SaveConflict
  <2> QED
    BY <1>6, <2>1, FinishKnows DEF SaveConflict, Return
<1> QED
  BY <1>1, <1>2, <1>3, <1>4, <1>5, <1>6

(* Cancelling deletes by a key that was read.                              *)
LEMMA CancelKnows ==
  ASSUME TableInv, NEW p \in Procs,
         CancelBegin(p) \/ CancelFound(p) \/ CancelNotFound(p) \/ CancelDelete(p)
  PROVE  KeysUnique' /\ AllKnow'
<1>1. CASE CancelBegin(p)
  BY <1>1, StartKnows, KnowsNothing DEF CancelBegin
<1>2. CASE CancelFound(p)
  <2>1. PICK b \in Found(mem[p]) : mem' = [mem EXCEPT ![p] = [mem[p] EXCEPT !.id = b.id]]
    BY <1>2 DEF CancelFound
  <2>2. mem[p] \in Memory
    BY <1>2, Typed DEF TableInv, CancelFound, Step, Goto, Fits
  <2>3. /\ b \in bookings /\ b.id \in Nat
        /\ b.date = mem[p].date /\ b.slot = mem[p].slot /\ b.user = mem[p].user
    BY Typed DEF TableInv, Found, Booking
  <2> DEFINE m == [mem[p] EXCEPT !.id = b.id]
  <2>4. m.id = b.id /\ m.date = b.date /\ m.slot = b.slot /\ m.user = b.user
    BY <2>2, <2>3 DEF Memory
  <2> HIDE DEF m
  <2>5. Knows(bookings, nextId, "delete", m)
    BY <2>3, <2>4 DEF Knows, TableInv, KeysUnique
  <2>6. bookings' \subseteq bookings /\ nextId' \in Nat /\ nextId <= nextId'
    BY <1>2, Typed DEF TableInv, CancelFound, table
  <2> QED
    BY <1>2, <2>1, <2>5, <2>6, MoveKnows DEF CancelFound, Step, Goto, m
<1>3. CASE CancelNotFound(p)
  <2>1. bookings' \subseteq bookings /\ nextId' \in Nat /\ nextId <= nextId'
    BY <1>3, Typed DEF TableInv, CancelNotFound, table
  <2> QED
    BY <1>3, <2>1, FinishKnows DEF CancelNotFound, Return
<1>4. CASE CancelDelete(p)
  <2>1. bookings' \subseteq bookings /\ nextId' \in Nat /\ nextId <= nextId'
    BY <1>4, Typed DEF TableInv, CancelDelete
  <2> QED
    BY <1>4, <2>1, FinishKnows DEF CancelDelete, Return
<1> QED
  BY <1>1, <1>2, <1>3, <1>4

(* The listing writes nothing.                                             *)
LEMMA ListKnows ==
  ASSUME TableInv, NEW p \in Procs,
         ListBegin(p) \/ ListDay(p) \/ ListOwners(p) \/ ListReply(p) \/ ListFails(p)
  PROVE  KeysUnique' /\ AllKnow'
<1>1. UNCHANGED <<bookings, nextId>> /\ \A q \in Procs \ {p} : pc'[q] = pc[q] /\ mem'[q] = mem[q]
  BY Typed DEF TableInv, Shaped, ListBegin, ListDay, ListOwners, ListReply, ListFails,
               Start, Step, Goto, Return, Finish, table
<1>2. pc'[p] \in {"idle", "list", "owners"}
  BY Typed DEF TableInv, ListBegin, ListDay, ListOwners, ListReply, ListFails, Start, Step, Goto, Return, Finish
<1>3. KeysUnique'
  BY <1>1 DEF TableInv, KeysUnique
<1>4. ASSUME NEW q \in Procs PROVE Knows(bookings', nextId', pc'[q], mem'[q])
  BY <1>1, <1>2 DEF TableInv, AllKnow, Knows
<1> QED
  BY <1>3, <1>4 DEF AllKnow

(* TableInv holds in the beginning.                                        *)
LEMMA InitTable == Init => TableInv
<1> SUFFICES ASSUME Init PROVE TableInv
  OBVIOUS
<1>1. KeysUnique /\ AllKnow
  BY DEF Init, KeysUnique, AllKnow, Knows
<1> QED
  BY <1>1, InitTypes DEF TableInv

(* Every step keeps it.                                                    *)
LEMMA NextTable ==
  ASSUME NoChange
  PROVE  TableInv /\ [Next]_vars => TableInv'
<1> SUFFICES ASSUME TableInv, [Next]_vars PROVE TableInv'
  OBVIOUS
<1>1. TypeInv'
  BY NextTypes DEF TableInv
<1>2. CASE UNCHANGED vars
  BY <1>1, <1>2 DEF vars, TableInv, KeysUnique, AllKnow, Knows
<1>3. CASE AdminDelete \/ DeleteUser
  <2>1. bookings' \subseteq bookings /\ UNCHANGED <<nextId, pc, mem>>
    BY <1>3 DEF AdminDelete, DeleteUser
  <2>2. KeysUnique' /\ AllKnow'
    BY <2>1 DEF TableInv, KeysUnique, AllKnow, Knows
  <2> QED
    BY <1>1, <2>2 DEF TableInv
<1> QED
  BY <1>1, <1>2, <1>3, SaveKnows, CancelKnows, ListKnows DEF Next, TableInv

(* The invariant of the table always holds.                                *)
THEOREM TableAlways ==
  ASSUME NoChange
  PROVE  Spec => []TableInv
  BY InitTable, NextTable, PTL DEF Spec

(* A cancellation deletes only the booking of the member who asked,        *)
(* whatever happens between its two queries.                               *)
THEOREM OnlyOwnCancelled ==
  ASSUME NoChange
  PROVE  Spec => CancelsOwn
<1>1. TableInv /\ [Next]_vars =>
        [\A p \in Procs : CancelDelete(p) => bookings \ bookings' \subseteq Found(mem[p])]_vars
  <2> SUFFICES ASSUME TableInv, NEW p \in Procs, CancelDelete(p)
               PROVE  bookings \ bookings' \subseteq Found(mem[p])
    OBVIOUS
  <2>1. Knows(bookings, nextId, "delete", mem[p])
    BY DEF TableInv, AllKnow, CancelDelete, Return, Finish
  <2> QED
    BY <2>1 DEF CancelDelete, Knows, Found
<1> QED
  BY <1>1, TableAlways, PTL DEF Spec, CancelsOwn

-----------------------------------------------------------------------------
(* Every step of Workshop is one of SlotRegister, or none.                 *)

Exclusive(rows) == \A a, b \in rows : a.date = b.date /\ a.slot = b.slot => a = b

(* A slot that is booked is its holder's, and one that is not is nobody's. *)
LEMMA RegisterTaken ==
  ASSUME NEW rows \in SUBSET Booking, Exclusive(rows), NEW b \in rows
  PROVE  RegisterOf(rows)[<<b.date, b.slot>>] = b.user
<1> DEFINE holders == {c \in rows : c.date = b.date /\ c.slot = b.slot}
<1>1. holders = {b}
  BY DEF Exclusive
<1>2. <<b.date, b.slot>> \in Dates \X Slots
  BY DEF Booking
<1> QED
  BY <1>1, <1>2 DEF RegisterOf

(* A slot without a booking is nobody's.                                   *)
LEMMA RegisterFree ==
  ASSUME NEW rows \in SUBSET Booking, NEW k \in Dates \X Slots,
         \A b \in rows : b.date # k[1] \/ b.slot # k[2]
  PROVE  RegisterOf(rows)[k] = Nobody
  BY DEF RegisterOf

(* Inserting a booking takes its slot.                                     *)
LEMMA RegisterInsert ==
  ASSUME NEW rows \in SUBSET Booking, NEW b \in Booking, Exclusive(rows \cup {b}),
         \A c \in rows : c.date # b.date \/ c.slot # b.slot
  PROVE  RegisterOf(rows \cup {b}) = [RegisterOf(rows) EXCEPT ![<<b.date, b.slot>>] = b.user]
<1> DEFINE more == rows \cup {b}
<1>1. more \in SUBSET Booking /\ Exclusive(rows)
  BY DEF Exclusive
<1>2. ASSUME NEW k \in Dates \X Slots
      PROVE  RegisterOf(more)[k] = IF k = <<b.date, b.slot>> THEN b.user ELSE RegisterOf(rows)[k]
  <2>1. CASE k = <<b.date, b.slot>>
    BY <1>1, <2>1, RegisterTaken
  <2>2. CASE k # <<b.date, b.slot>>
    <3>1. b.date # k[1] \/ b.slot # k[2]
      BY <2>2
    <3>2. CASE \E c \in rows : c.date = k[1] /\ c.slot = k[2]
      <4>1. PICK c \in rows : c.date = k[1] /\ c.slot = k[2]
        BY <3>2
      <4>2. k = <<c.date, c.slot>>
        BY <4>1
      <4> QED
        BY <1>1, <2>2, <4>2, RegisterTaken
    <3>3. CASE \A c \in rows : c.date # k[1] \/ c.slot # k[2]
      BY <1>1, <2>2, <3>1, <3>3, RegisterFree
    <3> QED
      BY <3>2, <3>3
  <2> QED
    BY <2>1, <2>2
<1> DEFINE before == RegisterOf(rows)
           after == RegisterOf(more)
<1>3. /\ before = [k \in Dates \X Slots |-> before[k]]
      /\ after = [k \in Dates \X Slots |-> after[k]]
  BY DEF RegisterOf
<1>4. \A k \in Dates \X Slots : after[k] = IF k = <<b.date, b.slot>> THEN b.user ELSE before[k]
  BY <1>2
<1>5. after = [before EXCEPT ![<<b.date, b.slot>>] = b.user]
  <2> HIDE DEF before, after
  <2> QED
    BY <1>3, <1>4
<1> QED
  BY <1>5

(* Deleting bookings releases their slots.                                 *)
LEMMA RegisterDelete ==
  ASSUME NEW rows \in SUBSET Booking, NEW gone \in SUBSET rows, Exclusive(rows),
         NEW k \in Dates \X Slots
  PROVE  RegisterOf(rows \ gone)[k] =
            IF \E b \in gone : b.date = k[1] /\ b.slot = k[2] THEN Nobody ELSE RegisterOf(rows)[k]
<1> DEFINE left == rows \ gone
<1>1. left \in SUBSET Booking /\ Exclusive(left)
  BY DEF Exclusive
<1>2. CASE \E b \in gone : b.date = k[1] /\ b.slot = k[2]
  <2>1. \A c \in left : c.date # k[1] \/ c.slot # k[2]
    BY <1>2 DEF Exclusive
  <2> QED
    BY <1>1, <1>2, <2>1, RegisterFree
<1>3. CASE \A b \in gone : b.date # k[1] \/ b.slot # k[2]
  <2>1. CASE \E c \in left : c.date = k[1] /\ c.slot = k[2]
    <3>1. PICK c \in left : c.date = k[1] /\ c.slot = k[2]
      BY <2>1
    <3>2. k = <<c.date, c.slot>>
      BY <3>1
    <3> QED
      BY <1>1, <1>3, <3>2, RegisterTaken
  <2>2. CASE \A c \in left : c.date # k[1] \/ c.slot # k[2]
    BY <1>1, <1>3, <2>2, RegisterFree
  <2> QED
    BY <2>1, <2>2
<1> QED
  BY <1>2, <1>3

(* The register of a table, but with some slots free.                      *)
Without(rows, freed) == [k \in Dates \X Slots |-> IF k \in freed THEN Nobody ELSE RegisterOf(rows)[k]]

(* Deleting bookings releases their slots and no others.                   *)
LEMMA RegisterFreed ==
  ASSUME NEW rows \in SUBSET Booking, NEW gone \in SUBSET rows, Exclusive(rows), NEW freed,
         \A k \in Dates \X Slots : k \in freed <=> \E b \in gone : b.date = k[1] /\ b.slot = k[2]
  PROVE  RegisterOf(rows \ gone) = Without(rows, freed)
<1> DEFINE before == RegisterOf(rows)
           after == RegisterOf(rows \ gone)
<1>1. \A k \in Dates \X Slots : after[k] = IF k \in freed THEN Nobody ELSE before[k]
  BY RegisterDelete
<1>2. after = [k \in Dates \X Slots |-> after[k]]
  BY DEF RegisterOf
<1>3. after = [k \in Dates \X Slots |-> IF k \in freed THEN Nobody ELSE before[k]]
  <2> HIDE DEF before, after
  <2> QED
    BY <1>1, <1>2
<1> QED
  BY <1>3 DEF Without

(* The slots of a user's bookings are those the register has for the user. *)
LEMMA HeldBy ==
  ASSUME NEW rows \in SUBSET Booking, Exclusive(rows), NEW u \in Users, NEW k \in Dates \X Slots
  PROVE  RegisterOf(rows)[k] = u <=> \E b \in rows : b.user = u /\ b.date = k[1] /\ b.slot = k[2]
<1>1. CASE \E b \in rows : b.date = k[1] /\ b.slot = k[2]
  <2>1. PICK b \in rows : b.date = k[1] /\ b.slot = k[2]
    BY <1>1
  <2>2. k = <<b.date, b.slot>>
    BY <2>1
  <2>3. RegisterOf(rows)[k] = b.user
    BY <2>2, RegisterTaken
  <2> QED
    BY <2>1, <2>3 DEF Exclusive
<1>2. CASE \A b \in rows : b.date # k[1] \/ b.slot # k[2]
  BY <1>2, RegisterFree, NobodyAssumption
<1> QED
  BY <1>1, <1>2

(* What the threads are asked, and who has been overtaken, as SlotRegister *)
(* has it.                                                                 *)
Asked == [p \in Procs |-> RequestOf(pc[p], mem[p])]
Late == {p \in Procs : Overtaken(p)}
Taking == {"clean", "write"}
Releasing == {"get", "delete"}
Showing == {"list", "owners"}
What(label) == IF label \in Taking THEN "take" ELSE IF label \in Releasing THEN "release" ELSE "list"

(* A busy thread has a request.                                            *)
LEMMA RequestType ==
  ASSUME NEW label \in Label, label # "idle", NEW m, Fits(label, m)
  PROVE  /\ RequestOf(label, m) \in Register!Request /\ RequestOf(label, m) # Nothing
         /\ RequestOf(label, m).what = What(label) /\ RequestOf(label, m).user = m.user
         /\ label \notin Showing => RequestOf(label, m).key = <<m.date, m.slot>>
<1>1. CASE label \in Showing
  <2>1. m.user \in Users
    BY <1>1 DEF Fits, Showing, Listing
  <2>2. RequestOf(label, m) = [what |-> "list", user |-> m.user]
    BY <1>1 DEF RequestOf, Showing
  <2>3. RequestOf(label, m) \in [what : {"list"}, user : Users]
    BY <2>1, <2>2
  <2>4. What(label) = "list"
    BY <1>1 DEF What, Showing, Taking, Releasing
  <2> QED
    BY <1>1, <2>2, <2>3, <2>4, NobodyAssumption DEF Register!Request, Register!Listing
<1>2. CASE label \in Taking \cup Releasing
  <2>1. m.user \in Users /\ <<m.date, m.slot>> \in Dates \X Slots
    BY <1>2 DEF Fits, Memory, Taking, Releasing
  <2>2. RequestOf(label, m) = [what |-> What(label), user |-> m.user, key |-> <<m.date, m.slot>>]
    BY <1>2 DEF RequestOf, What, Taking, Releasing
  <2>3. RequestOf(label, m) \in [what : {"take", "release"}, user : Users, key : Dates \X Slots]
    BY <1>2, <2>1, <2>2 DEF What
  <2> QED
    BY <2>2, <2>3, NobodyAssumption DEF Register!Request, Register!Booking, Register!Keys
<1> QED
  BY <1>1, <1>2 DEF Label, Showing, Taking, Releasing

(* The request of a thread that moves, whose memory may change.            *)
LEMMA AskedMove ==
  ASSUME TypeInv, NEW p \in Procs, NEW to, NEW m,
         pc' = [pc EXCEPT ![p] = to], mem' = [mem EXCEPT ![p] = m]
  PROVE  Asked' = [Asked EXCEPT ![p] = RequestOf(to, m)]
<1>1. ASSUME NEW q \in Procs
      PROVE  RequestOf(pc'[q], mem'[q]) = IF q = p THEN RequestOf(to, m) ELSE RequestOf(pc[q], mem[q])
  BY Typed DEF Shaped
<1> QED
  BY <1>1 DEF Asked

(* A thread that moves within its request is still asked the same.         *)
LEMMA AskedStays ==
  ASSUME TypeInv, NEW p \in Procs, NEW to, NEW m,
         pc' = [pc EXCEPT ![p] = to], mem' = [mem EXCEPT ![p] = m],
         RequestOf(to, m) = RequestOf(pc[p], mem[p])
  PROVE  Asked' = Asked
<1>1. Asked' = [Asked EXCEPT ![p] = RequestOf(to, m)]
  BY AskedMove DEF Asked
<1>2. Asked = [Asked EXCEPT ![p] = RequestOf(to, m)]
  BY DEF Asked
<1> QED
  BY <1>1, <1>2

(* The memory of one thread changes, and of the rows those others know.    *)
OthersStay(p) == \A q \in Procs \ {p} : pc'[q] = pc[q] /\ mem'[q] = mem[q]
KnownStay == \A q \in Procs : pc[q] = "delete" =>
                 ((\A b \in bookings : b.id # mem[q].id) <=> (\A b \in bookings' : b.id # mem[q].id))

(* Then nobody else is overtaken.                                          *)
LEMMA LateStays ==
  ASSUME NEW p \in Procs, OthersStay(p), KnownStay, UNCHANGED users, ~ Overtaken(p)'
  PROVE  Late' = Late \ {p}
<1>1. ASSUME NEW q \in Procs \ {p} PROVE Overtaken(q)' <=> Overtaken(q)
  BY <1>1 DEF OthersStay, KnownStay, Overtaken, OwnersThere
<1> QED
  BY <1>1 DEF Late

(* A thread that is over, or at the beginning, is not overtaken.           *)
LEMMA NotLate ==
  ASSUME NEW p \in Procs
  PROVE  /\ pc[p] \in {"idle", "clean", "write", "get", "list"} => p \notin Late
         /\ pc'[p] \in {"idle", "clean", "write", "get", "list"} => ~ Overtaken(p)'
  BY DEF Late, Overtaken

(* What the threads see of the others when nothing is written.             *)
LEMMA StayOf ==
  ASSUME TypeInv, NEW p \in Procs, NEW to, NEW m,
         pc' = [pc EXCEPT ![p] = to], mem' = [mem EXCEPT ![p] = m]
  PROVE  OthersStay(p) /\ pc'[p] = to /\ mem'[p] = m /\ (UNCHANGED bookings => KnownStay)
  BY Typed DEF Shaped, OthersStay, KnownStay

(* A request that begins is one that SlotRegister knows.                   *)
LEMMA StartAsks ==
  ASSUME TypeInv, NEW p \in Procs, NEW op, NEW to \in {"clean", "get", "list"}, NEW m,
         Fits(to, m), m.user \in users, Start(p, op, to, m)
  PROVE  Register!Next
<1>1. Asked' = [Asked EXCEPT ![p] = RequestOf(to, m)] /\ Asked[p] = Nothing
  BY AskedMove DEF Start, Asked, RequestOf
<1>2. RequestOf(to, m) \in Register!Request /\ RequestOf(to, m).user \in users
  BY RequestType DEF Label
<1>3. answer' = [answer EXCEPT ![p] = "none"] /\ UNCHANGED <<bookings, users>>
  BY DEF Start, table
<1>4. UNCHANGED Late
  <2>1. OthersStay(p) /\ pc'[p] = to /\ KnownStay
    BY <1>3, StayOf DEF Start
  <2>2. p \notin Late /\ ~ Overtaken(p)'
    BY <2>1, NotLate DEF Start
  <2>3. Late' = Late \ {p}
    BY <1>3, <2>1, <2>2, LateStays
  <2> QED
    BY <2>2, <2>3
<1>5. Register!Ask(p)
  BY <1>1, <1>2, <1>3, <1>4 DEF Register!Ask, Asked, Late
<1> QED
  BY <1>5 DEF Register!Next

(* The request a busy thread answers.                                      *)
LEMMA FinishAnswers ==
  ASSUME TypeInv, NEW p \in Procs, NEW from, NEW status, from # "idle", Finish(p, from, status),
         UNCHANGED users
  PROVE  /\ Register!Answer(p, status) /\ Register!Asks(p, What(from)) /\ Fits(from, mem[p])
         /\ Asked[p].user = mem[p].user
         /\ from \notin Showing => Asked[p].key = <<mem[p].date, mem[p].slot>>
         /\ OthersStay(p) /\ ~ Overtaken(p)' /\ (UNCHANGED bookings => KnownStay)
<1>1. from \in Label /\ pc[p] = from /\ Fits(from, mem[p])
  BY Typed DEF Finish
<1>2. Asked[p] = RequestOf(from, mem[p]) /\ RequestOf("idle", Nothing) = Nothing
  BY <1>1 DEF Asked, RequestOf
<1>3. Asked' = [Asked EXCEPT ![p] = Nothing]
  <2>1. Asked' = [Asked EXCEPT ![p] = RequestOf("idle", Nothing)]
    BY AskedMove DEF Finish
  <2> QED
    BY <1>2, <2>1
<1>4. /\ Asked[p] # Nothing /\ Asked[p].what = What(from) /\ Asked[p].user = mem[p].user
      /\ from \notin Showing => Asked[p].key = <<mem[p].date, mem[p].slot>>
  BY <1>1, <1>2, RequestType
<1>5. Register!Answer(p, status) /\ Register!Asks(p, What(from))
  BY <1>3, <1>4 DEF Register!Answer, Register!Asks, Asked, Finish
<1> QED
  BY <1>1, <1>4, <1>5, StayOf, NotLate DEF Finish

(* Nothing SlotRegister sees has changed.                                  *)
Stutters == UNCHANGED <<bookings, users, Asked, answer, Late>>

(* The bookings of TableInv have slots of their own.                       *)
LEMMA TableExclusive == TableInv => bookings \in SUBSET Booking /\ Exclusive(bookings)
  BY Typed DEF TableInv, KeysUnique, Exclusive

(* A save takes a free slot or is declined; its validation is not seen.    *)
LEMMA SaveActs ==
  ASSUME NoChange, TableInv, NEW p \in Procs,
         \/ BookBegin(p) \/ AdminBegin(p)
         \/ SaveClean(p) \/ SaveRefused(p) \/ SaveWrite(p) \/ SaveConflict(p)
  PROVE  Register!Next \/ Stutters
<1> USE DEF TableInv
<1>1. CASE BookBegin(p)
  <2>1. PICK u \in users, d \in Dates, s \in Slots :
            Start(p, "book", "clean", [id |-> 0, date |-> d, slot |-> s, user |-> u, by |-> "member"])
    BY <1>1 DEF BookBegin
  <2>2. [id |-> 0, date |-> d, slot |-> s, user |-> u, by |-> "member"] \in Memory
    BY Typed DEF Memory
  <2> QED
    BY <2>1, <2>2, RequestFits, StartAsks
<1>2. CASE AdminBegin(p)
  <2>1. PICK u \in users, d \in Dates, s \in Slots, id \in {0} \cup {b.id : b \in bookings} :
            Start(p, IF id = 0 THEN "add" ELSE "change", "clean",
                  [id |-> id, date |-> d, slot |-> s, user |-> u, by |-> "admin"])
    BY <1>2 DEF AdminBegin
  <2>2. id = 0
    BY <2>1 DEF Start, NoChange
  <2>3. [id |-> id, date |-> d, slot |-> s, user |-> u, by |-> "admin"] \in Memory
    BY <2>2, Typed DEF Memory
  <2> QED
    BY <2>1, <2>3, RequestFits, StartAsks
<1>3. CASE SaveClean(p)
  <2>1. pc[p] = "clean" /\ pc' = [pc EXCEPT ![p] = "write"] /\ mem' = mem
        /\ UNCHANGED <<bookings, users, answer>>
    BY <1>3 DEF SaveClean, Step, Goto, table
  <2>2. mem' = [mem EXCEPT ![p] = mem[p]]
    BY <2>1, Typed DEF Shaped
  <2>3. RequestOf("write", mem[p]) = RequestOf(pc[p], mem[p])
    BY <2>1 DEF RequestOf
  <2>4. Asked' = Asked
    BY <2>1, <2>2, <2>3, AskedStays
  <2>5. OthersStay(p) /\ KnownStay /\ p \notin Late /\ ~ Overtaken(p)'
    BY <2>1, <2>2, StayOf, NotLate
  <2>6. UNCHANGED Late
    BY <2>1, <2>5, LateStays
  <2> QED
    BY <2>1, <2>4, <2>6 DEF Stutters
<1>4. ASSUME NEW from \in {"clean", "write"}, NEW status \in {"400", "500"}, Finish(p, from, status),
             UNCHANGED <<bookings, users>>,
             ~ Clean(mem[p]) \/ ~ Unique(mem[p]) \/ mem[p].user \notin users
      PROVE  Register!Next
  <2> DEFINE m == mem[p]
  <2>1. /\ Register!Answer(p, status) /\ Register!Asks(p, "take") /\ m \in Memory
        /\ Asked[p].user = m.user /\ Asked[p].key = <<m.date, m.slot>>
    BY <1>4, FinishAnswers DEF What, Taking, Showing, Fits
  <2>2. UNCHANGED Late
    <3>1. OthersStay(p) /\ KnownStay /\ ~ Overtaken(p)'
      BY <1>4, FinishAnswers
    <3>2. p \notin Late
      BY <1>4, NotLate DEF Finish
    <3> QED
      BY <1>4, <3>1, <3>2, LateStays
  <2>3. ~ Register!Grantable(<<m.date, m.slot>>, m.user)
    <3>1. CASE \E b \in bookings : b.user = m.user /\ b.date = m.date
      <4>1. PICK b \in bookings : b.user = m.user /\ b.date = m.date
        BY <3>1
      <4>2. b.slot \in Slots /\ RegisterOf(bookings)[<<m.date, b.slot>>] = m.user
        BY <4>1, TableExclusive, RegisterTaken DEF Booking
      <4> QED
        BY <4>2 DEF Register!Grantable
    <3>2. CASE \E b \in bookings : b.date = m.date /\ b.slot = m.slot
      <4>1. PICK b \in bookings : b.date = m.date /\ b.slot = m.slot
        BY <3>2
      <4>2. RegisterOf(bookings)[<<m.date, m.slot>>] = b.user /\ b.user \in Users
        BY <4>1, TableExclusive, RegisterTaken DEF Booking
      <4> QED
        BY <4>2, NobodyAssumption DEF Register!Grantable
    <3>3. CASE m.date \notin Saturdays \/ m.user \notin users
      BY <3>3 DEF Register!Grantable
    <3> QED
      BY <1>4, <3>1, <3>2, <3>3 DEF Clean, Unique
  <2>4. Register!Refuse(p)
    BY <1>4, <2>1, <2>2, <2>3 DEF Register!Refuse, Asked, Late
  <2> QED
    BY <2>4 DEF Register!Next
<1>5. CASE SaveRefused(p)
  BY <1>4, <1>5 DEF SaveRefused, Return, table
<1>6. CASE SaveConflict(p)
  BY <1>4, <1>6 DEF SaveConflict, Return
<1>7. CASE SaveWrite(p)
  <2> DEFINE m == mem[p]
             b == [id |-> nextId, date |-> m.date, slot |-> m.slot, user |-> m.user]
  <2>1. Knows(bookings, nextId, "write", m) /\ m \in Memory
    BY <1>7, Typed DEF AllKnow, SaveWrite, Written, Finish, Fits
  <2>2. m.id = 0 /\ m.date \in Saturdays
    BY <2>1 DEF Knows
  <2>3. bookings' = bookings \cup {b}
    BY <1>7, <2>2, Typed DEF SaveWrite, Written, Row, KeysUnique, Booking
  <2>4. \A c \in bookings : c.date # b.date \/ c.slot # b.slot
    BY <1>7, <2>2 DEF SaveWrite, Unique, KeysUnique
  <2>5. b \in Booking
    BY <2>1, Typed DEF Booking, Memory
  <2>6. Exclusive(bookings \cup {b})
    BY <2>4, TableExclusive DEF Exclusive
  <2>7. bookings \in SUBSET Booking /\ <<m.date, m.slot>> \in Dates \X Slots
    BY <2>1, TableExclusive DEF Memory
  <2>8. RegisterOf(bookings') = [RegisterOf(bookings) EXCEPT ![<<m.date, m.slot>>] = m.user]
    BY <2>3, <2>4, <2>5, <2>6, <2>7, RegisterInsert
  <2>9. RegisterOf(bookings)[<<m.date, m.slot>>] = Nobody
    BY <2>4, <2>7, RegisterFree
  <2>10. /\ Register!Answer(p, "200") /\ Register!Asks(p, "take")
         /\ Asked[p].user = m.user /\ Asked[p].key = <<m.date, m.slot>>
         /\ OthersStay(p) /\ ~ Overtaken(p)' /\ pc[p] = "write" /\ UNCHANGED users /\ m.user \in users
    BY <1>7, FinishAnswers DEF SaveWrite, Written, Finish, What, Taking, Showing
  <2>11. KnownStay
    <3>1. ASSUME NEW q \in Procs, pc[q] = "delete" PROVE b.id # mem[q].id
      <4>1. Knows(bookings, nextId, "delete", mem[q])
        BY <3>1 DEF AllKnow
      <4> QED
        BY <4>1, Typed DEF Knows
    <3> QED
      BY <2>3, <3>1 DEF KnownStay
  <2>12. UNCHANGED Late
    BY <2>10, <2>11, NotLate, LateStays
  <2>13. Register!Take(p)
    <3> HIDE DEF m, b
    <3>1. Asked[p].key[1] \in Saturdays
      BY <2>2, <2>10
    <3> QED
      BY <2>8, <2>9, <2>10, <2>12, <3>1 DEF Register!Take, Asked, Late
  <2> QED
    BY <2>13 DEF Register!Next
<1> QED
  BY <1>1, <1>2, <1>3, <1>5, <1>6, <1>7

(* Bookings are deleted, and perhaps an account: whoever was overtaken is  *)
(* still, and the threads that are from now on asked for what has been     *)
(* deleted, or list.                                                       *)
LEMMA DeletedOvertakes ==
  ASSUME TableInv, NEW gone \in SUBSET bookings, bookings' = bookings \ gone, users' \subseteq users,
         NEW q \in Procs, pc'[q] = pc[q], mem'[q] = mem[q], NEW freed,
         \A b \in gone : <<b.date, b.slot>> \in freed
  PROVE  /\ q \in Late => q \in Late'
         /\ q \in Late' \ Late => \/ q \in Register!AskedFor(freed)
                                  \/ users' # users /\ Register!Asks(q, "list")
<1> USE DEF TableInv
<1>1. q \in Late => q \in Late'
  BY DEF Late, Overtaken, OwnersThere
<1>2. CASE pc[q] = "delete" /\ q \in Late' \ Late
  <2>1. PICK b \in gone : b.id = mem[q].id
    BY <1>2 DEF Late, Overtaken
  <2>2. b.date = mem[q].date /\ b.slot = mem[q].slot /\ b.user = mem[q].user
    BY <1>2, <2>1 DEF AllKnow, Knows
  <2>3. /\ Asked[q] # Nothing /\ Asked[q].what = "release"
        /\ Asked[q].user = mem[q].user /\ Asked[q].key = <<mem[q].date, mem[q].slot>>
    BY <1>2, Typed, RequestType DEF Asked, Label, What, Taking, Releasing, Showing
  <2>4. RegisterOf(bookings)[<<b.date, b.slot>>] = b.user
    BY TableExclusive, RegisterTaken
  <2>5. q \in Register!AskedFor(freed)
    BY <2>1, <2>2, <2>3, <2>4 DEF Register!AskedFor, Register!Asks, Asked
  <2> QED
    BY <1>1, <2>5
<1>3. CASE pc[q] = "owners" /\ q \in Late' \ Late
  <2>1. users' # users
    BY <1>3 DEF Late, Overtaken, OwnersThere
  <2>2. Asked[q] # Nothing /\ Asked[q].what = "list"
    BY <1>3, Typed, RequestType DEF Asked, Label, What, Taking, Releasing
  <2> QED
    BY <1>1, <2>1, <2>2 DEF Register!Asks, Asked
<1>4. q \in Late' => pc[q] \in {"delete", "owners"}
  BY DEF Late, Overtaken
<1> QED
  BY <1>1, <1>2, <1>3, <1>4

(* A cancellation releases a slot of the member who asked, or is declined; *)
(* that it reads the booking first is not seen.                            *)
LEMMA CancelActs ==
  ASSUME TableInv, NEW p \in Procs,
         CancelBegin(p) \/ CancelFound(p) \/ CancelNotFound(p) \/ CancelDelete(p)
  PROVE  Register!Next \/ Stutters
<1> USE DEF TableInv
<1>1. CASE CancelBegin(p)
  <2>1. PICK u \in users, d \in Dates, s \in Slots :
            Start(p, "cancel", "get", [id |-> 0, date |-> d, slot |-> s, user |-> u, by |-> "member"])
    BY <1>1 DEF CancelBegin
  <2>2. [id |-> 0, date |-> d, slot |-> s, user |-> u, by |-> "member"] \in Memory
    BY Typed DEF Memory
  <2> QED
    BY <2>1, <2>2, RequestFits, StartAsks
<1>2. CASE CancelFound(p)
  <2>1. pc[p] = "get" /\ pc' = [pc EXCEPT ![p] = "delete"] /\ UNCHANGED <<bookings, users, answer>>
    BY <1>2 DEF CancelFound, Step, Goto, table
  <2>2. mem[p] \in Memory
    BY <2>1, Typed DEF Fits
  <2>3. PICK b \in bookings : mem' = [mem EXCEPT ![p].id = b.id]
    BY <1>2 DEF CancelFound, Found
  <2> DEFINE m == [mem[p] EXCEPT !.id = b.id]
  <2>4. mem' = [mem EXCEPT ![p] = m]
    BY <2>3
  <2>5. m.date = mem[p].date /\ m.slot = mem[p].slot /\ m.user = mem[p].user /\ m.id = b.id
    BY <2>2 DEF Memory
  <2> HIDE DEF m
  <2>6. RequestOf("delete", m) = RequestOf(pc[p], mem[p])
    BY <2>1, <2>5 DEF RequestOf
  <2>7. Asked' = Asked
    BY <2>1, <2>4, <2>6, AskedStays
  <2>8. OthersStay(p) /\ KnownStay /\ p \notin Late /\ pc'[p] = "delete" /\ mem'[p] = m
    BY <2>1, <2>4, StayOf, NotLate
  <2>9. ~ Overtaken(p)'
    BY <2>1, <2>5, <2>8 DEF Overtaken
  <2>10. UNCHANGED Late
    BY <2>1, <2>8, <2>9, LateStays
  <2> QED
    BY <2>1, <2>7, <2>10 DEF Stutters
<1>3. CASE CancelNotFound(p)
  <2> DEFINE k == <<mem[p].date, mem[p].slot>>
  <2>1. UNCHANGED <<bookings, users>> /\ \A b \in bookings :
            b.date = mem[p].date /\ b.slot = mem[p].slot => b.user # mem[p].user
    BY <1>3 DEF CancelNotFound, Found, table
  <2>2. /\ Register!Answer(p, "404") /\ Register!Asks(p, "release") /\ mem[p] \in Memory
        /\ Asked[p].user = mem[p].user /\ Asked[p].key = k
        /\ OthersStay(p) /\ KnownStay /\ ~ Overtaken(p)'
    BY <1>3, <2>1, FinishAnswers DEF CancelNotFound, Return, What, Taking, Releasing, Showing, Fits
  <2>3. k \in Dates \X Slots /\ mem[p].user \in Users
    BY <2>2 DEF Memory
  <2>4. RegisterOf(bookings)[k] # mem[p].user
    BY <2>1, <2>3, TableExclusive, HeldBy
  <2>5. Late' = Late \ {p}
    BY <2>1, <2>2, LateStays
  <2>6. Register!NotFound(p)
    BY <2>1, <2>2, <2>4, <2>5 DEF Register!NotFound, Asked, Late
  <2> QED
    BY <2>6 DEF Register!Next
<1>4. CASE CancelDelete(p)
  <2> DEFINE k == <<mem[p].date, mem[p].slot>>
  <2>1. UNCHANGED users /\ bookings' = {b \in bookings : b.id # mem[p].id} /\ pc[p] = "delete"
    BY <1>4 DEF CancelDelete, Return, Finish
  <2>2. /\ Register!Answer(p, "200") /\ Register!Asks(p, "release") /\ mem[p] \in Memory
        /\ Asked[p].user = mem[p].user /\ Asked[p].key = k
        /\ OthersStay(p) /\ ~ Overtaken(p)' /\ (UNCHANGED bookings => KnownStay)
    BY <1>4, <2>1, FinishAnswers DEF CancelDelete, Return, What, Taking, Releasing, Showing, Fits
  <2>3. Knows(bookings, nextId, "delete", mem[p])
    BY <2>1 DEF AllKnow
  <2>4. CASE \A b \in bookings : b.id # mem[p].id
    <3>1. UNCHANGED bookings /\ p \in Late
      BY <2>1, <2>4 DEF Late, Overtaken
    <3>2. Late' = Late \ {p}
      BY <2>1, <2>2, <3>1, LateStays
    <3>3. Register!Settled(p)
      BY <2>2, <3>1, <3>2 DEF Register!Settled, Asked, Late
    <3> QED
      BY <3>3 DEF Register!Next
  <2>5. CASE \E b \in bookings : b.id = mem[p].id
    <3>1. PICK b \in bookings : b.id = mem[p].id
      BY <2>5
    <3>2. b.date = mem[p].date /\ b.slot = mem[p].slot /\ b.user = mem[p].user
      BY <2>3, <3>1 DEF Knows
    <3>3. PICK gone \in SUBSET bookings : gone = {b}
      OBVIOUS
    <3>4. bookings' = bookings \ gone
      BY <2>1, <3>1, <3>3 DEF KeysUnique
    <3>5. RegisterOf(bookings)[k] = mem[p].user
      BY <3>2, TableExclusive, RegisterTaken
    <3>6. RegisterOf(bookings') = Without(bookings, {k})
      <4>1. \A l \in Dates \X Slots : l \in {k} <=> \E c \in gone : c.date = l[1] /\ c.slot = l[2]
        BY <3>2, <3>3
      <4> QED
        BY <3>4, <4>1, TableExclusive, RegisterFreed
    <3>7. \A q \in Procs \ {p} : (q \in Late => q \in Late')
                                 /\ (q \in Late' \ Late => q \in Register!AskedFor({k}))
      BY <2>1, <2>2, <3>2, <3>3, <3>4, DeletedOvertakes DEF OthersStay
    <3>8. \E others \in SUBSET Register!AskedFor({k}) : Late' = (Late \cup others) \ {p}
      <4>1. Late' \ Late \subseteq Register!AskedFor({k}) /\ Late' = (Late \cup (Late' \ Late)) \ {p}
        BY <2>2, <3>7 DEF Late
      <4> QED
        BY <4>1
    <3>9. Register!Release(p)
      <4> HIDE DEF k
      <4> QED
        BY <2>2, <3>5, <3>6, <3>8 DEF Register!Release, Register!Free, Without, Register!Keys, Asked, Late
    <3> QED
      BY <3>9 DEF Register!Next
  <2> QED
    BY <2>4, <2>5
<1> QED
  BY <1>1, <1>2, <1>3, <1>4

(* A listing shows all there is, or fails because somebody left; that it   *)
(* asks for a day at a time is not seen.                                   *)
LEMMA ListActs ==
  ASSUME TableInv, NEW p \in Procs,
         ListBegin(p) \/ ListDay(p) \/ ListOwners(p) \/ ListReply(p) \/ ListFails(p)
  PROVE  Register!Next \/ Stutters
<1> USE DEF TableInv
<1>1. CASE ListBegin(p)
  <2>1. PICK u \in users : Start(p, "list", "list", [user |-> u, days |-> Listed, rows |-> {}])
    BY <1>1 DEF ListBegin
  <2>2. Fits("list", [user |-> u, days |-> Listed, rows |-> {}])
    BY Typed DEF Fits, Listing
  <2> QED
    BY <2>1, <2>2, StartAsks
<1>2. CASE ListDay(p)
  <2> DEFINE m(d) == [mem[p] EXCEPT !.days = @ \ {d}, !.rows = DayRows(mem[p], d)]
  <2>1. PICK d \in mem[p].days : mem' = [mem EXCEPT ![p] = m(d)]
    BY <1>2 DEF ListDay
  <2>2. /\ pc[p] = "list" /\ pc' = [pc EXCEPT ![p] = "owners"] /\ UNCHANGED <<bookings, users, answer>>
        /\ mem[p] \in Listing
    BY <1>2, Typed DEF ListDay, Goto, table, Fits
  <2>3. m(d).user = mem[p].user /\ m(d).rows = DayRows(mem[p], d)
    BY <2>2 DEF Listing
  <2>4. OwnersThere(m(d))
    BY <2>3, Typed DEF OwnersThere, DayRows
  <2> HIDE DEF m
  <2>5. RequestOf("owners", m(d)) = RequestOf(pc[p], mem[p])
    BY <2>2, <2>3 DEF RequestOf
  <2>6. Asked' = Asked
    BY <2>1, <2>2, <2>5, AskedStays
  <2>7. OthersStay(p) /\ KnownStay /\ p \notin Late /\ pc'[p] = "owners" /\ mem'[p] = m(d)
    BY <2>1, <2>2, StayOf, NotLate
  <2>8. ~ Overtaken(p)'
    BY <2>2, <2>4, <2>7 DEF Overtaken, OwnersThere
  <2>9. UNCHANGED Late
    BY <2>2, <2>7, <2>8, LateStays
  <2> QED
    BY <2>2, <2>6, <2>9 DEF Stutters
<1>3. CASE ListOwners(p)
  <2>1. /\ pc[p] = "owners" /\ pc' = [pc EXCEPT ![p] = "list"]
        /\ UNCHANGED <<bookings, users, answer, mem>> /\ OwnersThere(mem[p])
    BY <1>3 DEF ListOwners, Step, Goto, table
  <2>2. mem' = [mem EXCEPT ![p] = mem[p]]
    BY <2>1, Typed DEF Shaped
  <2>3. RequestOf("list", mem[p]) = RequestOf(pc[p], mem[p])
    BY <2>1 DEF RequestOf
  <2>4. Asked' = Asked
    BY <2>1, <2>2, <2>3, AskedStays
  <2>5. OthersStay(p) /\ KnownStay /\ ~ Overtaken(p)'
    BY <2>1, <2>2, StayOf, NotLate
  <2>6. p \notin Late
    BY <2>1 DEF Late, Overtaken
  <2>7. UNCHANGED Late
    BY <2>1, <2>5, <2>6, LateStays
  <2> QED
    BY <2>1, <2>4, <2>7 DEF Stutters
<1>4. CASE ListReply(p) \/ ListFails(p)
  <2>1. PICK status : /\ Finish(p, "owners", status) /\ UNCHANGED <<bookings, users>>
                      /\ status = IF OwnersThere(mem[p]) THEN "200" ELSE "500"
    BY <1>4 DEF ListReply, ListFails, Return, table
  <2>2. p \in Late <=> ~ OwnersThere(mem[p])
    BY <2>1 DEF Late, Overtaken, Finish
  <2>3. /\ Register!Answer(p, status) /\ Register!Asks(p, "list")
        /\ OthersStay(p) /\ KnownStay /\ ~ Overtaken(p)'
    BY <2>1, FinishAnswers DEF What, Taking, Releasing
  <2>4. Late' = Late \ {p}
    BY <2>1, <2>3, LateStays
  <2>5. status = IF p \in Late THEN "500" ELSE "200"
    BY <2>1, <2>2
  <2>6. Register!Show(p)
    BY <2>1, <2>3, <2>4, <2>5 DEF Register!Show, Late
  <2> QED
    BY <2>6 DEF Register!Next
<1> QED
  BY <1>1, <1>2, <1>3, <1>4

(* A booking that is deleted in the admin is withdrawn, and an account     *)
(* that is deleted leaves.                                                 *)
LEMMA AdminActs ==
  ASSUME TableInv, AdminDelete \/ DeleteUser
  PROVE  Register!Next
<1> USE DEF TableInv
<1>1. UNCHANGED <<Asked, answer, pc, mem>>
  BY DEF AdminDelete, DeleteUser, Asked
<1>2. CASE AdminDelete
  <2>1. PICK b \in bookings : bookings' = bookings \ {b}
    BY <1>2 DEF AdminDelete
  <2>2. PICK gone \in SUBSET bookings : gone = {b}
    OBVIOUS
  <2>3. PICK k \in Dates \X Slots : k = <<b.date, b.slot>>
    BY TableExclusive DEF Booking
  <2>4. bookings' = bookings \ gone /\ UNCHANGED users
    BY <1>2, <2>1, <2>2 DEF AdminDelete
  <2>5. RegisterOf(bookings') = Without(bookings, {k})
    <3>1. \A l \in Dates \X Slots : l \in {k} <=> \E c \in gone : c.date = l[1] /\ c.slot = l[2]
      BY <2>2, <2>3
    <3> QED
      BY <2>4, <3>1, TableExclusive, RegisterFreed
  <2>6. \A q \in Procs : (q \in Late => q \in Late')
                         /\ (q \in Late' \ Late => q \in Register!AskedFor({k}))
    BY <1>1, <2>2, <2>3, <2>4, DeletedOvertakes
  <2>7. \E others \in SUBSET Register!AskedFor({k}) : Late' = Late \cup others
    <3>1. Late' \ Late \subseteq Register!AskedFor({k}) /\ Late' = Late \cup (Late' \ Late)
      BY <2>6 DEF Late
    <3> QED
      BY <3>1
  <2>8. Register!Withdraw(k)
    BY <1>1, <2>4, <2>5, <2>7 DEF Register!Withdraw, Register!Free, Without, Register!Keys, Asked, Late
  <2> QED
    BY <2>8 DEF Register!Next, Register!Keys
<1>3. CASE DeleteUser
  <2>1. PICK u \in users : users' = users \ {u} /\ bookings' = {b \in bookings : b.user # u}
    BY <1>3 DEF DeleteUser
  <2>2. PICK gone \in SUBSET bookings : gone = {b \in bookings : b.user = u}
    OBVIOUS
  <2> DEFINE held == {k \in Dates \X Slots : RegisterOf(bookings)[k] = u}
             lists == {q \in Procs : Register!Asks(q, "list")}
  <2>3. u \in Users /\ bookings' = bookings \ gone /\ users' \subseteq users
    BY <2>1, <2>2, Typed
  <2>4. \A k \in Dates \X Slots : k \in held <=> \E b \in gone : b.date = k[1] /\ b.slot = k[2]
    BY <2>2, <2>3, TableExclusive, HeldBy
  <2>5. RegisterOf(bookings') = Without(bookings, held)
    <3> HIDE DEF held
    <3> QED
      BY <2>3, <2>4, TableExclusive, RegisterFreed
  <2>6. \A b \in gone : <<b.date, b.slot>> \in held
    <3>1. \A b \in gone : b \in bookings /\ b.user = u /\ <<b.date, b.slot>> \in Dates \X Slots
      BY <2>2, TableExclusive DEF Booking
    <3> QED
      BY <3>1, TableExclusive, RegisterTaken
  <2>7. \A q \in Procs : (q \in Late => q \in Late')
                         /\ (q \in Late' \ Late => q \in Register!AskedFor(held) \cup lists)
    <3> HIDE DEF held
    <3> QED
      BY <1>1, <2>3, <2>6, DeletedOvertakes
  <2>8. \E others \in SUBSET (Register!AskedFor(held) \cup lists) : Late' = Late \cup others
    <3>1. Late' \ Late \subseteq Register!AskedFor(held) \cup lists /\ Late' = Late \cup (Late' \ Late)
      <4> HIDE DEF held, lists
      <4> QED
        BY <2>7 DEF Late
    <3> QED
      BY <3>1
  <2>9. Register!Leave(u)
    BY <1>1, <2>1, <2>5, <2>8 DEF Register!Leave, Register!Free, Without, Register!Keys, Asked, Late
  <2> QED
    BY <2>3, <2>9 DEF Register!Next
<1> QED
  BY <1>2, <1>3

(* An empty table is a register in which every slot is free.               *)
LEMMA InitActs == Init => Register!Init
<1> SUFFICES ASSUME Init PROVE Register!Init
  OBVIOUS
<1>1. RegisterOf(bookings) = [k \in Dates \X Slots |-> Nobody]
  BY DEF Init, RegisterOf
<1>2. [p \in Procs |-> RequestOf(pc[p], mem[p])] = [p \in Procs |-> Nothing]
  BY DEF Init, RequestOf
<1>3. {p \in Procs : Overtaken(p)} = {}
  BY DEF Init, Overtaken
<1> QED
  BY <1>1, <1>2, <1>3 DEF Init, Register!Init, Register!Keys

(* The workshop app implements SlotRegister: in every interleaving each    *)
(* booking and each cancellation takes effect at once or not at all, is    *)
(* confirmed only for what it did or, a cancellation, for what was done    *)
(* since it read the booking, and is refused only with a reason.           *)
THEOREM TakesEffectAtOnce ==
  ASSUME NoChange
  PROVE  Spec => ActsAtOnce
<1>1. TableInv /\ [Next]_vars => [Register!Next]_Register!vars
  <2> SUFFICES ASSUME TableInv, [Next]_vars
               PROVE  Register!Next \/ UNCHANGED Register!vars
    OBVIOUS
  <2>1. CASE UNCHANGED vars
    BY <2>1 DEF vars, table, Register!vars, Overtaken, OwnersThere
  <2>2. Register!Next \/ Stutters \/ UNCHANGED vars
    BY SaveActs, CancelActs, ListActs, AdminActs DEF Next
  <2>3. CASE Stutters
    BY <2>3 DEF Stutters, Asked, Late, Register!vars
  <2> QED
    BY <2>1, <2>2, <2>3
<1> QED
  BY <1>1, InitActs, TableAlways, PTL DEF Spec, ActsAtOnce, Register!Spec
=============================================================================
