---------------------------- MODULE SlotRegister ----------------------------
(***************************************************************************)
(* What the workshop app promises: a register of who has which slot, in    *)
(* which every request takes effect at once or not at all, and is answered *)
(* with what it did.  A slot is taken only while it is free and by someone *)
(* who is still a member, and released only for the one who has it.  A     *)
(* refusal has its reason at the moment of the refusal.                    *)
(***************************************************************************)
CONSTANTS Procs, Users, Saturdays, Dates, Slots, Nobody, Nothing

VARIABLES
    register,   \* who has the slot, by date and time slot
    members,    \* who may have one
    asked,      \* the request each thread is serving
    told,       \* what its last one was answered, "none" until then
    overtaken   \* the threads whose request another step has settled

vars == <<register, members, asked, told, overtaken>>

Keys == Dates \X Slots
Booking == [what : {"take", "release"}, user : Users, key : Keys]
Listing == [what : {"list"}, user : Users]
Request == Booking \cup Listing

Init ==
    /\ register = [k \in Keys |-> Nobody] /\ members = Users
    /\ asked = [p \in Procs |-> Nothing] /\ told = [p \in Procs |-> "none"]
    /\ overtaken = {}

Asks(p, what) == asked[p] # Nothing /\ asked[p].what = what

Ask(p) ==
    /\ asked[p] = Nothing
    /\ \E r \in Request : r.user \in members /\ asked' = [asked EXCEPT ![p] = r]
    /\ told' = [told EXCEPT ![p] = "none"]
    /\ UNCHANGED <<register, members, overtaken>>

Answer(p, status) ==
    /\ asked' = [asked EXCEPT ![p] = Nothing] /\ told' = [told EXCEPT ![p] = status]
    /\ UNCHANGED members

Take(p) ==
    /\ Asks(p, "take") /\ Answer(p, "200")
    /\ register[asked[p].key] = Nobody
    /\ asked[p].key[1] \in Saturdays /\ asked[p].user \in members
    /\ register' = [register EXCEPT ![asked[p].key] = asked[p].user]
    /\ UNCHANGED overtaken

(* Slots become free.  Of the cancellations that ask for just that, some   *)
(* have read the booking that is gone now: those are overtaken.            *)
AskedFor(freed) ==
    {p \in Procs : Asks(p, "release") /\ asked[p].key \in freed /\ register[asked[p].key] = asked[p].user}
Free(freed) == register' = [k \in Keys |-> IF k \in freed THEN Nobody ELSE register[k]]

Release(p) ==
    /\ Asks(p, "release") /\ Answer(p, "200")
    /\ register[asked[p].key] = asked[p].user /\ Free({asked[p].key})
    /\ \E others \in SUBSET AskedFor({asked[p].key}) : overtaken' = (overtaken \cup others) \ {p}

(* A request that did nothing.  A booking is never confirmed for nothing;  *)
(* a cancellation is only if the slot was released for the member since it *)
(* came.                                                                   *)
Grantable(k, u) ==
    /\ k[1] \in Saturdays /\ u \in members /\ register[k] = Nobody
    /\ \A s \in Slots : register[<<k[1], s>>] # u
Refuse(p) ==
    /\ Asks(p, "take") /\ ~ Grantable(asked[p].key, asked[p].user)
    /\ \E status \in {"400", "500"} : Answer(p, status)
    /\ UNCHANGED <<register, overtaken>>
NotFound(p) ==
    /\ Asks(p, "release") /\ register[asked[p].key] # asked[p].user
    /\ Answer(p, "404") /\ UNCHANGED register /\ overtaken' = overtaken \ {p}
Settled(p) ==
    /\ Asks(p, "release") /\ p \in overtaken
    /\ Answer(p, "200") /\ UNCHANGED register /\ overtaken' = overtaken \ {p}

(* A listing fails only if somebody left while it was made.                *)
Show(p) ==
    /\ Asks(p, "list") /\ Answer(p, IF p \in overtaken THEN "500" ELSE "200")
    /\ UNCHANGED register /\ overtaken' = overtaken \ {p}

(* A superuser withdraws a booking; a member leaves with all bookings.     *)
Withdraw(k) ==
    /\ Free({k}) /\ UNCHANGED <<members, asked, told>>
    /\ \E others \in SUBSET AskedFor({k}) : overtaken' = overtaken \cup others
Leave(u) ==
    LET held == {k \in Keys : register[k] = u}
    IN  /\ u \in members /\ members' = members \ {u} /\ Free(held) /\ UNCHANGED <<asked, told>>
        /\ \E others \in SUBSET (AskedFor(held) \cup {p \in Procs : Asks(p, "list")}) :
              overtaken' = overtaken \cup others

Next ==
    \/ \E p \in Procs : Ask(p) \/ Take(p) \/ Release(p) \/ Refuse(p) \/ NotFound(p) \/ Settled(p) \/ Show(p)
    \/ \E k \in Keys : Withdraw(k)
    \/ \E u \in Users : Leave(u)

Spec == Init /\ [][Next]_vars
=============================================================================
