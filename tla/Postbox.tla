------------------------------ MODULE Postbox ------------------------------
(***************************************************************************)
(* What the contact form promises: a visitor is told that a letter has     *)
(* arrived only if it is in the box and the admins have been told of it,   *)
(* and nobody is told of a letter twice, or of one that never was there.   *)
(***************************************************************************)
EXTENDS Naturals

CONSTANT Intents    \* what visitors want to write

VARIABLES
    letters,    \* the letters in the box
    removed,    \* those the admins have taken out
    unsent,     \* those the admins are about to be told of
    told,       \* those they have been told of
    confirmed,  \* those whose sender got a confirmation
    thanked     \* the intents whose sender was answered that all is well

Letter == [id : Nat, intent : Intents]

Init ==
    /\ letters = {} /\ removed = {} /\ unsent = {}
    /\ told = {} /\ confirmed = {} /\ thanked = {}

Store(l) ==
    /\ \A k \in letters \cup removed : k.id # l.id
    /\ letters' = letters \cup {l} /\ unsent' = unsent \cup {l}
    /\ UNCHANGED <<removed, told, confirmed, thanked>>

(* The admins learn of a letter once; or nobody ever tells them of it, or  *)
(* of several that are given up together.                                  *)
Tell(l) ==
    /\ l \in unsent \ told /\ unsent' = unsent \ {l} /\ told' = told \cup {l}
    /\ UNCHANGED <<letters, removed, confirmed, thanked>>
GiveUp(some) ==
    /\ unsent' = unsent \ some
    /\ UNCHANGED <<letters, removed, told, confirmed, thanked>>

(* The mail to the sender, which may get lost, and the answer, which the   *)
(* sender may no longer wait for.                                          *)
Finish(l) ==
    /\ l \in told
    /\ confirmed' \in {confirmed, confirmed \cup {l}} /\ thanked' \in {thanked, thanked \cup {l.intent}}
    /\ UNCHANGED <<letters, removed, unsent, told>>

(* An admin deletes a letter, or saves one that was deleted meanwhile.     *)
Remove(l) ==
    /\ l \in letters /\ letters' = letters \ {l} /\ removed' = removed \cup {l}
    /\ UNCHANGED <<unsent, told, confirmed, thanked>>
Restore(l) ==
    /\ l \in removed /\ letters' = letters \cup {l}
    /\ UNCHANGED <<removed, unsent, told, confirmed, thanked>>

Next ==
    \/ \E l \in Letter \cap letters' : Store(l)
    \/ \E l \in unsent : Tell(l)
    \/ \E some \in SUBSET unsent : GiveUp(some)
    \/ \E l \in told : Finish(l)
    \/ \E l \in letters : Remove(l)
    \/ \E l \in removed : Restore(l)

vars == <<letters, removed, unsent, told, confirmed, thanked>>
Spec == Init /\ [][Next]_vars
=============================================================================
