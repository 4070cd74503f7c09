----------------------------- MODULE MCWorkshop -----------------------------
(***************************************************************************)
(* Instances of Workshop for TLC.                                          *)
(***************************************************************************)
EXTENDS Workshop, TLC

CONSTANTS alice, bob, p1, p2

TwoThreads == {p1, p2}
TwoUsers == {alice, bob}

(* The threads and the members are alike, and nothing orders them.         *)
Alike == Permutations(TwoThreads) \cup Permutations(TwoUsers)
=============================================================================
