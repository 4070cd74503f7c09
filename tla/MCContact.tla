----------------------------- MODULE MCContact -----------------------------
(***************************************************************************)
(* Instances of Contact for TLC.                                           *)
(***************************************************************************)
EXTENDS Contact, TLC

CONSTANTS p1, p2, p3, w1, w2, question, complaint, spam

ThreeThreads == {p1, p2, p3}
TwoAndOne == [p \in Procs |-> IF p = p3 THEN w2 ELSE w1]
=============================================================================
