---------------------------- MODULE MCResponder ----------------------------
(***************************************************************************)
(* Small instances of Responder.                                           *)
(***************************************************************************)
EXTENDS Responder, TLC

CONSTANTS p1, p2, p3, a1, a2, n1, n2

TwoPdus == {p1, p2}
ThreePdus == {p1, p2, p3}
TwoCallers == {a1, a2}
OneNumber == {n1}
TwoNumbers == {n1, n2}

\* PDUs and the numbers they carry are interchangeable.
Symmetry == Permutations(ThreePdus) \cup Permutations(TwoNumbers)
=============================================================================
