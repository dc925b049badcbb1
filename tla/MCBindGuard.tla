---------------------------- MODULE MCBindGuard ----------------------------
(***************************************************************************)
(* The instance of BindGuard: two receive loops, three addresses.          *)
(***************************************************************************)
EXTENDS BindGuard, TLC

CONSTANTS l1, l2, h1, h2, h3

TwoLoops == {l1, l2}
ThreeHosts == {h1, h2, h3}

\* Receive loops and addresses are interchangeable.
Symmetry == Permutations(TwoLoops) \cup Permutations(ThreeHosts)
=============================================================================
