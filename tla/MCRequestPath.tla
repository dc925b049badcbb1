--------------------------- MODULE MCRequestPath ---------------------------
(***************************************************************************)
(* Instances of RequestPath for TLC.  Two calls are enough for every race  *)
(* the code has over one pending entry, one window slot or one sequence    *)
(* number: each involves one call's entry and one goroutine acting on it,  *)
(* or one call and the call that takes its slot or number next.            *)
(***************************************************************************)
EXTENDS RequestPath, TLC

CONSTANTS r1, r2

TwoCalls == {r1, r2}

\* r1 has a context that may end, r2 passes context.Background().
OneCancels == {r1}

Symmetry2 == Permutations(TwoCalls)
=============================================================================
