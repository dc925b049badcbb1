------------------------------ MODULE MCServer ------------------------------
(***************************************************************************)
(* The instance of Server: four connections from two addresses.            *)
(***************************************************************************)
EXTENDS Server

CONSTANTS c1, c2, c3, c4, h1, h2

FourConns == {c1, c2, c3, c4}
TwoHosts == {h1, h2}
FourConnHost == [c \in FourConns |-> IF c = c4 THEN h2 ELSE h1]
=============================================================================
