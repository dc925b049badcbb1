------------------------------ MODULE MCFramer ------------------------------
(***************************************************************************)
(* Small instances of Framer: a header of five octets and PDUs of five to  *)
(* eight.  Every list of up to three declared lengths is a stream, legal   *)
(* and illegal ones; inside a PDU the octets spell a legal length, so that *)
(* a framer that loses its place goes on with what looks like a PDU.       *)
(***************************************************************************)
EXTENDS Framer, FiniteSetsExt

CONSTANT Lengths

\* Where the PDUs of a list of lengths start.
Start(list, i) == MapThenSumSet(LAMBDA j : list[j], 1..(i - 1))

StreamOf(list) ==
    [p \in 0..MaxStream |->
        IF \E i \in 1..Len(list) : Start(list, i) = p
        THEN list[CHOOSE i \in 1..Len(list) : Start(list, i) = p]
        ELSE HeaderSize]

MCStreams == {StreamOf(list) : list \in [1..3 -> Lengths]}
=============================================================================
