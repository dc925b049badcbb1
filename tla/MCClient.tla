------------------------------ MODULE MCClient ------------------------------
(***************************************************************************)
(* Small instances of Client.                                              *)
(***************************************************************************)
EXTENDS Client

CONSTANTS b1, b2, w1

TwoBinders == {b1, b2}
OneWaiter == {w1}

Policy(enabled, stop, initial, max) ==
    [Enabled |-> enabled, StopOnPermanentBindFailure |-> stop, InitialBackoff |-> initial,
     MaxBackoff |-> max, Multiplier |-> 2, Jitter |-> 50]

\* Backoffs around the millisecond, which is 2, and below it; no reconnect at all.
MCPolicies == {Policy(TRUE, TRUE, 2, 5), Policy(TRUE, FALSE, 1, 1), Policy(FALSE, TRUE, 2, 5)}
=============================================================================
