--------------------------- MODULE RequestService ---------------------------
(***************************************************************************)
(* What the outbound half of a session promises its callers, without the   *)
(* goroutines, tables, queues and timers that provide it: at most          *)
(* WindowSize requests are in flight; a call takes its place in the window *)
(* at most once and gives it back once; a request that was registered is   *)
(* completed once, and never before its place is free again, so a caller   *)
(* that has its result finds room for its next request.                    *)
(***************************************************************************)
EXTENDS Naturals, FiniteSets

CONSTANTS Calls, WindowSize

VARIABLES
    phase,      \* where each call is with respect to the window
    completed   \* calls whose result has been sent to the caller

vars == <<phase, completed>>

Held == {r \in Calls : phase[r] = "held"}

Init == phase = [r \in Calls |-> "outside"] /\ completed = {}

Move(r, to) == phase' = [phase EXCEPT ![r] = to]

\* The call is given a place.
Admit(r) ==
    /\ phase[r] = "outside" /\ Cardinality(Held) < WindowSize
    /\ Move(r, "held") /\ UNCHANGED completed

\* The call fails before its request is registered; a place it has is free again.
Decline(r) ==
    /\ phase[r] \in {"outside", "held"}
    /\ Move(r, "declined") /\ UNCHANGED completed

\* The request is over: its place is free again.
Settle(r) ==
    /\ phase[r] = "held"
    /\ Move(r, "settled") /\ UNCHANGED completed

\* The result of a request that is over is sent to its caller.
Complete(r) ==
    /\ phase[r] = "settled" /\ r \notin completed
    /\ completed' = completed \cup {r} /\ UNCHANGED phase

\* The place is freed and the result sent in one step.
SettleAndComplete(r) ==
    /\ phase[r] = "held" /\ r \notin completed
    /\ Move(r, "settled") /\ completed' = completed \cup {r}

Next ==
    \E r \in Calls :
        Admit(r) \/ Decline(r) \/ Settle(r) \/ Complete(r) \/ SettleAndComplete(r)

Spec == Init /\ [][Next]_vars
=============================================================================
