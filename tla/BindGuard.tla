------------------------------ MODULE BindGuard ------------------------------
(***************************************************************************)
(* The server's bind path (dispatchHandler.Handle) and the per-address     *)
(* throttle it consults (server/ratelimit.go).                             *)
(*                                                                         *)
(* Each session's receive loop handles one bind at a time: it asks         *)
(* AllowBind, calls the Authenticator, and reports the outcome to          *)
(* RecordBind.  Both methods read the clock before they take t.mu, so the  *)
(* time they act on may be stale.  BindFailureDelay delays a response and  *)
(* changes nothing else.                                                   *)
(***************************************************************************)
EXTENDS Naturals, Sequences, FiniteSets

CONSTANTS
    Loops,                  \* receive loops of the server's sessions
    Hosts, NoHost,          \* remote addresses (hostKey)
    MaxFailures, Window, Lockout, MaxTracked,   \* BindThrottleConfig
    MaxTime, MaxAttempts    \* bounds: the clock, and the binds of a behaviour

ASSUME BindGuardAssumption ==
    /\ NoHost \notin Hosts
    /\ MaxFailures \in Nat \ {0} /\ Window \in Nat \ {0} /\ Lockout \in Nat \ {0}
    /\ MaxTracked \in Nat \ {0} /\ MaxTime \in Nat \ {0} /\ MaxAttempts \in Nat

VARIABLES
    now,                    \* the clock, from 1: the zero time.Time is 0
    entries,                \* bindThrottle.entries; failures = 0: no entry
    pc, host, clock,        \* a loop inside Handle: its step, address and clock reading
    attempts, failures, throttled,  \* bindGuard's counters
    rejections,             \* times of the rejections since the last lockout (history)
    recorded, latest        \* the entry as it was last written, and the latest rejection (history)

handlers == <<pc, host, clock>>
stats == <<attempts, failures, throttled>>
history == <<rejections, recorded, latest>>
vars == <<now, entries, handlers, stats, history>>

Entry == [failures : Nat, windowStart : Nat, lastFailure : Nat, lockedUntil : Nat]

NoEntry == [failures |-> 0, windowStart |-> 0, lastFailure |-> 0, lockedUntil |-> 0]

Tracked == {h \in Hosts : entries[h].failures > 0}

Init ==
    /\ now = 1 /\ entries = [h \in Hosts |-> NoEntry]
    /\ pc = [l \in Loops |-> "idle"] /\ host = [l \in Loops |-> NoHost] /\ clock = [l \in Loops |-> 0]
    /\ attempts = 0 /\ failures = 0 /\ throttled = 0
    /\ rejections = [h \in Hosts |-> <<>>]
    /\ recorded = [h \in Hosts |-> NoEntry] /\ latest = [h \in Hosts |-> 0]

Goto(l, to) == pc' = [pc EXCEPT ![l] = to]

ReadClock(l) == clock' = [clock EXCEPT ![l] = now]

\* Handle returns.
Return(l) == Goto(l, "idle") /\ host' = [host EXCEPT ![l] = NoHost] /\ clock' = [clock EXCEPT ![l] = 0]

Tick == now < MaxTime /\ now' = now + 1 /\ UNCHANGED <<entries, handlers, stats, history>>

-----------------------------------------------------------------------------
\* A bind arrives; AllowBind reads the clock.
Attempt(l, h) ==
    /\ pc[l] = "idle" /\ attempts < MaxAttempts
    /\ attempts' = attempts + 1 /\ host' = [host EXCEPT ![l] = h] /\ ReadClock(l) /\ Goto(l, "allow")
    /\ UNCHANGED <<now, entries, failures, throttled, history>>

\* now.Sub(e.windowStart) >= Window; a stale clock may be behind windowStart.
lapsed(e, t) == t >= e.windowStart + Window

\* AllowBind under t.mu.  An entry whose lockout is served or whose window lapsed is
\* forgotten.
AllowBind(l) ==
    LET h == host[l] e == entries[h] t == clock[l] IN
    /\ pc[l] = "allow"
    /\ \/ /\ t < e.lockedUntil
          /\ throttled' = throttled + 1 /\ Return(l) /\ UNCHANGED entries
       \/ /\ t >= e.lockedUntil /\ Goto(l, "authenticate") /\ UNCHANGED <<host, clock, throttled>>
          /\ entries' = IF e.failures > 0 /\ (e.lockedUntil # 0 \/ lapsed(e, t))
                        THEN [entries EXCEPT ![h] = NoEntry] ELSE entries
    /\ UNCHANGED <<now, attempts, failures, history>>

\* The Authenticator accepts (RecordBind ignores a success), returns an error, or
\* rejects; then RecordBind reads the clock.  A panic of a limiter is a fault as well.
Authenticate(l) ==
    /\ pc[l] = "authenticate"
    /\ Return(l) \/ (ReadClock(l) /\ Goto(l, "record") /\ UNCHANGED host)
    /\ UNCHANGED <<now, entries, attempts, failures, throttled, history>>

-----------------------------------------------------------------------------
expired(e, t) == t >= e.lockedUntil /\ lapsed(e, t)

\* Mutant: a locked address makes room for a newer one.
MutEvictable(t) ==
    LET locked == {k \in Tracked : t < entries[k].lockedUntil} IN
    IF locked # {} THEN locked ELSE Tracked

\* evictLocked, over map order: an expired entry if there is one, else one with the
\* oldest last failure.
evictable(t) ==
    LET stale == {k \in Tracked : expired(entries[k], t)} IN
    IF stale # {} THEN stale
    ELSE {k \in Tracked : \A j \in Tracked : entries[k].lastFailure <= entries[j].lastFailure}

\* Mutant: the count starts again with every rejection.
MutRecord(e, t) ==
    [failures |-> 1, windowStart |-> t, lastFailure |-> t, lockedUntil |-> IF MaxFailures = 1 THEN t + Lockout ELSE 0]

\* The entry after one more rejection at time t.
record(e, t) ==
    LET fresh == e.failures = 0 \/ lapsed(e, t)
        n == IF fresh THEN 1 ELSE e.failures + 1
    IN  [failures |-> n, windowStart |-> IF fresh THEN t ELSE e.windowStart, lastFailure |-> t,
         lockedUntil |-> IF n >= MaxFailures THEN t + Lockout ELSE e.lockedUntil]

\* RecordBind of a rejection, under t.mu.
RecordBind(l) ==
    LET h == host[l]
        e == record(entries[h], clock[l])
        full == entries[h].failures = 0 /\ Cardinality(Tracked) >= MaxTracked
    IN
    /\ pc[l] = "record" /\ failures' = failures + 1 /\ Return(l)
    /\ \E k \in IF full THEN evictable(clock[l]) ELSE {h} :
          /\ entries' = [[entries EXCEPT ![k] = IF full THEN NoEntry ELSE @] EXCEPT ![h] = e]
          /\ rejections' = [g \in Hosts |-> IF g = h /\ e.failures < MaxFailures THEN Append(rejections[g], clock[l])
                                            ELSE IF g = h \/ (full /\ g = k) THEN <<>> ELSE rejections[g]]
    /\ recorded' = [recorded EXCEPT ![h] = e]
    /\ latest' = [latest EXCEPT ![h] = IF clock[l] > @ THEN clock[l] ELSE @]
    /\ UNCHANGED <<now, attempts, throttled>>

-----------------------------------------------------------------------------
Next ==
    \/ Tick
    \/ \E l \in Loops : AllowBind(l) \/ Authenticate(l) \/ RecordBind(l) \/ \E h \in Hosts : Attempt(l, h)

Spec == Init /\ [][Next]_vars

-----------------------------------------------------------------------------
(***************************************************************************)
(*                               Properties                                *)
(***************************************************************************)

\* Every variable has its type, and an entry without failures is no entry.
TypeOK ==
    /\ now \in 1..MaxTime /\ entries \in [Hosts -> Entry]
    /\ \A h \in Hosts : entries[h].failures = 0 => entries[h] = NoEntry
    /\ pc \in [Loops -> {"idle", "allow", "authenticate", "record"}]
    /\ host \in [Loops -> Hosts \cup {NoHost}] /\ clock \in [Loops -> 0..MaxTime]
    /\ attempts \in 0..MaxAttempts /\ failures \in Nat /\ throttled \in Nat
    /\ rejections \in [Hosts -> Seq(1..MaxTime)]
    /\ recorded \in [Hosts -> Entry] /\ latest \in [Hosts -> 0..MaxTime]

\* An address whose entry was dropped before its lockout was served.
Released(h) == now < recorded[h].lockedUntil /\ entries[h].failures = 0

\* Addresses other than h that were rejected no earlier than h was.
After(h) == {g \in Hosts \ {h} : latest[g] >= recorded[h].lastFailure}

\* Once an address has reached MaxFailures only the binds that had already passed
\* AllowBind can still be rejected: the overshoot is bounded by the receive loops.  The
\* table keeps to MaxTracked whatever the number of addresses, and an address without
\* failures has no entry.  A lockout ends before its time only for room, in a table
\* whose other places are all held by addresses that failed no earlier (evictLocked).
OvershootBounded ==
    /\ TypeOK /\ Cardinality(Tracked) <= MaxTracked
    /\ \A h \in Hosts : entries[h].failures <= MaxFailures + Cardinality(Loops) - 1
    /\ \A h \in Hosts : Released(h) => Cardinality(After(h)) >= MaxTracked - 1

\* Rejections of an address since its last lockout, at most Window old.
recent(h) == SelectSeq(rejections[h], LAMBDA t : t + Window > now)

\* No way of spreading guesses over the fixed windows gets an address more than twice the
\* allowance into one Window without a lockout.
GuessBudget == \A h \in Hosts : Len(recent(h)) <= 2 * (MaxFailures - 1)
=============================================================================
