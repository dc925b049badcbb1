------------------------------- MODULE Client -------------------------------
(***************************************************************************)
(* The ESME client (client/client.go): a facade over replaceable sessions. *)
(* One lifecycle goroutine waits for the current session to end, redials   *)
(* with backoff, rebinds with the stored profile and publishes the         *)
(* replacement; application goroutines bind, wait for a connection and     *)
(* close the client at any time.                                           *)
(*                                                                         *)
(* A session is an index into the sessions created so far and is open,     *)
(* bound or dead; how it gets there is the business of RequestPath and     *)
(* Responder.  Close cancels c.ctx in the critical section that sets       *)
(* c.closed, so closed stands for both.  A critical section under c.mu is  *)
(* one step.                                                               *)
(***************************************************************************)
EXTENDS Naturals, FiniteSets

CONSTANTS
    Binders,            \* application goroutines that bind, each with its own profile
    Waiters,            \* application goroutines in WaitConnected
    None,               \* nil
    MaxSessions,        \* bound: sessions the client creates in a behaviour
    Policies,           \* reconnect policies after normalizeReconnect; Enabled includes
                        \* dialable, Jitter is the largest reduction in hundredths
    Millisecond         \* the code's 1ms in the unit of the backoffs

ReconnectPolicy ==
    [Enabled : BOOLEAN, StopOnPermanentBindFailure : BOOLEAN, InitialBackoff : Nat \ {0},
     MaxBackoff : Nat, Multiplier : Nat \ {0}, Jitter : 0..100]

ASSUME ClientAssumption ==
    /\ None \notin Binders \cup Nat /\ MaxSessions \in Nat \ {0}
    /\ Millisecond \in Nat \ {0} /\ Policies \subseteq ReconnectPolicy
    /\ \A q \in Policies : q.MaxBackoff >= q.InitialBackoff

Sessions == 1..MaxSessions

VARIABLES
    policy,                     \* config.Reconnect
    current, profile,           \* fields of Client
    lastErr, terminalErr,
    closed,
    sstate, boundAs,            \* the sessions: state, and the profile each is bound with
    lpc, sess, cand, snapshot,  \* the lifecycle goroutine and its locals
    backoff, delay,             \* delay: the last wait (history)
    bpc, bsess,                 \* a bind call: where it is and its session snapshot
    wpc, notified,              \* a WaitConnected call; its notify channel is closed
    closer,                     \* the session a Close call still has to close
    owed                        \* the client had been bound when the replacement was
                                \* dialled, and no bind was about to be stored (history)

fields == <<policy, current, profile, lastErr, terminalErr, closed>>
sessions == <<sstate, boundAs>>
binders == <<bpc, bsess>>
waiters == <<wpc, notified>>
timing == <<backoff, delay>>
lifecycle == <<lpc, sess, cand, snapshot, timing, owed>>
vars == <<fields, sessions, lifecycle, binders, waiters, closer>>

Live(s) == sstate[s] \in {"open", "bound"}

Kill(s) == sstate' = [sstate EXCEPT ![s] = "dead"]

\* signalLocked: everyone holding the channel is woken.
Signal == notified' = [w \in Waiters |-> TRUE]

\* newClient: the first session is current before the client is returned.
Init ==
    /\ policy \in Policies /\ current = 1 /\ profile = None /\ lastErr = "nil" /\ terminalErr = FALSE /\ closed = FALSE
    /\ sstate = [s \in Sessions |-> IF s = 1 THEN "open" ELSE "unused"]
    /\ boundAs = [s \in Sessions |-> None]
    /\ lpc = "watch" /\ sess = 1 /\ cand = None /\ snapshot = None
    /\ backoff = policy.InitialBackoff /\ delay = 0
    /\ bpc = [b \in Binders |-> "idle"] /\ bsess = [b \in Binders |-> None]
    /\ wpc = [w \in Waiters |-> "idle"] /\ notified = [w \in Waiters |-> FALSE]
    /\ closer = None /\ owed = FALSE

-----------------------------------------------------------------------------
\* Sessions end by themselves: transport loss, timeout, unbind.
SessionEnds(s) ==
    /\ Live(s) /\ Kill(s)
    /\ UNCHANGED <<fields, boundAs, lifecycle, binders, waiters, closer>>

-----------------------------------------------------------------------------
\* bind: activeSession, the session's bind, and the profile in a critical section of its
\* own after the response.
BindCall(b) ==
    /\ bpc[b] = "idle" /\ current # None /\ ~closed
    /\ bpc' = [bpc EXCEPT ![b] = "bind"] /\ bsess' = [bsess EXCEPT ![b] = current]
    /\ UNCHANGED <<fields, sessions, lifecycle, waiters, closer>>

BindReturns(b) ==
    LET s == bsess[b] IN
    /\ bpc[b] = "bind"
    /\ \/ /\ sstate[s] = "open"
          /\ sstate' = [sstate EXCEPT ![s] = "bound"] /\ boundAs' = [boundAs EXCEPT ![s] = b]
          /\ bpc' = [bpc EXCEPT ![b] = "store"] /\ UNCHANGED bsess
       \/ /\ bpc' = [bpc EXCEPT ![b] = "idle"] /\ bsess' = [bsess EXCEPT ![b] = None]
          /\ UNCHANGED sessions
    /\ UNCHANGED <<fields, lifecycle, waiters, closer>>

BindStore(b) ==
    /\ bpc[b] = "store" /\ profile' = b
    /\ bpc' = [bpc EXCEPT ![b] = "idle"] /\ bsess' = [bsess EXCEPT ![b] = None]
    /\ UNCHANGED <<policy, current, lastErr, terminalErr, closed, sessions, lifecycle, waiters, closer>>

-----------------------------------------------------------------------------
\* WaitConnected: the test and the snapshot of notify share a read lock.
WaitCheck(w) ==
    /\ wpc[w] \in {"idle", "check"}
    /\ wpc' = [wpc EXCEPT ![w] = IF current # None \/ closed \/ terminalErr THEN "idle" ELSE "select"]
    /\ notified' = [notified EXCEPT ![w] = FALSE]
    /\ UNCHANGED <<fields, sessions, lifecycle, binders, closer>>

WaitWake(w) ==
    /\ wpc[w] = "select"
    /\ \/ notified[w] /\ wpc' = [wpc EXCEPT ![w] = "check"]
       \/ closed /\ wpc' = [wpc EXCEPT ![w] = "idle"]
    /\ UNCHANGED <<fields, sessions, lifecycle, binders, notified, closer>>

\* The caller's own context ends.
WaitCancelled(w) ==
    /\ wpc[w] = "select" /\ wpc' = [wpc EXCEPT ![w] = "idle"]
    /\ UNCHANGED <<fields, sessions, lifecycle, binders, notified, closer>>

-----------------------------------------------------------------------------
\* Close: the flag, the cancellation and the snapshot of current under the lock; the
\* session is closed after it.
Close ==
    /\ ~closed /\ closed' = TRUE /\ closer' = current /\ Signal
    /\ UNCHANGED <<policy, current, profile, lastErr, terminalErr, sessions, lifecycle, binders, wpc>>

CloseSession ==
    /\ closer # None /\ Kill(closer) /\ closer' = None
    /\ UNCHANGED <<fields, boundAs, lifecycle, binders, waiters>>

-----------------------------------------------------------------------------
\* The lifecycle goroutine.

\* nextBackoff
nextBackoff(b) ==
    LET next == IF b * policy.Multiplier <= b THEN b + Millisecond ELSE b * policy.Multiplier
    IN  IF next > policy.MaxBackoff THEN policy.MaxBackoff ELSE next

\* jitterReconnectDelay: the values it may return.
jitterReconnectDelay(b) ==
    IF policy.Jitter = 0 THEN {b}
    ELSE {IF b - r < Millisecond THEN Millisecond ELSE b - r : r \in 0..((policy.Jitter * b) \div 100)}

LcWatch ==
    /\ lpc = "watch"
    /\ \/ closed /\ lpc' = "stopped"
       \/ sstate[sess] = "dead" /\ lpc' = "lost"
    /\ UNCHANGED <<fields, sessions, sess, cand, snapshot, timing, owed, binders, waiters, closer>>

\* Mutant: the loss is not recorded.
MutLcLost ==
    /\ lpc = "lost" /\ current' = None /\ Signal
    /\ lpc' = IF closed \/ ~policy.Enabled THEN "stopped" ELSE "wait"
    /\ backoff' = policy.InitialBackoff
    /\ UNCHANGED <<policy, profile, lastErr, terminalErr, closed, sessions, sess, cand, snapshot, delay, owed,
                   binders, wpc, closer>>

LcLost ==
    /\ lpc = "lost"
    /\ IF current = sess THEN current' = None /\ lastErr' = "loss" /\ Signal
                         ELSE UNCHANGED <<current, lastErr, notified>>
    /\ lpc' = IF closed \/ ~policy.Enabled THEN "stopped" ELSE "wait"
    /\ backoff' = policy.InitialBackoff
    /\ UNCHANGED <<policy, profile, terminalErr, closed, sessions, sess, cand, snapshot, delay, owed,
                   binders, wpc, closer>>

\* waitContext: the timer fires, or the client is closed.
LcWait ==
    /\ lpc = "wait" /\ lpc' = "dial" /\ delay' \in jitterReconnectDelay(backoff)
    /\ UNCHANGED <<fields, sessions, sess, cand, snapshot, backoff, owed, binders, waiters, closer>>

LcWaitCancelled ==
    /\ lpc = "wait" /\ closed /\ lpc' = "stopped"
    /\ UNCHANGED <<fields, sessions, sess, cand, snapshot, timing, owed, binders, waiters, closer>>

\* recordReconnectError
RecordReconnectError(cause) == lastErr' = cause /\ Signal

\* dialTransport or session.New fails.
LcDialFails ==
    /\ lpc = "dial" /\ lpc' = "wait"
    /\ RecordReconnectError("dial") /\ backoff' = nextBackoff(backoff)
    /\ UNCHANGED <<policy, current, profile, terminalErr, closed, sessions, sess, cand, snapshot, delay, owed,
                   binders, wpc, closer>>

\* The dial succeeds and session.New starts a fresh session.  Bound: MaxSessions.
LcDial ==
    /\ lpc = "dial" /\ lpc' = "profile"
    /\ \E s \in Sessions :
          /\ sstate[s] = "unused" /\ s > 1 /\ sstate[s - 1] # "unused"
          /\ sstate' = [sstate EXCEPT ![s] = "open"] /\ cand' = s
    /\ owed' = /\ \E s \in Sessions : boundAs[s] # None
               /\ profile # None \/ \A b \in Binders : bpc[b] # "store"
    /\ UNCHANGED <<fields, boundAs, sess, snapshot, timing, binders, waiters, closer>>

\* Mutant: the replacement is published without rebinding.
MutBindProfileSnapshot ==
    /\ lpc = "profile" /\ snapshot' = profile /\ lpc' = "publish"
    /\ UNCHANGED <<fields, sessions, sess, cand, timing, owed, binders, waiters, closer>>

bindProfileSnapshot ==
    /\ lpc = "profile" /\ snapshot' = profile
    /\ lpc' = IF profile = None THEN "publish" ELSE "rebind"
    /\ UNCHANGED <<fields, sessions, sess, cand, timing, owed, binders, waiters, closer>>

\* bindSession under BindTimeout and c.ctx; "rejected" is isPermanentBindRejection.
LcRebind ==
    /\ lpc = "rebind"
    /\ \/ /\ sstate[cand] = "open" /\ lpc' = "publish"
          /\ sstate' = [sstate EXCEPT ![cand] = "bound"] /\ boundAs' = [boundAs EXCEPT ![cand] = snapshot]
       \/ lpc' \in {"failed", "rejected"} /\ UNCHANGED sessions
    /\ UNCHANGED <<fields, sess, cand, snapshot, timing, owed, binders, waiters, closer>>

\* Mutant: the candidate is left open.
MutLcDiscard ==
    /\ lpc \in {"failed", "rejected"}
    /\ cand' = None /\ RecordReconnectError(lpc) /\ lpc' = "wait" /\ backoff' = nextBackoff(backoff)
    /\ UNCHANGED <<policy, current, profile, terminalErr, closed, sessions, sess, snapshot, delay, owed, binders,
                   wpc, closer>>

\* The candidate is closed, waited for, and the error recorded.
LcDiscard ==
    LET terminal == lpc = "rejected" /\ policy.StopOnPermanentBindFailure IN
    /\ lpc \in {"failed", "rejected"}
    /\ Kill(cand) /\ cand' = None /\ RecordReconnectError(lpc)
    /\ lpc' = IF terminal THEN "terminal" ELSE "wait"
    /\ backoff' = IF terminal THEN backoff ELSE nextBackoff(backoff)
    /\ UNCHANGED <<policy, current, profile, terminalErr, closed, boundAs, sess, snapshot, delay, owed, binders,
                   wpc, closer>>

\* Mutant: the waiters are not told.
MutRecordTerminalReconnectError ==
    /\ lpc = "terminal" /\ lpc' = "stopped" /\ terminalErr' = TRUE /\ lastErr' = "rejected"
    /\ UNCHANGED <<policy, current, profile, closed, sessions, sess, cand, snapshot, timing, owed, binders,
                   waiters, closer>>

recordTerminalReconnectError ==
    /\ lpc = "terminal" /\ lpc' = "stopped" /\ terminalErr' = TRUE /\ lastErr' = "rejected" /\ Signal
    /\ UNCHANGED <<policy, current, profile, closed, sessions, sess, cand, snapshot, timing, owed, binders, wpc,
                   closer>>

\* Mutant: the replacement is published without looking at closed.
MutLcPublishClosed ==
    /\ lpc = "publish" /\ current' = cand /\ sess' = cand /\ cand' = None /\ lastErr' = "nil" /\ Signal
    /\ lpc' = "watch"
    /\ UNCHANGED <<policy, profile, terminalErr, closed, sessions, snapshot, timing, owed, binders, wpc, closer>>

\* A client closed meanwhile discards the replacement; otherwise it becomes current.
LcPublish ==
    /\ lpc = "publish" /\ cand' = None
    /\ \/ /\ closed /\ Kill(cand) /\ lpc' = "stopped"
          /\ UNCHANGED <<current, sess, lastErr, notified>>
       \/ /\ ~closed /\ current' = cand /\ sess' = cand /\ lastErr' = "nil" /\ Signal
          /\ lpc' = "watch" /\ UNCHANGED sstate
    /\ UNCHANGED <<policy, profile, terminalErr, closed, boundAs, snapshot, timing, owed, binders, wpc, closer>>

-----------------------------------------------------------------------------
Lifecycle ==
    \/ LcWatch \/ LcLost \/ LcWait \/ LcWaitCancelled \/ LcDialFails \/ LcDial \/ bindProfileSnapshot \/ LcRebind
    \/ LcDiscard \/ recordTerminalReconnectError \/ LcPublish

Next ==
    \/ \E s \in Sessions : SessionEnds(s)
    \/ \E b \in Binders : BindCall(b) \/ BindReturns(b) \/ BindStore(b)
    \/ \E w \in Waiters : WaitCheck(w) \/ WaitWake(w) \/ WaitCancelled(w)
    \/ Close \/ CloseSession \/ Lifecycle

Spec == Init /\ [][Next]_vars

\* Goroutines run: dials, binds and waits end, with whatever result.  A select whose
\* cancellation stays ready takes it in the end.
Fairness ==
    /\ WF_vars(Lifecycle) /\ SF_vars(LcWaitCancelled) /\ WF_vars(CloseSession)
    /\ \A w \in Waiters : WF_vars(WaitWake(w)) /\ WF_vars(wpc[w] = "check" /\ WaitCheck(w))

FairSpec == Spec /\ Fairness

-----------------------------------------------------------------------------
(***************************************************************************)
(*                               Properties                                *)
(***************************************************************************)

LifecycleStates == {"watch", "lost", "wait", "dial", "profile", "rebind", "failed", "rejected",
                    "terminal", "publish", "stopped"}

\* Every variable has its type.
TypeOK ==
    /\ policy \in Policies /\ current \in Sessions \cup {None} /\ closer \in Sessions \cup {None}
    /\ profile \in Binders \cup {None} /\ snapshot \in Binders \cup {None}
    /\ lastErr \in {"nil", "loss", "dial", "failed", "rejected"} /\ terminalErr \in BOOLEAN
    /\ closed \in BOOLEAN
    /\ sstate \in [Sessions -> {"unused", "open", "bound", "dead"}]
    /\ boundAs \in [Sessions -> Binders \cup {None}] /\ owed \in BOOLEAN
    /\ lpc \in LifecycleStates /\ sess \in Sessions /\ cand \in Sessions \cup {None}
    /\ backoff \in policy.InitialBackoff..policy.MaxBackoff /\ delay \in Nat
    /\ bpc \in [Binders -> {"idle", "bind", "store"}] /\ bsess \in [Binders -> Sessions \cup {None}]
    /\ wpc \in [Waiters -> {"idle", "check", "select"}] /\ notified \in [Waiters -> BOOLEAN]

\* A live session belongs to someone who will close it: it is current or the candidate
\* of the lifecycle goroutine, so a replaced session is never left open.  Every variable
\* has its type.
NoOrphan == TypeOK /\ \A s \in Sessions : Live(s) => s \in {current, cand}

\* Once the client has been bound, every replacement it publishes is bound.  The one
\* exception is the moment in which the only bind has its response and has not stored its
\* profile: a replacement dialled then may be published unbound.
PublishedIsRebound == current # None /\ owed => boundAs[current] # None

\* activeSession tells a caller it is Reconnecting only while the lifecycle goroutine is
\* there to do it, always with a cause; and no attempt is further away than MaxBackoff
\* ("the effective interval never exceeds MaxBackoff", ReconnectPolicy.JitterFraction),
\* or than the millisecond to which jitterReconnectDelay raises a smaller one.
ReconnectingIsHonest ==
    /\ delay <= policy.MaxBackoff \/ (policy.Jitter # 0 /\ delay = Millisecond)
    /\ ~closed /\ policy.Enabled /\ ~terminalErr /\ current = None => lpc # "stopped" /\ lastErr # "nil"

\* "Explicit Close cancels dial/backoff and cannot be followed by a reconnect
\* resurrection" (D-039): Close ends the lifecycle goroutine and every session the client
\* ever created, wherever a reconnect stood.
CloseCompletes == closed ~> (lpc = "stopped" /\ \A s \in Sessions : ~Live(s))

\* WaitConnected returns once the client is closed or has given up reconnecting.
WaiterReturns == \A w \in Waiters : (closed \/ terminalErr) ~> wpc[w] = "idle"
=============================================================================
