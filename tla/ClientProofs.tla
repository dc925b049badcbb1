---------------------------- MODULE ClientProofs ----------------------------
(***************************************************************************)
(* Proofs about Client for any binders, waiters, number of sessions and    *)
(* reconnect policy.                                                       *)
(***************************************************************************)
EXTENDS Client, TLAPS

(***************************************************************************)
(* NoOrphan is not inductive.  LcLost and LcPublish overwrite current, and *)
(* LcDial overwrites cand: nothing is left open only because what they     *)
(* overwrite is dead or None, and that depends on where the lifecycle      *)
(* goroutine is.                                                           *)
(***************************************************************************)
Trying == {"profile", "rebind", "failed", "rejected", "publish"}

Placed ==
    /\ NoOrphan
    /\ cand # None <=> lpc \in Trying
    /\ lpc \in {"watch", "lost"} => current = sess
    /\ lpc \in Trying \cup {"wait", "dial", "terminal"} => current = None
    /\ lpc = "lost" => sstate[sess] = "dead"
    /\ \A b \in Binders : bpc[b] # "idle" => bsess[b] \in Sessions

\* What normalizeReconnect makes of a policy.
LEMMA PolicyType ==
    ASSUME policy \in Policies
    PROVE  /\ policy.InitialBackoff \in Nat /\ policy.MaxBackoff \in Nat /\ policy.Multiplier \in Nat
           /\ policy.Jitter \in Nat /\ Millisecond \in Nat /\ policy.MaxBackoff >= policy.InitialBackoff
           /\ policy.Enabled \in BOOLEAN
  BY ClientAssumption DEF ReconnectPolicy

\* The next backoff stays between the first and the largest (nextBackoff).
LEMMA NextBackoffType ==
    ASSUME policy \in Policies, NEW b \in policy.InitialBackoff..policy.MaxBackoff
    PROVE  nextBackoff(b) \in policy.InitialBackoff..policy.MaxBackoff
<1> DEFINE InitialBackoff == policy.InitialBackoff
           MaxBackoff == policy.MaxBackoff
           Multiplier == policy.Multiplier
           next == IF b * Multiplier <= b THEN b + Millisecond ELSE b * Multiplier
<1>0. /\ InitialBackoff \in Nat /\ MaxBackoff \in Nat /\ MaxBackoff >= InitialBackoff /\ Multiplier \in Nat
      /\ Millisecond \in Nat /\ b \in InitialBackoff..MaxBackoff
  BY PolicyType
<1> HIDE DEF InitialBackoff, MaxBackoff, Multiplier, next
<1>1. b \in Nat /\ b >= InitialBackoff
  BY <1>0
<1>2. b * Multiplier \in Nat /\ b + Millisecond \in Nat /\ b + Millisecond >= b
  BY <1>0, <1>1
<1>3. next \in Nat /\ next >= b
  BY <1>1, <1>2 DEF next
<1>4. nextBackoff(b) = IF next > MaxBackoff THEN MaxBackoff ELSE next
  BY DEF nextBackoff, next, MaxBackoff, Multiplier
<1>5. nextBackoff(b) \in InitialBackoff..MaxBackoff
  BY <1>0, <1>1, <1>3, <1>4
<1> QED BY <1>5 DEF InitialBackoff, MaxBackoff

\* A jittered delay is no longer than the backoff, unless it is raised to a millisecond.
LEMMA JitterType ==
    ASSUME policy \in Policies, NEW b \in policy.InitialBackoff..policy.MaxBackoff,
           NEW d \in jitterReconnectDelay(b)
    PROVE  d \in Nat /\ b \in Nat /\ (d <= b \/ (policy.Jitter # 0 /\ d = Millisecond))
<1>1. b \in Nat /\ Millisecond \in Nat
  BY PolicyType
<1>2. CASE policy.Jitter = 0
  BY <1>1, <1>2 DEF jitterReconnectDelay
<1>3. CASE policy.Jitter # 0
  <2>1. PICK r \in 0..((policy.Jitter * b) \div 100) : d = IF b - r < Millisecond THEN Millisecond ELSE b - r
    BY <1>3 DEF jitterReconnectDelay
  <2>2. r \in Nat
    OBVIOUS
  <2> QED BY <1>1, <1>3, <2>1, <2>2
<1> QED BY <1>2, <1>3

\* Each step keeps Placed; one case per action.
LEMMA PlacedStep ==
    ASSUME Placed, [Next]_vars
    PROVE  Placed'
<1> USE ClientAssumption DEF Placed, NoOrphan, TypeOK, Sessions, Live, Trying, LifecycleStates,
        fields, sessions, binders, waiters, timing, lifecycle
<1>1. ASSUME NEW s \in Sessions, SessionEnds(s) PROVE Placed'
  BY <1>1 DEF SessionEnds, Kill
<1>2. ASSUME NEW b \in Binders, BindCall(b) \/ BindReturns(b) \/ BindStore(b) PROVE Placed'
  <2>1. CASE BindCall(b)
    BY <2>1 DEF BindCall
  <2>2. CASE BindReturns(b)
    <3>1. bsess[b] \in Sessions
      BY <2>2 DEF BindReturns
    <3>2. CASE /\ sstate[bsess[b]] = "open"
               /\ sstate' = [sstate EXCEPT ![bsess[b]] = "bound"]
               /\ boundAs' = [boundAs EXCEPT ![bsess[b]] = b]
               /\ bpc' = [bpc EXCEPT ![b] = "store"] /\ UNCHANGED bsess
      BY <2>2, <3>1, <3>2 DEF BindReturns
    <3>3. CASE /\ bpc' = [bpc EXCEPT ![b] = "idle"] /\ bsess' = [bsess EXCEPT ![b] = None]
               /\ UNCHANGED sessions
      BY <2>2, <3>1, <3>3 DEF BindReturns
    <3> QED BY <2>2, <3>2, <3>3 DEF BindReturns
  <2>3. CASE BindStore(b)
    BY <2>3 DEF BindStore
  <2> QED BY <1>2, <2>1, <2>2, <2>3
<1>3. ASSUME NEW w \in Waiters, WaitCheck(w) \/ WaitWake(w) \/ WaitCancelled(w) PROVE Placed'
  <2>1. CASE WaitCheck(w)
    BY <2>1 DEF WaitCheck
  <2>2. CASE WaitWake(w)
    BY <2>2 DEF WaitWake
  <2>3. CASE WaitCancelled(w)
    BY <2>3 DEF WaitCancelled
  <2> QED BY <1>3, <2>1, <2>2, <2>3
<1>4. CASE Close
  BY <1>4 DEF Close, Signal
<1>5. CASE CloseSession
  BY <1>5 DEF CloseSession, Kill
<1>6. CASE LcWatch
  BY <1>6 DEF LcWatch
<1>7. CASE LcLost
  <2>1. current = sess /\ cand = None /\ sstate[sess] = "dead" /\ current' = None /\ lastErr' = "loss"
    BY <1>7 DEF LcLost
  <2>2. \A s \in Sessions : ~Live(s)
    BY <2>1
  <2>3. TypeOK'
    <3>1. lpc' \in {"stopped", "wait"} /\ backoff' = policy.InitialBackoff /\ policy' = policy
      BY <1>7 DEF LcLost
    <3>2. notified' = [w \in Waiters |-> TRUE]
      BY <1>7, <2>1 DEF LcLost, Signal
    <3>3. backoff' \in policy.InitialBackoff..policy.MaxBackoff
      BY <3>1, PolicyType
    <3> QED BY <1>7, <2>1, <3>1, <3>2, <3>3 DEF LcLost
  <2> QED BY <1>7, <2>1, <2>2, <2>3 DEF LcLost
<1>8. CASE LcWait
  <2>1. delay' \in Nat
    BY <1>8, JitterType DEF LcWait
  <2> QED BY <1>8, <2>1 DEF LcWait
<1>9. CASE LcWaitCancelled
  BY <1>9 DEF LcWaitCancelled
<1>10. CASE LcDialFails
  BY <1>10, NextBackoffType DEF LcDialFails, RecordReconnectError, Signal
<1>11. CASE LcDial
  BY <1>11 DEF LcDial
<1>12. CASE bindProfileSnapshot
  BY <1>12 DEF bindProfileSnapshot
<1>13. CASE LcRebind
  BY <1>13 DEF LcRebind
<1>14. CASE LcDiscard
  BY <1>14, NextBackoffType DEF LcDiscard, Kill, RecordReconnectError, Signal
<1>15. CASE recordTerminalReconnectError
  BY <1>15 DEF recordTerminalReconnectError, Signal
<1>16. CASE LcPublish
  <2>1. current = None /\ cand \in Sessions /\ cand' = None
    BY <1>16 DEF LcPublish
  <2>2. CASE lpc' = "stopped"
    <3>1. Kill(cand) /\ current' = None
      BY <1>16, <2>1, <2>2 DEF LcPublish
    <3>2. \A s \in Sessions : ~Live(s)'
      BY <2>1, <3>1 DEF Kill
    <3> QED BY <1>16, <2>1, <2>2, <3>1, <3>2 DEF LcPublish, Kill
  <2>3. CASE lpc' = "watch"
    <3>1. current' = cand /\ sess' = cand /\ lastErr' = "nil" /\ UNCHANGED sstate
      BY <1>16, <2>3 DEF LcPublish
    <3>2. notified' = [w \in Waiters |-> TRUE]
      BY <1>16, <2>3 DEF LcPublish, Signal
    <3> QED BY <1>16, <2>1, <2>3, <3>1, <3>2 DEF LcPublish
  <2> QED BY <1>16, <2>2, <2>3 DEF LcPublish
<1>17. CASE UNCHANGED vars
  BY <1>17 DEF vars
<1> QED BY <1>1, <1>2, <1>3, <1>4, <1>5, <1>6, <1>7, <1>8, <1>9, <1>10, <1>11, <1>12, <1>13, <1>14,
           <1>15, <1>16, <1>17 DEF Next, Lifecycle

(***************************************************************************)
(* A replacement is bound before it is published.  owed is decided at the  *)
(* dial and the profile read after it, so the argument is about what was   *)
(* stored by then: a session that was ever bound was so by a bind that has *)
(* stored its profile or is about to, and a profile, once stored, is       *)
(* replaced and never removed.                                             *)
(***************************************************************************)
Rebound ==
    /\ PublishedIsRebound
    /\ (\E s \in Sessions : boundAs[s] # None) => profile # None \/ \E b \in Binders : bpc[b] = "store"
    /\ lpc = "profile" /\ owed => profile # None
    /\ lpc = "rebind" => snapshot # None /\ profile # None
    /\ lpc = "publish" /\ owed => boundAs[cand] # None

\* Each step keeps Rebound.
LEMMA ReboundStep ==
    ASSUME Placed, Rebound, [Next]_vars
    PROVE  Rebound'
<1> USE ClientAssumption DEF Placed, NoOrphan, TypeOK, Sessions, Trying, Rebound, PublishedIsRebound,
        fields, sessions, binders, waiters, timing, lifecycle
<1>1. ASSUME NEW b \in Binders, BindReturns(b) PROVE Rebound'
  <2>1. bsess[b] \in Sessions /\ b # None
    BY <1>1 DEF BindReturns
  <2>2. boundAs' = boundAs \/ boundAs' = [boundAs EXCEPT ![bsess[b]] = b]
    BY <1>1 DEF BindReturns
  <2>3. \A s \in Sessions : boundAs[s] # None => boundAs'[s] # None
    BY <2>1, <2>2
  <2>4. (\E s \in Sessions : boundAs'[s] # None) => profile # None \/ \E a \in Binders : bpc'[a] = "store"
    BY <1>1 DEF BindReturns
  <2> QED BY <1>1, <2>3, <2>4 DEF BindReturns
<1>2. ASSUME NEW b \in Binders, BindCall(b) \/ BindStore(b) PROVE Rebound'
  BY <1>2 DEF BindCall, BindStore
<1>3. CASE \/ \E s \in Sessions : SessionEnds(s)
           \/ \E w \in Waiters : WaitCheck(w) \/ WaitWake(w) \/ WaitCancelled(w)
           \/ Close \/ CloseSession
  BY <1>3 DEF SessionEnds, WaitCheck, WaitWake, WaitCancelled, Close, CloseSession
<1>4. CASE LcWatch \/ LcLost \/ LcWait \/ LcWaitCancelled \/ LcDialFails \/ LcDiscard
           \/ recordTerminalReconnectError
  BY <1>4 DEF LcWatch, LcLost, LcWait, LcWaitCancelled, LcDialFails, LcDiscard, recordTerminalReconnectError
<1>5. CASE LcDial
  BY <1>5 DEF LcDial
<1>6. CASE bindProfileSnapshot
  BY <1>6 DEF bindProfileSnapshot
<1>7. CASE LcRebind
  BY <1>7 DEF LcRebind
<1>8. CASE LcPublish
  BY <1>8 DEF LcPublish
<1>9. CASE UNCHANGED vars
  BY <1>9 DEF vars
<1> QED BY <1>1, <1>2, <1>3, <1>4, <1>5, <1>6, <1>7, <1>8, <1>9 DEF Next, Lifecycle

(***************************************************************************)
(* What a caller of activeSession is told.                                 *)
(***************************************************************************)
Honest ==
    /\ delay <= policy.MaxBackoff \/ (policy.Jitter # 0 /\ delay = Millisecond)
    /\ lpc = "stopped" => closed \/ ~policy.Enabled \/ terminalErr
    /\ current = None => lastErr # "nil"

\* Each step keeps Honest.
LEMMA HonestStep ==
    ASSUME Placed, Honest, [Next]_vars
    PROVE  Honest'
<1> USE DEF Honest, fields, sessions, binders, waiters, timing, lifecycle
<1>1. CASE LcWait
  <2>1. /\ policy \in Policies /\ backoff \in policy.InitialBackoff..policy.MaxBackoff
        /\ delay' \in jitterReconnectDelay(backoff) /\ policy' = policy
    BY <1>1 DEF LcWait, Placed, NoOrphan, TypeOK
  <2>2. /\ delay' \in Nat /\ backoff \in Nat
        /\ delay' <= backoff \/ (policy.Jitter # 0 /\ delay' = Millisecond)
    BY <2>1, JitterType
  <2>3. delay' <= policy.MaxBackoff \/ (policy.Jitter # 0 /\ delay' = Millisecond)
    BY <2>1, <2>2, PolicyType
  <2> QED BY <1>1, <2>1, <2>3 DEF LcWait
<1>2. CASE LcPublish
  BY <1>2, ClientAssumption DEF LcPublish, Placed, NoOrphan, TypeOK, Sessions, Trying
<1>3. CASE LcWatch \/ LcLost \/ LcWaitCancelled \/ LcDialFails \/ LcDial \/ bindProfileSnapshot \/ LcRebind
  BY <1>3 DEF LcWatch, LcLost, LcWaitCancelled, LcDialFails, LcDial, bindProfileSnapshot, LcRebind,
              RecordReconnectError
<1>4. CASE LcDiscard \/ recordTerminalReconnectError
  BY <1>4 DEF LcDiscard, recordTerminalReconnectError, RecordReconnectError
<1>5. CASE \/ \E s \in Sessions : SessionEnds(s)
           \/ \E b \in Binders : BindCall(b) \/ BindReturns(b) \/ BindStore(b)
           \/ \E w \in Waiters : WaitCheck(w) \/ WaitWake(w) \/ WaitCancelled(w)
           \/ Close \/ CloseSession
  BY <1>5 DEF SessionEnds, BindCall, BindReturns, BindStore, WaitCheck, WaitWake, WaitCancelled,
              Close, CloseSession
<1>6. CASE UNCHANGED vars
  BY <1>6 DEF vars
<1> QED BY <1>1, <1>2, <1>3, <1>4, <1>5, <1>6 DEF Next, Lifecycle

\* newClient's state satisfies the three.
LEMMA InvInit == Init => Placed /\ Rebound /\ Honest
<1> SUFFICES ASSUME Init PROVE Placed /\ Rebound /\ Honest
  OBVIOUS
<1> USE ClientAssumption DEF Init, Sessions
<1>1. Placed
  <2>1. 1 \in Sessions /\ policy.InitialBackoff \in policy.InitialBackoff..policy.MaxBackoff
    BY PolicyType
  <2>2. TypeOK
    BY <2>1 DEF TypeOK, LifecycleStates
  <2>3. \A s \in Sessions : Live(s) => s \in {current, cand}
    BY DEF Live
  <2>4. cand # None <=> lpc \in Trying
    BY DEF Trying
  <2>5. lpc \notin Trying \cup {"wait", "dial", "terminal", "lost"} /\ current = sess
    BY DEF Trying
  <2>6. \A b \in Binders : bpc[b] = "idle"
    OBVIOUS
  <2> QED BY <2>2, <2>3, <2>4, <2>5, <2>6 DEF Placed, NoOrphan
<1>2. Rebound
  BY DEF Rebound, PublishedIsRebound
<1>3. Honest
  BY PolicyType DEF Honest
<1> QED BY <1>1, <1>2, <1>3

\* The three invariants hold in every reachable state.
LEMMA Invariant == Spec => [](Placed /\ Rebound /\ Honest)
<1> QED BY InvInit, PlacedStep, ReboundStep, HonestStep, PTL DEF Spec

\* Every live session is the current one or the candidate: whatever is lost, rejected or
\* closed while the client reconnects, no session is left open that nobody will close.
THEOREM NoSessionOrphaned == Spec => []NoOrphan
<1>1. Placed => NoOrphan
  BY DEF Placed
<1> QED BY <1>1, Invariant, PTL

\* A client that has been bound publishes bound replacements only, unless the only bind
\* that succeeded had not stored its profile at the dial.
THEOREM ReplacementIsRebound == Spec => []PublishedIsRebound
<1>1. Rebound => PublishedIsRebound
  BY DEF Rebound
<1> QED BY <1>1, Invariant, PTL

\* For every policy normalizeReconnect can produce, one below a millisecond included: a
\* caller is told that the client is reconnecting only while it is, with a cause; and a
\* delay above MaxBackoff is exactly the millisecond of jitterReconnectDelay.
THEOREM ReconnectingIsTrue == Spec => []ReconnectingIsHonest
<1>1. Honest => ReconnectingIsHonest
  BY DEF Honest, ReconnectingIsHonest
<1> QED BY <1>1, Invariant, PTL
=============================================================================
