------------------------------ MODULE Keepalive ------------------------------
(***************************************************************************)
(* Session supervision (session/liveness.go): the session-init,            *)
(* inactivity and enquire_link deadlines, the enquire_link probes, and     *)
(* what they share with the rest of the session: the lifecycle state and   *)
(* the request window.  A bind and an unbind of our own are requests like  *)
(* any other, with a place in the window and a response deadline.          *)
(*                                                                         *)
(* Time is counted in ticks and kept as ages and remaining times.  What is *)
(* due or runnable runs before the next tick, in any order: the documented *)
(* times presume goroutines that are scheduled and a transport that takes  *)
(* what is written.  The heap of deadlines is the timers plus the response *)
(* deadlines of the requests in the window; deadlines.run pops all that    *)
(* are due and then expires them one by one.  Open and Outbound are one to *)
(* the code modelled here, so an outbind that is not sent is left out.     *)
(* After terminate nothing of this matters, so the steps end with done.    *)
(***************************************************************************)
EXTENDS Naturals, FiniteSets

CONSTANTS
    Off,                    \* a timer that is not armed
    Slots,                  \* the places of the window, WindowSize of them
    Configs                 \* the five durations of Config, 0: disabled

Durations == [SessionInitTimeout : Nat, InactivityTimeout : Nat, EnquireLinkInterval : Nat,
              EnquireLinkTimeout : Nat, ResponseTimeout : Nat \ {0}]

ASSUME KeepaliveAssumption ==
    Slots # {} /\ IsFiniteSet(Slots) /\ Off \notin Nat /\ Configs \subseteq Durations

Timers == {"init", "inactivity", "enquire"}

VARIABLES
    config, role,
    state, done, closeErr,  \* lifecycle state; terminate has run, and with which cause
    binding,                \* the peer's bind has arrived and its handler runs
    inAge, actAge,          \* time since lastInbound and since lastActivity
    age,                    \* since the connect, or since it became bound (history)
    silent,                 \* since lastInbound or since it became bound (history)
    quiet,                  \* since anything but a probe was asked for, sent or received,
                            \* or since it became bound (history)
    skipped,                \* a probe found the window full since then (history)
    timer,                  \* remaining time of the liveness deadlines in the heap
    slot,                   \* the window: use, and remaining time of the response deadline
    rollback,               \* who has taken our unbind off the pending table and is to roll it back
    firing,                 \* popped deadlines: timers and slots
    ending,                 \* causes for which some goroutine is about to call terminate
    starting,               \* probe goroutines that have not reached the window
    crossed                 \* an unbind began while there was one (history)

ages == <<inAge, actAge, age, silent, quiet, skipped>>
vars == <<config, role, state, done, closeErr, binding, ages, timer, slot, rollback, firing, ending,
          starting, crossed>>

\* Left is Off until the TX loop has written the request.
Free == [use |-> "free", left |-> Off]

bound == state = "Bound"

arm(t) == IF t > 0 THEN t ELSE Off

\* New and scheduleLivenessDeadlines
Init ==
    /\ config \in Configs /\ role \in {"ESME", "SMSC"}
    /\ state = "Open" /\ done = FALSE /\ closeErr = "none" /\ binding = FALSE
    /\ inAge = 0 /\ actAge = 0 /\ age = 0 /\ silent = 0 /\ quiet = 0 /\ skipped = FALSE
    /\ timer = [init |-> arm(config.SessionInitTimeout), inactivity |-> arm(config.InactivityTimeout),
                enquire |-> arm(config.EnquireLinkInterval)]
    /\ slot = [i \in Slots |-> Free] /\ rollback = "none" /\ firing = {} /\ ending = {}
    /\ starting = 0 /\ crossed = FALSE

terminate(cause) == done' = TRUE /\ closeErr' = cause

Due == {t \in Timers : timer[t] = 0} \cup {i \in Slots : slot[i].left = 0}

-----------------------------------------------------------------------------
responseTimeoutFor(use) ==
    IF use = "probe" /\ config.EnquireLinkTimeout > 0 THEN config.EnquireLinkTimeout ELSE config.ResponseTimeout

\* When a silent peer is cut, and when it is if the window was full.
cut == config.EnquireLinkInterval + responseTimeoutFor("probe")
lateCut == IF config.EnquireLinkInterval > 0 THEN cut + config.ResponseTimeout ELSE 0

\* An age counts up to the bound it is compared with, a history to one more.
older(a, limit) == IF a < limit THEN a + 1 ELSE a

sooner(t) == IF t = Off \/ t = 0 THEN t ELSE t - 1

Runnable ==
    \/ Due # {} \/ firing # {} \/ ending # {} \/ starting > 0 \/ rollback # "none"
    \/ \E i \in Slots : slot[i].use # "free" /\ slot[i].left = Off

Tick ==
    /\ ~done /\ ~Runnable
    /\ inAge' = older(inAge, config.InactivityTimeout)
    /\ actAge' = older(actAge, config.EnquireLinkInterval)
    /\ age' = older(age, config.SessionInitTimeout + 1)
    /\ silent' = older(silent, config.InactivityTimeout + 1)
    /\ quiet' = older(quiet, lateCut + 1)
    /\ timer' = [t \in Timers |-> sooner(timer[t])]
    /\ slot' = [i \in Slots |-> [slot[i] EXCEPT !.left = sooner(@)]]
    /\ UNCHANGED <<config, role, state, done, closeErr, binding, skipped, rollback, firing, ending,
                   starting, crossed>>

-----------------------------------------------------------------------------
\* rxLoop, as far as supervision goes.  It reads nothing while it is busy with a PDU, and
\* nothing more once it is about to terminate the session.

Receiving == ~done /\ ~binding /\ "unbind_resp" \notin ending /\ rollback # "rx"

\* noteActivityAt and noteInboundAt
NoteInbound == inAge' = 0 /\ actAge' = 0 /\ silent' = 0 /\ quiet' = 0 /\ skipped' = FALSE

NoteOutbound == actAge' = 0 /\ quiet' = 0 /\ skipped' = FALSE

BecomesBound == state' = "Bound" /\ age' = 0 /\ silent' = 0

\* A complete PDU arrives that changes nothing else here.
Inbound ==
    /\ Receiving /\ NoteInbound
    /\ UNCHANGED <<config, role, state, done, closeErr, binding, age, timer, slot, rollback, firing,
                   ending, starting, crossed>>

\* handleResponse: takeResponse frees the place, then the outcome by kind of request.  A
\* refused probe is an error tryEnquireLink returns; a refused unbind is rolled back.
Response(i, ok) ==
    LET use == slot[i].use IN
    /\ Receiving /\ slot[i].left # Off /\ NoteInbound /\ slot' = [slot EXCEPT ![i] = Free]
    /\ \/ /\ use = "bind" /\ ok /\ BecomesBound /\ UNCHANGED <<rollback, ending>>
       \/ /\ use = "unbind" /\ ok /\ state' = "Closed" /\ ending' = ending \cup {"unbind_resp"}
          /\ UNCHANGED <<age, rollback>>
       \/ use = "unbind" /\ ~ok /\ rollback' = "rx" /\ UNCHANGED <<state, age, ending>>
       \/ use = "probe" /\ ~ok /\ ending' = ending \cup {"nack"} /\ UNCHANGED <<state, age, rollback>>
       \/ /\ use = "app" \/ (use = "bind" /\ ~ok) \/ (use = "probe" /\ ok)
          /\ UNCHANGED <<state, age, rollback, ending>>
    /\ UNCHANGED <<config, role, done, closeErr, binding, timer, firing, starting, crossed>>

BindArrives ==
    /\ Receiving /\ role = "SMSC" /\ state \in {"Open", "Outbound"} /\ binding' = TRUE /\ NoteInbound
    /\ UNCHANGED <<config, role, state, done, closeErr, age, timer, slot, rollback, firing, ending,
                   starting, crossed>>

\* The handler returns and the response is written; the bind is accepted or not.
BindAnswered ==
    /\ ~done /\ binding /\ binding' = FALSE /\ NoteOutbound
    /\ BecomesBound \/ UNCHANGED <<state, age, silent>>
    /\ UNCHANGED <<config, role, done, closeErr, inAge, timer, slot, rollback, firing, ending, starting,
                   crossed>>

\* The peer unbinds: the response goes to the TX loop, which terminates after writing it.
PeerUnbind ==
    /\ Receiving /\ bound /\ NoteInbound /\ state' = "Unbound" /\ ending' = ending \cup {"unbind"}
    /\ crossed' = (crossed \/ starting > 0)
    /\ UNCHANGED <<config, role, done, closeErr, binding, age, timer, slot, rollback, firing, starting>>

-----------------------------------------------------------------------------
\* The application and txLoop.

\* An outbind, sent or received.
Outbind ==
    /\ state = "Open" /\ state' = "Outbound"
    /\ \/ role = "SMSC" /\ ~done /\ NoteOutbound /\ UNCHANGED <<inAge, silent>>
       \/ role = "ESME" /\ Receiving /\ NoteInbound
    /\ UNCHANGED <<config, role, done, closeErr, binding, age, timer, slot, rollback, firing, ending,
                   starting, crossed>>

\* Request has its place in the window and BeginOutbound admits it; the TX loop writes it later.
Request(i, use) ==
    /\ ~done /\ slot[i] = Free /\ slot' = [slot EXCEPT ![i].use = use] /\ quiet' = 0 /\ skipped' = FALSE
    /\ \/ use = "app" /\ bound /\ UNCHANGED <<state, crossed>>
       \/ /\ use = "bind" /\ role = "ESME" /\ state \in {"Open", "Outbound"}
          /\ \A j \in Slots : slot[j].use # "bind"
          /\ UNCHANGED <<state, crossed>>
       \/ use = "unbind" /\ bound /\ state' = "Unbound" /\ crossed' = (crossed \/ starting > 0)
    /\ UNCHANGED <<config, role, done, closeErr, binding, inAge, actAge, age, silent, timer, rollback,
                   firing, ending, starting>>

\* The caller's context ends; CancelOutbound rolls an unbind back.
Cancelled(i) ==
    /\ ~done /\ slot[i].use \in {"app", "bind", "unbind"} /\ slot' = [slot EXCEPT ![i] = Free]
    /\ rollback' = IF slot[i].use = "unbind" THEN "caller" ELSE rollback
    /\ UNCHANGED <<config, role, state, done, closeErr, binding, ages, timer, firing, ending, starting,
                   crossed>>

\* CancelOutbound, or CompleteOutbound with an error status, of an unbind.
RollBack ==
    /\ ~done /\ rollback # "none" /\ rollback' = "none"
    /\ state = "Unbound" /\ BecomesBound /\ quiet' = 0 /\ skipped' = FALSE
    /\ UNCHANGED <<config, role, done, closeErr, binding, inAge, actAge, timer, slot, firing, ending,
                   starting, crossed>>

\* txLoop writes a request, notes activity and arms its response deadline.
TxWrite(i) ==
    /\ ~done /\ slot[i].use # "free" /\ slot[i].left = Off
    /\ slot' = [slot EXCEPT ![i].left = responseTimeoutFor(slot[i].use)]
    /\ IF slot[i].use = "probe" THEN actAge' = 0 /\ UNCHANGED <<quiet, skipped>> ELSE NoteOutbound
    /\ UNCHANGED <<config, role, state, done, closeErr, binding, inAge, age, silent, timer, rollback, firing,
                   ending, starting, crossed>>

\* txLoop writes a response or a one-way PDU.
TxWriteOther ==
    /\ ~done /\ NoteOutbound
    /\ UNCHANGED <<config, role, state, done, closeErr, binding, inAge, age, silent, timer, slot, rollback,
                   firing, ending, starting, crossed>>

\* Session.Close, a read or write error, a fatal frame
Close ==
    /\ ~done /\ terminate("closed")
    /\ UNCHANGED <<config, role, state, binding, ages, timer, slot, rollback, firing, ending, starting,
                   crossed>>

Terminate ==
    /\ ~done /\ \E cause \in ending : terminate(cause)
    /\ UNCHANGED <<config, role, state, binding, ages, timer, slot, rollback, firing, ending, starting,
                   crossed>>

-----------------------------------------------------------------------------
\* deadlines.run, one goroutine.

\* expireReady pops everything due.
ExpireReady ==
    /\ ~done /\ firing = {} /\ ending \cap Timers = {} /\ rollback # "run" /\ Due # {} /\ firing' = Due
    /\ timer' = [t \in Timers |-> IF t \in Due THEN Off ELSE timer[t]]
    /\ UNCHANGED <<config, role, state, done, closeErr, binding, ages, slot, rollback, ending, starting,
                   crossed>>

Fire(x) == ~done /\ ending \cap Timers = {} /\ rollback # "run" /\ x \in firing /\ firing' = firing \ {x}

Reschedule(t, after) == timer' = [timer EXCEPT ![t] = arm(after)]

\* The state is read here and terminate runs later.
fireSessionInit ==
    /\ Fire("init")
    /\ ending' = IF state \in {"Open", "Outbound"} THEN ending \cup {"init"} ELSE ending
    /\ UNCHANGED <<config, role, state, done, closeErr, binding, ages, timer, slot, rollback, starting,
                   crossed>>

\* Mutant: the full timeout again instead of what is left of it.
MutFireInactivity ==
    LET due == bound /\ inAge >= config.InactivityTimeout IN
    /\ Fire("inactivity") /\ ending' = IF due THEN ending \cup {"inactivity"} ELSE ending
    /\ IF due THEN UNCHANGED timer ELSE Reschedule("inactivity", config.InactivityTimeout)
    /\ UNCHANGED <<config, role, state, done, closeErr, binding, ages, slot, rollback, starting, crossed>>

fireInactivity ==
    LET idle == IF bound THEN inAge ELSE 0
        due == bound /\ idle >= config.InactivityTimeout
    IN
    /\ Fire("inactivity") /\ ending' = IF due THEN ending \cup {"inactivity"} ELSE ending
    /\ IF due THEN UNCHANGED timer ELSE Reschedule("inactivity", config.InactivityTimeout - idle)
    /\ UNCHANGED <<config, role, state, done, closeErr, binding, ages, slot, rollback, starting, crossed>>

\* Mutant: the full interval again instead of what is left of it.
MutFireEnquireLink ==
    /\ Fire("enquire") /\ Reschedule("enquire", config.EnquireLinkInterval)
    /\ starting' = IF bound /\ actAge >= config.EnquireLinkInterval THEN starting + 1 ELSE starting
    /\ UNCHANGED <<config, role, state, done, closeErr, binding, ages, slot, rollback, ending, crossed>>

\* The probe runs in a goroutine of its own; the timer is armed again in any case.
fireEnquireLink ==
    LET interval == config.EnquireLinkInterval
        idle == bound /\ actAge >= interval
    IN
    /\ Fire("enquire") /\ starting' = IF idle THEN starting + 1 ELSE starting
    /\ Reschedule("enquire", IF idle \/ ~bound THEN interval ELSE interval - actAge)
    /\ UNCHANGED <<config, role, state, done, closeErr, binding, ages, slot, rollback, ending, crossed>>

\* A response deadline: the request fails unless it was answered after the pop.  A probe
\* returns the error, an unbind is rolled back.
expireRequest(i) ==
    LET use == slot[i].use IN
    /\ Fire(i)
    /\ \/ slot[i].left # 0 /\ UNCHANGED <<slot, rollback, ending>>
       \/ /\ slot[i].left = 0 /\ slot' = [slot EXCEPT ![i] = Free]
          /\ ending' = IF use = "probe" THEN ending \cup {"timeout"} ELSE ending
          /\ rollback' = IF use = "unbind" THEN "run" ELSE rollback
    /\ UNCHANGED <<config, role, state, done, closeErr, binding, ages, timer, starting, crossed>>

\* Mutant: the error of a full window is an error like any other.
MutProbeStart ==
    LET free == {i \in Slots : slot[i] = Free} IN
    /\ ~done /\ starting > 0 /\ starting' = starting - 1
    /\ \/ (free = {} \/ ~bound) /\ ending' = ending \cup {"refused"} /\ UNCHANGED slot
       \/ bound /\ (\E i \in free : slot' = [slot EXCEPT ![i].use = "probe"]) /\ UNCHANGED ending
    /\ UNCHANGED <<config, role, state, done, closeErr, binding, ages, timer, rollback, firing, crossed>>

\* tryEnquireLink: a full window skips the probe; then the state must allow it, or the
\* StateError ends the session in a later step.
ProbeStart ==
    LET free == {i \in Slots : slot[i] = Free} IN
    /\ ~done /\ starting > 0 /\ starting' = starting - 1
    /\ \/ free = {} /\ skipped' = TRUE /\ UNCHANGED <<slot, ending>>
       \/ free # {} /\ ~bound /\ ending' = ending \cup {"refused"} /\ UNCHANGED <<slot, skipped>>
       \/ bound /\ (\E i \in free : slot' = [slot EXCEPT ![i].use = "probe"]) /\ UNCHANGED <<skipped, ending>>
    /\ UNCHANGED <<config, role, state, done, closeErr, binding, inAge, actAge, age, silent, quiet,
                   timer, rollback, firing, crossed>>

-----------------------------------------------------------------------------
Next ==
    \/ Tick \/ Inbound \/ BindArrives \/ BindAnswered \/ PeerUnbind \/ Outbind
    \/ \E i \in Slots :
          \/ \E ok \in BOOLEAN : Response(i, ok)
          \/ \E use \in {"app", "bind", "unbind"} : Request(i, use)
          \/ Cancelled(i) \/ TxWrite(i) \/ expireRequest(i)
    \/ RollBack \/ TxWriteOther \/ Close \/ Terminate
    \/ ExpireReady \/ fireSessionInit \/ fireInactivity \/ fireEnquireLink \/ ProbeStart

Spec == Init /\ [][Next]_vars

-----------------------------------------------------------------------------
(***************************************************************************)
(*                               Properties                                *)
(***************************************************************************)

Times == Nat \cup {Off}

Causes == Timers \cup {"closed", "unbind", "unbind_resp", "nack", "timeout", "refused"}

\* Every variable has its type; a slot in the window has a deadline only when it is used.
TypeOK ==
    /\ config \in Configs /\ role \in {"ESME", "SMSC"}
    /\ state \in {"Open", "Outbound", "Bound", "Unbound", "Closed"} /\ done \in BOOLEAN
    /\ closeErr \in Causes \cup {"none"} /\ binding \in BOOLEAN
    /\ {inAge, actAge, age, silent, quiet} \subseteq Nat /\ skipped \in BOOLEAN
    /\ crossed \in BOOLEAN /\ timer \in [Timers -> Times]
    /\ slot \in [Slots -> [use : {"free", "app", "bind", "unbind", "probe"}, left : Times]]
    /\ \A i \in Slots : slot[i].use = "free" => slot[i].left = Off
    /\ rollback \in {"none", "rx", "run", "caller"}
    /\ firing \subseteq Timers \cup Slots /\ ending \subseteq Causes /\ starting \in Nat

\* "SessionInitTimeout, which is absolute from connect" (TIMEOUTS_AND_LIVENESS.md): no
\* session is alive and unbound for longer, whatever arrives and whatever it was asked; and
\* the deadline, which acts on a state it read before, costs a bound session its connection
\* only when the bind completed in that very instant.  "InactivityTimeout applies only in a
\* bound state. If no complete inbound PDU has been received for the configured interval,
\* the session closes", however much we send: the code keeps it counting from the last PDU
\* or from the moment the session became bound, by a slow bind or by an unbind that failed.
DroppedInTime ==
    /\ TypeOK
    /\ config.SessionInitTimeout > 0 /\ ~done /\ state \in {"Open", "Outbound"} => age <= config.SessionInitTimeout
    /\ closeErr = "init" /\ bound => age = 0
    /\ config.InactivityTimeout > 0 /\ ~done /\ bound => silent <= config.InactivityTimeout

\* A bound session whose peer falls silent while we send nothing is closed after
\* "EnquireLinkInterval + EnquireLinkTimeout" (TIMEOUTS_AND_LIVENESS.md), counted from when
\* it became bound if that is later.  Requests that fill the window hold the probe back, but
\* no longer than they themselves may wait for their responses.  "Successive probes cannot
\* pile up" (CONCURRENCY.md): there are never more than fit between a probe and its timeout.
StalledPeerCut ==
    LET probes == Cardinality({i \in Slots : slot[i].use = "probe"}) + starting IN
    config.EnquireLinkInterval > 0 =>
        /\ ~done /\ bound => quiet <= IF skipped THEN lateCut ELSE cut
        /\ probes <= 1 + responseTimeoutFor("probe") \div config.EnquireLinkInterval

\* A probe that could not be sent never costs a session its connection by itself: a full
\* window is let pass (fireEnquireLinkDeadline), and only an unbind that began after the
\* probe was decided on, and that may have failed by the time of terminate, makes its
\* refusal end the session.
ProbeSparesBound == closeErr = "refused" => crossed
=============================================================================
