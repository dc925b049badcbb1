------------------------------- MODULE Server -------------------------------
(***************************************************************************)
(* The SMSC server's connections (server/server.go, unbound.go): the       *)
(* accept loop with its two limits, the map of sessions, the watcher that  *)
(* removes a session when it has ended, and Close.                         *)
(*                                                                         *)
(* A connection stands for itself and its session.  Of a session's state   *)
(* the server looks at Open only; the rest is "Outbound", "Bound" (bound   *)
(* or beyond) and "ended" (Done is closed).  sessions and byHost change    *)
(* together under s.mu, so one set stands for both.                        *)
(***************************************************************************)
EXTENDS Naturals, FiniteSets

CONSTANTS
    Conns, NoConn,      \* connections peers may open, each once; none
    Hosts, Host,        \* remote addresses, and the address of each connection
    Exempt,             \* hosts in UnboundCapExempt
    MaxSessions,        \* 0: no limit
    MaxUnboundPerIP,    \* 0: no limit
    Outbinds            \* TRUE: the application may call Outbind

ASSUME ServerAssumption ==
    /\ NoConn \notin Conns /\ Host \in [Conns -> Hosts] /\ Exempt \subseteq Hosts
    /\ MaxSessions \in Nat /\ MaxUnboundPerIP \in Nat /\ Outbinds \in BOOLEAN

VARIABLES
    sessions,           \* Server.sessions
    closed, listening,  \* Server.closed; the listener is open
    sstate,             \* the connections' sessions
    apc, aconn,         \* the accept loop of Serve; "stopped" is not serving
    closing,            \* sessions Close has still to close
    over                \* history: sessions a failed outbind brought back on top of the cap

vars == <<sessions, closed, listening, sstate, apc, aconn, closing, over>>

Init ==
    /\ sessions = {} /\ closed = FALSE /\ listening = TRUE
    /\ sstate = [c \in Conns |-> "none"]
    /\ apc = "stopped" /\ aconn = NoConn /\ closing = {} /\ over = {}

Set(c, state) == sstate' = [sstate EXCEPT ![c] = state]

\* unboundFromLocked
unboundFrom(h) == {c \in sessions : Host[c] = h /\ sstate[c] = "Open"}

\* Mutant: one session too many.
MutAtLimit == MaxSessions > 0 /\ Cardinality(sessions) > MaxSessions

atLimit == MaxSessions > 0 /\ Cardinality(sessions) >= MaxSessions

tooManyUnbound(h) ==
    MaxUnboundPerIP > 0 /\ h \notin Exempt /\ Cardinality(unboundFrom(h)) >= MaxUnboundPerIP

-----------------------------------------------------------------------------
\* Serve.  One call at a time; it may be called again after an accept error.
Serve ==
    /\ apc = "stopped" /\ ~closed /\ apc' = "accept"
    /\ UNCHANGED <<sessions, closed, listening, sstate, aconn, closing, over>>

Accept(c) ==
    /\ apc = "accept" /\ listening /\ sstate[c] = "none"
    /\ aconn' = c /\ Set(c, "accepted") /\ apc' = "check"
    /\ UNCHANGED <<sessions, closed, listening, closing, over>>

AcceptFails ==
    /\ apc = "accept" /\ apc' = "stopped"
    /\ UNCHANGED <<sessions, closed, listening, sstate, aconn, closing, over>>

\* Mutant: the cap on unbound connections is not looked at.
MutCheck ==
    /\ apc = "check"
    /\ \/ /\ closed \/ atLimit
          /\ Set(aconn, "ended") /\ aconn' = NoConn /\ apc' = IF closed THEN "stopped" ELSE "accept"
       \/ /\ ~closed /\ ~atLimit
          /\ apc' = "new" /\ UNCHANGED <<sstate, aconn>>
    /\ UNCHANGED <<sessions, closed, listening, closing, over>>

\* The first look at the limits, under the lock.
Check ==
    LET refuse == closed \/ atLimit \/ tooManyUnbound(Host[aconn]) IN
    /\ apc = "check"
    /\ \/ /\ refuse /\ Set(aconn, "ended") /\ aconn' = NoConn
          /\ apc' = IF closed THEN "stopped" ELSE "accept"
       \/ ~refuse /\ apc' = "new" /\ UNCHANGED <<sstate, aconn>>
    /\ UNCHANGED <<sessions, closed, listening, closing, over>>

\* session.New: its loops run before the server knows the session.
NewSession ==
    /\ apc = "new"
    /\ \/ Set(aconn, "Open") /\ apc' = "insert" /\ UNCHANGED aconn
       \/ Set(aconn, "ended") /\ apc' = "accept" /\ aconn' = NoConn
    /\ UNCHANGED <<sessions, closed, listening, closing, over>>

\* Mutant: closed was looked at already.
MutInsert ==
    /\ apc = "insert" /\ sessions' = sessions \cup {aconn}
    /\ apc' = "accept" /\ aconn' = NoConn
    /\ UNCHANGED <<closed, listening, sstate, closing, over>>

\* The second look and the insertion, under one lock.
Insert ==
    /\ apc = "insert" /\ aconn' = NoConn
    /\ \/ /\ closed \/ atLimit
          /\ Set(aconn, "ended") /\ apc' = IF closed THEN "stopped" ELSE "accept"
          /\ UNCHANGED sessions
       \/ /\ ~closed /\ ~atLimit
          /\ sessions' = sessions \cup {aconn} /\ apc' = "accept" /\ UNCHANGED sstate
    /\ UNCHANGED <<closed, listening, closing, over>>

\* Mutant: the session is forgotten before it has ended.
MutWatchEarly(c) ==
    /\ c \in sessions /\ sessions' = sessions \ {c}
    /\ UNCHANGED <<closed, listening, sstate, apc, aconn, closing, over>>

\* watch
Watch(c) ==
    /\ c \in sessions /\ sstate[c] = "ended" /\ sessions' = sessions \ {c}
    /\ UNCHANGED <<closed, listening, sstate, apc, aconn, closing, over>>

-----------------------------------------------------------------------------
\* What a session does by itself or with its peer.
SessionEnds(c) ==
    /\ sstate[c] \in {"Open", "Outbound", "Bound"} /\ Set(c, "ended")
    /\ UNCHANGED <<sessions, closed, listening, apc, aconn, closing, over>>

SessionBinds(c) ==
    /\ sstate[c] \in {"Open", "Outbound"} /\ Set(c, "Bound")
    /\ UNCHANGED <<sessions, closed, listening, apc, aconn, closing, over>>

\* The places of an address are taken, or one is promised to the connection being accepted.
PlaceTaken(h) ==
    \/ Cardinality(unboundFrom(h)) >= MaxUnboundPerIP
    \/ apc \in {"new", "insert"} /\ Host[aconn] = h

\* Server.Outbind on a session it owns, and its rollback when the PDU is not sent.
Outbind(c) ==
    /\ Outbinds /\ c \in sessions /\ sstate[c] = "Open" /\ Set(c, "Outbound")
    /\ over' = over \ {c}
    /\ UNCHANGED <<sessions, closed, listening, apc, aconn, closing>>

OutbindFails(c) ==
    /\ sstate[c] = "Outbound" /\ Set(c, "Open")
    /\ over' = IF PlaceTaken(Host[c]) THEN over \cup {c} ELSE over
    /\ UNCHANGED <<sessions, closed, listening, apc, aconn, closing>>

-----------------------------------------------------------------------------
\* Close: the flag and the snapshot under the lock, then the listener, then the sessions.
Close ==
    /\ ~closed /\ closed' = TRUE /\ closing' = sessions
    /\ UNCHANGED <<sessions, listening, sstate, apc, aconn, over>>

CloseListener ==
    /\ closed /\ listening /\ listening' = FALSE
    /\ UNCHANGED <<sessions, closed, sstate, apc, aconn, closing, over>>

CloseSession(c) ==
    /\ ~listening /\ c \in closing
    /\ Set(c, "ended") /\ closing' = closing \ {c}
    /\ UNCHANGED <<sessions, closed, listening, apc, aconn, over>>

-----------------------------------------------------------------------------
AcceptLoop ==
    (\E c \in Conns : Accept(c)) \/ AcceptFails \/ Check \/ NewSession \/ Insert

Next ==
    \/ Serve \/ AcceptLoop \/ Close \/ CloseListener
    \/ \E c \in Conns :
          \/ Watch(c) \/ SessionEnds(c) \/ SessionBinds(c) \/ Outbind(c) \/ OutbindFails(c)
          \/ CloseSession(c)

Spec == Init /\ [][Next]_vars

\* Goroutines run; Accept fails on a closed listener and otherwise owes nothing.
Fairness ==
    /\ WF_vars(Check \/ NewSession \/ Insert) /\ WF_vars(~listening /\ AcceptFails)
    /\ WF_vars(CloseListener) /\ \A c \in Conns : WF_vars(CloseSession(c)) /\ WF_vars(Watch(c))

FairSpec == Spec /\ Fairness

-----------------------------------------------------------------------------
(***************************************************************************)
(*                               Properties                                *)
(***************************************************************************)

\* Every variable has its type; the accept loop holds a connection exactly between
\* Accept and the decision about it.
TypeOK ==
    /\ sessions \subseteq Conns /\ closing \subseteq Conns /\ over \subseteq Conns
    /\ closed \in BOOLEAN /\ listening \in BOOLEAN
    /\ sstate \in [Conns -> {"none", "accepted", "Open", "Outbound", "Bound", "ended"}]
    /\ apc \in {"stopped", "accept", "check", "new", "insert"} /\ aconn \in Conns \cup {NoConn}
    /\ (aconn # NoConn) <=> (apc \in {"check", "new", "insert"})

\* MaxSessions bounds the sessions the server holds.
SessionLimit == MaxSessions > 0 => Cardinality(sessions) <= MaxSessions

\* MaxUnboundPerIP bounds the unbound sessions of one address: "a session's unbound count
\* can only fall between this check and the insertion below" (Serve).  It can also rise: a
\* session is not counted while it is Outbound, and an outbind that fails puts it back.  So
\* the bound is exceeded by the sessions whose place was given away meanwhile, and by no
\* others.
UnboundLimit ==
    MaxUnboundPerIP > 0 =>
        \A h \in Hosts \ Exempt : Cardinality(unboundFrom(h) \ over) <= MaxUnboundPerIP

\* Every live session is known to the server or in the hands of the accept loop, so that
\* Close and the limits see it.  Every variable has its type.
LiveIsOwned ==
    /\ TypeOK
    /\ \A c \in Conns : sstate[c] \in {"Open", "Outbound", "Bound"} => c \in sessions \cup {aconn}

\* No session outlives the server: Close ends Serve and every connection ever accepted,
\* the one being accepted meanwhile included.
CloseCompletes == closed ~> (apc = "stopped" /\ \A c \in Conns : sstate[c] \in {"none", "ended"})
=============================================================================
