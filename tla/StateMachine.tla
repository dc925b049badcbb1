---------------------------- MODULE StateMachine ----------------------------
(***************************************************************************)
(* The lifecycle state machine of one SMPP session (session/state.go,      *)
(* session/state_cancel.go).  A machine is a record; every method of the   *)
(* Go type runs under one mutex, so a method is an operator from a machine *)
(* to a machine and the modules that own a machine use it in one step.     *)
(* The zero CommandID is NoCommand; the zero SessionState is "Closed",     *)
(* which the code also uses for "no unbind in progress".                   *)
(***************************************************************************)

Roles == {"ESME", "SMSC"}

BoundStates == {"BoundTX", "BoundRX", "BoundTRX"}

States == {"Closed", "Open", "Outbound", "Unbound"} \cup BoundStates

NoCommand == "none"

BindRequests == {"bind_transmitter", "bind_receiver", "bind_transceiver"}

\* Commands only an ESME may send while bound for transmission.
SubmitCommands == {"submit_sm", "submit_multi", "query_sm", "cancel_sm",
    "broadcast_sm", "query_broadcast_sm", "cancel_broadcast_sm"}

Requests34 == BindRequests \cup SubmitCommands \cup {"outbind", "unbind",
    "enquire_link", "replace_sm", "deliver_sm", "data_sm", "alert_notification"}

peer(role) == IF role = "ESME" THEN "SMSC" ELSE "ESME"

isBindRequest(c) == c \in BindRequests

isOneWayCommand(c) == c \in {"outbind", "alert_notification"}

isLifecycleRequest(c) == isBindRequest(c) \/ c = "unbind"

\* The request rows of standardRules, one disjunct per set of states.  The response
\* rows are left out: no caller of CanIssue inside the session package asks about a
\* response.
CanIssue(state, role, c) ==
    \/ c \in BindRequests /\ role = "ESME" /\ state = "Open"
    \/ c = "bind_receiver" /\ role = "ESME" /\ state = "Outbound"
    \/ c = "outbind" /\ role = "SMSC" /\ state = "Open"
    \/ c \in {"unbind", "enquire_link", "data_sm"} /\ state \in BoundStates
    \/ c \in SubmitCommands /\ role = "ESME" /\ state \in {"BoundTX", "BoundTRX"}
    \/ c = "replace_sm" /\ role = "ESME" /\ state = "BoundTX"
    \/ c \in {"deliver_sm", "alert_notification"} /\ role = "SMSC" /\ state \in {"BoundRX", "BoundTRX"}

boundStateForBind(c) ==
    IF c = "bind_transmitter" THEN "BoundTX"
    ELSE IF c = "bind_receiver" THEN "BoundRX"
    ELSE IF c = "bind_transceiver" THEN "BoundTRX" ELSE "Open"

Machines == [role : Roles, state : States,
             pendingLocalBind : BindRequests \cup {NoCommand},
             pendingPeerBind  : BindRequests \cup {NoCommand},
             localUnbindFrom  : BoundStates \cup {"Closed"},
             peerUnbindFrom   : BoundStates \cup {"Closed"}]

NewStateMachine(role) ==
    [role |-> role, state |-> "Closed",
     pendingLocalBind |-> NoCommand, pendingPeerBind |-> NoCommand,
     localUnbindFrom |-> "Closed", peerUnbindFrom |-> "Closed"]

\* New calls Open on the fresh machine before any loop starts.
Open(m) == IF m.state = "Closed" THEN [m EXCEPT !.state = "Open"] ELSE m

-----------------------------------------------------------------------------
\* Shared by both directions: the state a lifecycle request moves to at once, and
\* the state an answered unbind leaves behind (from: the state it was issued in).
begin(state, c) ==
    IF c = "unbind" THEN "Unbound" ELSE IF c = "outbind" THEN "Outbound" ELSE state

unbindResult(state, from, ok) ==
    IF ok THEN "Closed" ELSE IF from # "Closed" THEN from ELSE state

-----------------------------------------------------------------------------
\* Local operations.  BeginOutbound is split into its error check and its effect.
BeginOutboundOK(m, c) ==
    /\ CanIssue(m.state, m.role, c)
    /\ isBindRequest(c) => m.pendingLocalBind = NoCommand

BeginOutbound(m, c) ==
    [m EXCEPT !.state = begin(m.state, c),
              !.pendingLocalBind = IF isBindRequest(c) THEN c ELSE @,
              !.localUnbindFrom  = IF c = "unbind" THEN m.state ELSE @]

CancelOutbound(m, c) ==
    IF isBindRequest(c) /\ m.pendingLocalBind = c
    THEN [m EXCEPT !.pendingLocalBind = NoCommand]
    ELSE IF c = "unbind" /\ m.state = "Unbound" /\ m.localUnbindFrom # "Closed"
    THEN [m EXCEPT !.state = m.localUnbindFrom, !.localUnbindFrom = "Closed"]
    ELSE IF c = "outbind" /\ m.state = "Outbound" THEN [m EXCEPT !.state = "Open"] ELSE m

\* Mutant: the response is applied whether or not its reservation still stands.
MutCompleteOutbound(m, c, ok) ==
    IF isBindRequest(c)
    THEN [m EXCEPT !.pendingLocalBind = NoCommand, !.state = IF ok THEN boundStateForBind(c) ELSE @]
    ELSE m

CompleteOutbound(m, c, ok) ==
    IF isBindRequest(c) /\ m.pendingLocalBind = c
    THEN [m EXCEPT !.pendingLocalBind = NoCommand, !.state = IF ok THEN boundStateForBind(c) ELSE @]
    ELSE IF c = "unbind" /\ m.state = "Unbound"
    THEN [m EXCEPT !.state = unbindResult(m.state, m.localUnbindFrom, ok),
                   !.localUnbindFrom = "Closed"]
    ELSE m

-----------------------------------------------------------------------------
\* Peer-originated operations.
BeginInboundOK(m, c) ==
    /\ CanIssue(m.state, peer(m.role), c)
    /\ isBindRequest(c) => m.pendingPeerBind = NoCommand

BeginInbound(m, c) ==
    [m EXCEPT !.state = begin(m.state, c),
              !.pendingPeerBind = IF isBindRequest(c) THEN c ELSE @,
              !.peerUnbindFrom  = IF c = "unbind" THEN m.state ELSE @]

CompleteInbound(m, c, ok) ==
    IF isBindRequest(c) /\ m.pendingPeerBind = c
    THEN [m EXCEPT !.pendingPeerBind = NoCommand, !.state = IF ok THEN boundStateForBind(c) ELSE @]
    ELSE IF c = "unbind" /\ m.state = "Unbound"
    THEN [m EXCEPT !.state = unbindResult(m.state, m.peerUnbindFrom, ok),
                   !.peerUnbindFrom = "Closed"]
    ELSE m

CancelInbound(m, c) ==
    IF isBindRequest(c) /\ m.pendingPeerBind = c
    THEN [m EXCEPT !.pendingPeerBind = NoCommand]
    ELSE IF c = "unbind" /\ m.state = "Unbound" /\ m.peerUnbindFrom # "Closed"
    THEN [m EXCEPT !.state = m.peerUnbindFrom, !.peerUnbindFrom = "Closed"]
    ELSE m

\* Close: every field but the role returns to its zero value.
CloseMachine(m) == NewStateMachine(m.role)
=============================================================================
