----------------------------- MODULE Responder -----------------------------
(***************************************************************************)
(* The inbound half of one session: rxLoop handling the peer's requests,   *)
(* txLoop writing the responses and committing lifecycle state, deferred   *)
(* deliver_sm replies, and terminate (session/rx.go, tx.go,                *)
(* inbound_reply.go, state_cancel.go, session.go).                         *)
(*                                                                         *)
(* The peer may pipeline requests.  The outbound half of the session       *)
(* (RequestPath) is reduced to what it does to the shared state machine:   *)
(* LocalBegin, LocalComplete and LocalCancel of a lifecycle command.       *)
(***************************************************************************)
EXTENDS StateMachine, Naturals, Sequences, FiniteSets

CONSTANTS
    Pdus,               \* request PDUs the peer may send, each once
    NoPdu,              \* rxLoop is not handling a PDU
    PeerCommands,       \* commands the peer's requests may carry
    LocalCommands,      \* lifecycle commands this side may have outstanding
    InitRoles, InitStates,  \* roles and lifecycle states the modelled period may start from
    PanickingEncoders,  \* requests the handler answers, whose response encoder may panic
    InboundSeqs,        \* sequence numbers the peer uses
    Callers,            \* application goroutines answering deferred requests
    TXQueueSize, TXBatchItems, MaxDeferredResponses

ASSUME ResponderAssumption ==
    /\ NoPdu \notin Pdus
    /\ InitRoles \subseteq Roles
    /\ PeerCommands \subseteq Requests34 /\ LocalCommands \subseteq {"unbind", "outbind"}
    /\ InitStates \subseteq (BoundStates \cup {"Open"})
    /\ PanickingEncoders \subseteq PeerCommands \ {"enquire_link", "unbind"}
    /\ IsFiniteSet(InboundSeqs)
    /\ TXQueueSize \in Nat \ {0} /\ TXBatchItems \in Nat \ {0} /\ MaxDeferredResponses \in Nat \ {0}

VARIABLES
    machine, done, connOpen, term,      \* as in RequestPath
    local,                              \* lifecycle command this side has outstanding
    cmd, iseq,                          \* the PDUs read so far: command and sequence number
    rxpc, rxpdu, reply, reserved,       \* rxLoop inside handleRequest
    overlapped,                         \* binds reserved before an earlier bind's answer (history)
    stranded,                           \* bind whose reservation nobody will commit (history)
    tx, txpc, batch, committed,         \* response items queued, txLoop, items committed
    wire,                               \* response items the peer can see, in order (history)
    deferred,                           \* Session.deferredReplies
    apc, apdu, aok,                     \* callers of RespondDeferred: header copy, outcome
    registered, replied, abandoned      \* deferred requests per number, the first since the
                                        \* map was last cleared (history)

marks == <<overlapped, stranded>>
rxv == <<rxpc, rxpdu, reply, reserved, marks>>
txv == <<txpc, batch, committed, wire>>
app == <<apc, apdu, aok, replied, abandoned>>
sess == <<done, connOpen>>
vars == <<machine, sess, term, local, cmd, iseq, rxv, tx, txv, deferred, app, registered>>

\* A response item: the PDU it answers, responseTo (NoCommand for a generic_nack) and
\* whether its status is OK.
Item(p, to, ok) == [pdu |-> p, to |-> to, ok |-> ok]

NoItem == Item(NoPdu, NoCommand, FALSE)

Init ==
    /\ \E role \in InitRoles, s \in InitStates : machine = [Open(NewStateMachine(role)) EXCEPT !.state = s]
    /\ done = FALSE /\ connOpen = TRUE /\ term = "no" /\ local = NoCommand
    /\ cmd = [p \in Pdus |-> NoCommand] /\ iseq = [p \in Pdus |-> 0]
    /\ rxpc = "idle" /\ rxpdu = NoPdu /\ reply = NoItem /\ reserved = FALSE
    /\ overlapped = {} /\ stranded = NoCommand
    /\ tx = <<>> /\ txpc = "idle" /\ batch = <<>> /\ committed = 0 /\ wire = <<>>
    /\ deferred = [s \in InboundSeqs |-> "none"]
    /\ apc = [a \in Callers |-> "idle"] /\ apdu = [a \in Callers |-> NoPdu] /\ aok = [a \in Callers |-> FALSE]
    /\ registered = [s \in InboundSeqs |-> 0]
    /\ replied = [s \in InboundSeqs |-> 0] /\ abandoned = [s \in InboundSeqs |-> 0]

Terminate == term' = IF term = "no" THEN "machine" ELSE term

-----------------------------------------------------------------------------
\* rxLoop.

\* A response to c is on its way to CompleteInbound.
Queued(c) ==
    \/ \E i \in 1..Len(tx) : tx[i].to = c
    \/ \E i \in (committed + 1)..Len(batch) : batch[i].to = c

\* handleRequest as far as beginInbound.  One Read may carry several frames, so requests
\* are handled even while the session is being torn down.  A PDU whose body does not
\* decode, whose number is out of range or whose command is unknown or needs SMPP 5.0
\* gets a generic_nack.
RxRequest(p, c, s) ==
    /\ rxpc = "idle" /\ rxpdu = NoPdu /\ cmd[p] = NoCommand
    /\ cmd' = [cmd EXCEPT ![p] = c] /\ iseq' = [iseq EXCEPT ![p] = s]
    /\ \/ /\ rxpc' = "queue" /\ rxpdu' = p /\ reply' = Item(p, NoCommand, FALSE)
          /\ UNCHANGED <<machine, reserved, overlapped>>
       \/ /\ ~BeginInboundOK(machine, c)
          /\ rxpc' = "queue" /\ rxpdu' = p
          /\ reply' = Item(p, IF isOneWayCommand(c) THEN NoCommand ELSE c, FALSE)
          /\ UNCHANGED <<machine, reserved, overlapped>>
       \/ /\ BeginInboundOK(machine, c)
          /\ machine' = BeginInbound(machine, c)
          /\ rxpc' = "handler" /\ rxpdu' = p /\ reserved' = isLifecycleRequest(c)
          /\ overlapped' = IF isBindRequest(c) /\ Queued(c) THEN overlapped \cup {p} ELSE overlapped
          /\ UNCHANGED reply
    /\ UNCHANGED <<sess, term, local, stranded, tx, txv, deferred, app, registered>>

\* The handler's answer.  One-way PDUs have none; enquire_link and unbind are answered
\* by the library; the handler may fail or panic, which is a system error.
RxHandler(ok) ==
    LET c == cmd[rxpdu] IN
    /\ rxpc = "handler"
    /\ IF isOneWayCommand(c)
       THEN rxpc' = "idle" /\ rxpdu' = NoPdu /\ UNCHANGED reply
       ELSE /\ c \in {"enquire_link", "unbind"} => ok
            /\ rxpc' = "queue" /\ reply' = Item(rxpdu, c, ok) /\ UNCHANGED rxpdu
    /\ UNCHANGED <<machine, sess, term, local, cmd, iseq, reserved, marks, tx, txv, deferred, app, registered>>

\* ResponseSuppress, for deliver_sm only; a suppress or defer for any other command is
\* ErrInvalidResponseAction, which ends the session without a rollback.
RxSuppress ==
    LET c == cmd[rxpdu] IN
    /\ rxpc = "handler" /\ ~isOneWayCommand(c) /\ c \notin {"enquire_link", "unbind"}
    /\ rxpdu' = NoPdu
    /\ \/ c = "deliver_sm" /\ rxpc' = "idle" /\ UNCHANGED <<term, stranded>>
       \/ c # "deliver_sm" /\ rxpc' = "stopped" /\ Terminate /\ stranded' = IF reserved THEN c ELSE stranded
    /\ UNCHANGED <<machine, sess, local, cmd, iseq, reply, reserved, overlapped, tx, txv, deferred, app,
                   registered>>

\* registerDeferredReply: a number still reserved, or a full map, ends the session.
RegisterDeferredReply ==
    LET s == iseq[rxpdu]
        room == deferred[s] = "none"
                /\ Cardinality({t \in InboundSeqs : deferred[t] # "none"}) < MaxDeferredResponses
    IN
    /\ rxpc = "handler" /\ cmd[rxpdu] = "deliver_sm"
    /\ rxpdu' = NoPdu
    /\ \/ /\ room /\ rxpc' = "idle" /\ UNCHANGED term
          /\ deferred' = [deferred EXCEPT ![s] = "reserved"]
          /\ registered' = [registered EXCEPT ![s] = @ + 1]
       \/ ~room /\ rxpc' = "stopped" /\ Terminate /\ UNCHANGED <<deferred, registered>>
    /\ UNCHANGED <<machine, sess, local, cmd, iseq, reply, reserved, marks, tx, txv, app>>

\* queueResponse: the item enters the queue.  A generic_nack commits no reservation.
RxQueue ==
    /\ rxpc = "queue" /\ Len(tx) < TXQueueSize
    /\ tx' = Append(tx, reply)
    /\ stranded' = IF reserved /\ reply.to = NoCommand THEN cmd[rxpdu] ELSE stranded
    /\ rxpc' = "idle" /\ rxpdu' = NoPdu /\ reply' = NoItem /\ reserved' = FALSE
    /\ UNCHANGED <<machine, sess, term, local, cmd, iseq, overlapped, txv, deferred, app, registered>>

\* The body encoder panics: the PDU is answered by a generic_nack instead.
RxEncoderPanic ==
    /\ rxpc = "queue" /\ reply.to \in PanickingEncoders
    /\ reply' = Item(rxpdu, NoCommand, FALSE)
    /\ UNCHANGED <<machine, sess, term, local, cmd, iseq, rxpc, rxpdu, reserved, marks, tx, txv,
                   deferred, app, registered>>

\* Mutant: the reservation of a response that fails is kept.
MutRxQueueFail ==
    /\ rxpc = "queue" /\ (done \/ reply.to # NoCommand)
    /\ rxpc' = "stopped" /\ rxpdu' = NoPdu /\ reply' = NoItem /\ reserved' = FALSE /\ Terminate
    /\ UNCHANGED <<machine, sess, local, cmd, iseq, marks, tx, txv, deferred, app, registered>>

\* Mutant: the end of the session does not wake a receive loop that waits for the queue.
MutRxQueueWait ==
    /\ rxpc = "queue" /\ reply.to # NoCommand
    /\ machine' = IF reserved THEN CancelInbound(machine, cmd[rxpdu]) ELSE machine
    /\ rxpc' = "stopped" /\ rxpdu' = NoPdu /\ reply' = NoItem /\ reserved' = FALSE /\ Terminate
    /\ UNCHANGED <<sess, local, cmd, iseq, marks, tx, txv, deferred, app, registered>>

\* The response cannot be encoded, or the session is done: a reservation is rolled back
\* and the error ends the loop and the session.
RxQueueFail ==
    /\ rxpc = "queue" /\ (done \/ reply.to # NoCommand)
    /\ machine' = IF reserved THEN CancelInbound(machine, cmd[rxpdu]) ELSE machine
    /\ rxpc' = "stopped" /\ rxpdu' = NoPdu /\ reply' = NoItem /\ reserved' = FALSE /\ Terminate
    /\ UNCHANGED <<sess, local, cmd, iseq, marks, tx, txv, deferred, app, registered>>

\* A read error, EOF or fatal frame.
RxStop ==
    /\ rxpc = "idle"
    /\ rxpc' = "stopped" /\ Terminate
    /\ UNCHANGED <<machine, sess, local, cmd, iseq, rxpdu, reply, reserved, marks, tx, txv, deferred,
                   app, registered>>

-----------------------------------------------------------------------------
\* txLoop, for response items.

\* txItemTerminatesAfterWrite
terminatesAfterWrite(item) == item.to = "unbind" /\ item.ok

TxDequeue ==
    /\ txpc = "idle" /\ tx # <<>>
    /\ batch' = <<Head(tx)>> /\ tx' = Tail(tx) /\ txpc' = "collect"
    /\ UNCHANGED <<machine, sess, term, local, cmd, iseq, rxv, committed, wire, deferred, app, registered>>

\* Mutant: draining is bounded by nothing but the queue.
MutTxDrain ==
    /\ txpc = "collect" /\ tx # <<>>
    /\ batch' = Append(batch, Head(tx)) /\ tx' = Tail(tx)
    /\ UNCHANGED <<machine, sess, term, local, cmd, iseq, rxv, txpc, committed, wire, deferred, app,
                   registered>>

\* Draining stops behind an accepted unbind.
TxDrain ==
    /\ txpc = "collect" /\ tx # <<>> /\ Len(batch) < TXBatchItems
    /\ ~terminatesAfterWrite(batch[Len(batch)])
    /\ batch' = Append(batch, Head(tx)) /\ tx' = Tail(tx)
    /\ UNCHANGED <<machine, sess, term, local, cmd, iseq, rxv, txpc, committed, wire, deferred, app,
                   registered>>

\* Mutant: the state is not committed before the write.
MutTxCommit ==
    /\ txpc \in {"collect", "commit"} /\ committed < Len(batch)
    /\ committed' = committed + 1 /\ txpc' = "commit"
    /\ UNCHANGED <<machine, sess, term, local, cmd, iseq, rxv, tx, batch, wire, deferred, app, registered>>

\* The lifecycle state of each response is committed before the write, one lock at a time.
\* The byte budget may end the draining early.
TxCommit ==
    /\ txpc \in {"collect", "commit"} /\ committed < Len(batch)
    /\ LET item == batch[committed + 1] IN
       machine' = IF item.to # NoCommand THEN CompleteInbound(machine, item.to, item.ok) ELSE machine
    /\ stranded' = IF batch[committed + 1].to = stranded THEN NoCommand ELSE stranded
    /\ committed' = committed + 1 /\ txpc' = "commit"
    /\ UNCHANGED <<sess, term, local, cmd, iseq, rxpc, rxpdu, reply, reserved, overlapped, tx, batch, wire,
                   deferred, app, registered>>

\* The whole batch is written; an accepted unbind ends the session.
TxWrite ==
    /\ txpc = "commit" /\ committed = Len(batch) /\ connOpen
    /\ wire' = wire \o batch /\ batch' = <<>> /\ committed' = 0
    /\ IF terminatesAfterWrite(batch[Len(batch)])
       THEN txpc' = "stopped" /\ Terminate
       ELSE txpc' = "idle" /\ UNCHANGED term
    /\ UNCHANGED <<machine, sess, local, cmd, iseq, rxv, tx, deferred, app, registered>>

\* A write error after some of the batch.
TxWriteFail ==
    /\ txpc = "commit" /\ committed = Len(batch)
    /\ \E k \in 0..Len(batch) :
          (connOpen \/ k = 0) /\ wire' = wire \o SubSeq(batch, 1, k)
    /\ txpc' = "stopped" /\ batch' = <<>> /\ committed' = 0 /\ Terminate
    /\ UNCHANGED <<machine, sess, local, cmd, iseq, rxv, tx, deferred, app, registered>>

TxStop ==
    /\ txpc = "idle" /\ done
    /\ txpc' = "stopped"
    /\ UNCHANGED <<machine, sess, term, local, cmd, iseq, rxv, tx, batch, committed, wire, deferred,
                   app, registered>>

-----------------------------------------------------------------------------
\* RespondDeferred and AbandonDeferredResponse: an application goroutine holding the
\* header of a deliver_sm.  AbandonDeferredResponse is one critical section.

\* The check of done comes before the lock.
RespondDeferred(a, p) ==
    /\ apc[a] = "idle" /\ ~done /\ cmd[p] = "deliver_sm"
    /\ apc' = [apc EXCEPT ![a] = "claim"] /\ apdu' = [apdu EXCEPT ![a] = p]
    /\ UNCHANGED <<machine, sess, term, local, cmd, iseq, rxv, tx, txv, deferred, aok, replied, abandoned,
                   registered>>

\* Mutant: a reply that is being sent may be claimed again.
MutRespondClaim(a) ==
    /\ apc[a] = "claim" /\ deferred[iseq[apdu[a]]] # "none"
    /\ deferred' = [deferred EXCEPT ![iseq[apdu[a]]] = "busy"]
    /\ apc' = [apc EXCEPT ![a] = "queue"] /\ UNCHANGED apdu
    /\ UNCHANGED <<machine, sess, term, local, cmd, iseq, rxv, tx, txv, aok, replied, abandoned, registered>>

\* The slot is marked as being sent; an unknown or busy one is refused.
RespondClaim(a) ==
    LET s == iseq[apdu[a]] IN
    /\ apc[a] = "claim"
    /\ \/ /\ deferred[s] = "reserved" /\ deferred' = [deferred EXCEPT ![s] = "busy"]
          /\ apc' = [apc EXCEPT ![a] = "queue"] /\ UNCHANGED apdu
       \/ /\ deferred[s] # "reserved" /\ UNCHANGED deferred
          /\ apc' = [apc EXCEPT ![a] = "idle"] /\ apdu' = [apdu EXCEPT ![a] = NoPdu]
    /\ UNCHANGED <<machine, sess, term, local, cmd, iseq, rxv, tx, txv, aok, replied, abandoned, registered>>

\* queueResponse on the application goroutine.
RespondQueue(a, ok) ==
    LET s == iseq[apdu[a]] IN
    /\ apc[a] = "queue"
    /\ \/ /\ Len(tx) < TXQueueSize
          /\ tx' = Append(tx, Item(apdu[a], "deliver_sm", ok))
          /\ replied' = [replied EXCEPT ![s] = @ + 1]
          /\ aok' = [aok EXCEPT ![a] = TRUE]
       \/ aok' = [aok EXCEPT ![a] = FALSE] /\ UNCHANGED <<tx, replied>>
    /\ apc' = [apc EXCEPT ![a] = "settle"]
    /\ UNCHANGED <<machine, sess, term, local, cmd, iseq, rxv, txv, deferred, apdu, abandoned, registered>>

\* Mutant: a failed attempt gives the slot up as well.
MutRespondSettle(a) ==
    /\ apc[a] = "settle"
    /\ deferred' = [deferred EXCEPT ![iseq[apdu[a]]] = "none"]
    /\ apc' = [apc EXCEPT ![a] = "idle"] /\ apdu' = [apdu EXCEPT ![a] = NoPdu]
    /\ aok' = [aok EXCEPT ![a] = FALSE]
    /\ UNCHANGED <<machine, sess, term, local, cmd, iseq, rxv, tx, txv, replied, abandoned, registered>>

\* The slot is removed after admission, or freed for a retry after a failure.
RespondSettle(a) ==
    LET s == iseq[apdu[a]] IN
    /\ apc[a] = "settle"
    /\ deferred' = [deferred EXCEPT ![s] =
                      IF aok[a] THEN "none" ELSE IF @ # "none" THEN "reserved" ELSE "none"]
    /\ apc' = [apc EXCEPT ![a] = "idle"] /\ apdu' = [apdu EXCEPT ![a] = NoPdu]
    /\ aok' = [aok EXCEPT ![a] = FALSE]
    /\ UNCHANGED <<machine, sess, term, local, cmd, iseq, rxv, tx, txv, replied, abandoned, registered>>

AbandonDeferredResponse(p) ==
    /\ cmd[p] = "deliver_sm" /\ deferred[iseq[p]] = "reserved" /\ Callers # {}
    /\ deferred' = [deferred EXCEPT ![iseq[p]] = "none"]
    /\ abandoned' = [abandoned EXCEPT ![iseq[p]] = @ + 1]
    /\ UNCHANGED <<machine, sess, term, local, cmd, iseq, rxv, tx, txv, apc, apdu, aok, replied, registered>>

-----------------------------------------------------------------------------
\* The outbound half, as far as it touches the machine: request and SendOneWay of a
\* lifecycle command, its answer, and its cancellation or timeout.
LocalBegin(c) ==
    /\ local = NoCommand /\ BeginOutboundOK(machine, c)
    /\ machine' = BeginOutbound(machine, c) /\ local' = c
    /\ UNCHANGED <<sess, term, cmd, iseq, rxv, tx, txv, deferred, app, registered>>

LocalComplete(ok) ==
    /\ local # NoCommand /\ local' = NoCommand
    /\ machine' = IF local = "unbind" THEN CompleteOutbound(machine, local, ok) ELSE machine
    /\ IF local = "unbind" /\ ok THEN Terminate ELSE UNCHANGED term
    /\ UNCHANGED <<sess, cmd, iseq, rxv, tx, txv, deferred, app, registered>>

\* Mutant: a cancelled unbind is not rolled back.
MutLocalCancel ==
    /\ local # NoCommand /\ local' = NoCommand
    /\ UNCHANGED <<machine, sess, term, cmd, iseq, rxv, tx, txv, deferred, app, registered>>

\* The request fails, times out or is cancelled.
LocalCancel ==
    /\ local # NoCommand /\ local' = NoCommand
    /\ machine' = CancelOutbound(machine, local)
    /\ UNCHANGED <<sess, term, cmd, iseq, rxv, tx, txv, deferred, app, registered>>

-----------------------------------------------------------------------------
\* Session.Close or a liveness deadline, and the body of terminate in the code's order.
Close ==
    /\ term = "no" /\ Terminate
    /\ UNCHANGED <<machine, sess, local, cmd, iseq, rxv, tx, txv, deferred, app, registered>>

TermStep ==
    LET slots == <<deferred, registered>> IN
    /\ \/ term = "machine" /\ machine' = CloseMachine(machine) /\ term' = "done" /\ UNCHANGED <<sess, slots>>
       \/ term = "done" /\ done' = TRUE /\ term' = "conn" /\ UNCHANGED <<machine, connOpen, slots>>
       \/ term = "conn" /\ connOpen' = FALSE /\ term' = "clear" /\ UNCHANGED <<machine, done, slots>>
       \/ /\ term = "clear" /\ term' = "terminated" /\ UNCHANGED <<machine, sess>>
          /\ deferred' = [s \in InboundSeqs |-> "none"] /\ registered' = [s \in InboundSeqs |-> 0]
    /\ UNCHANGED <<local, cmd, iseq, rxv, tx, txv, app>>

-----------------------------------------------------------------------------
RxHandle ==
    \/ (\E ok \in BOOLEAN : RxHandler(ok)) \/ RxSuppress \/ RegisterDeferredReply
    \/ RxQueue \/ RxEncoderPanic \/ RxQueueFail

TxLoop == TxDequeue \/ TxDrain \/ TxCommit \/ TxWrite \/ TxWriteFail \/ TxStop

RespondStep(a) == RespondClaim(a) \/ (\E ok \in BOOLEAN : RespondQueue(a, ok)) \/ RespondSettle(a)

Next ==
    \/ \E p \in Pdus, c \in PeerCommands, s \in InboundSeqs : RxRequest(p, c, s)
    \/ RxHandle \/ RxStop \/ TxLoop
    \/ \E a \in Callers : RespondStep(a) \/ \E p \in Pdus : RespondDeferred(a, p)
    \/ \E p \in Pdus : AbandonDeferredResponse(p)
    \/ (\E c \in LocalCommands : LocalBegin(c)) \/ (\E ok \in BOOLEAN : LocalComplete(ok)) \/ LocalCancel
    \/ Close \/ TermStep

Spec == Init /\ [][Next]_vars

\* Runnable goroutines run, the handler returns, and a read from a closed connection fails.
\* Nothing is assumed of the peer.
Fairness ==
    WF_vars(RxHandle) /\ WF_vars(~connOpen /\ RxStop) /\ WF_vars(TxLoop) /\ WF_vars(TermStep)

FairSpec == Spec /\ Fairness

-----------------------------------------------------------------------------
(***************************************************************************)
(*                               Properties                                *)
(***************************************************************************)

Items == [pdu : Pdus \cup {NoPdu}, to : Requests34 \cup {NoCommand}, ok : BOOLEAN]

\* Every variable has its type.
TypeOK ==
    /\ machine \in Machines /\ done \in BOOLEAN /\ connOpen \in BOOLEAN
    /\ term \in {"no", "machine", "done", "conn", "clear", "terminated"}
    /\ local \in LocalCommands \cup {NoCommand}
    /\ cmd \in [Pdus -> PeerCommands \cup {NoCommand}] /\ iseq \in [Pdus -> InboundSeqs \cup {0}]
    /\ rxpc \in {"idle", "handler", "queue", "stopped"} /\ rxpdu \in Pdus \cup {NoPdu}
    /\ reply \in Items /\ reserved \in BOOLEAN
    /\ overlapped \subseteq Pdus /\ stranded \in PeerCommands \cup {NoCommand}
    /\ tx \in Seq(Items) /\ batch \in Seq(Items) /\ wire \in Seq(Items)
    /\ txpc \in {"idle", "collect", "commit", "stopped"} /\ committed \in 0..TXBatchItems
    /\ deferred \in [InboundSeqs -> {"none", "reserved", "busy"}]
    /\ apc \in [Callers -> {"idle", "claim", "queue", "settle"}] /\ apdu \in [Callers -> Pdus \cup {NoPdu}]
    /\ aok \in [Callers -> BOOLEAN]
    /\ registered \in [InboundSeqs -> Nat] /\ replied \in [InboundSeqs -> Nat]
    /\ abandoned \in [InboundSeqs -> Nat]

\* "Lifecycle state must be committed before a response becomes visible on the wire"
\* (txLoop): once the peer can see an accepted bind, the session is bound (or beyond), and
\* every variable has its type.  The one exception is a bind sent before the refusal of an
\* earlier one was on the wire: CompleteInbound matches by command, so that refusal clears
\* the reservation of the new bind, whose acceptance then changes nothing.
AcceptedBindIsBound ==
    /\ TypeOK
    /\ \A i \in 1..Len(wire) :
          isBindRequest(wire[i].to) /\ wire[i].ok =>
              machine.state \notin {"Open", "Outbound"} \/ wire[i].pdu \in overlapped

\* A peer bind or unbind between BeginInbound and the commit or rollback of its response.
Answering(c) == (rxpc \in {"handler", "queue"} /\ reserved /\ cmd[rxpdu] = c) \/ Queued(c)

\* "CancelInbound rolls back a state-sensitive peer request when its response could not
\* be encoded/queued": a bind reservation never outlives the bind that made it, however
\* its response fails and also while the session is torn down.  Two ways out of
\* handleRequest make no such call: a response action a bind may not have, which ends the
\* session, and an encoder that panics.  The reservation such a bind leaves behind is gone
\* once the next bind of its kind, refused because of it, is answered.
BindReservationHeld ==
    machine.pendingPeerBind # NoCommand =>
        Answering(machine.pendingPeerBind) \/ stranded = machine.pendingPeerBind

\* A session is Unbound only while an unbind is in progress, its own or the peer's: no
\* crossing of the two, refusal, timeout or failed response leaves it there for good.
UnboundInProgress ==
    term = "no" /\ machine.state = "Unbound" => local = "unbind" \/ Answering("unbind")

\* Nothing follows an accepted unbind on the wire, however many responses were queued
\* behind it or share its batch.
UnbindIsLast == \A i \in 1..Len(wire) : terminatesAfterWrite(wire[i]) => i = Len(wire)

\* The peer sees at most one response per request, deferred ones included: for each
\* sequence number no more responses are written than requests were read.
NoExtraResponse ==
    \A s \in InboundSeqs :
        Cardinality({i \in 1..Len(wire) : iseq[wire[i].pdu] = s}) <= Cardinality({p \in Pdus : iseq[p] = s})

\* "One deferred token can queue at most one reply; concurrent calls are guarded"
\* (docs/CONCURRENCY.md): until terminate clears the map, every registered request is
\* exactly one of answered, abandoned and still reserved.  What is in the map after that
\* was registered after that, by a handler that returned too late: no answer that fails in
\* between puts its slot back.  The map keeps to its configured size throughout.
DeferredAccounting ==
    /\ Cardinality({s \in InboundSeqs : deferred[s] # "none"}) <= MaxDeferredResponses
    /\ term # "terminated" => \A s \in InboundSeqs :
        LET settled == \E a \in Callers : apc[a] = "settle" /\ aok[a] /\ iseq[apdu[a]] = s IN
        registered[s] = replied[s] + abandoned[s] + (IF deferred[s] # "none" /\ ~settled THEN 1 ELSE 0)
    /\ term = "terminated" => \A s \in InboundSeqs : deferred[s] # "none" => registered[s] > 0

\* A request that is to be answered is answered on the wire, unless the session ends, and
\* then both loops return: none waits for a place in the TX queue or for work for ever.
RequestAnswered ==
    \A p \in Pdus : (rxpc = "queue" /\ rxpdu = p) ~>
        (\E i \in 1..Len(wire) : wire[i].pdu = p) \/ (rxpc = "stopped" /\ txpc = "stopped")
=============================================================================
