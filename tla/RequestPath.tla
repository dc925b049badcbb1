---------------------------- MODULE RequestPath ----------------------------
(***************************************************************************)
(* The outbound half of one session: callers inside Session.request and    *)
(* Session.SendOneWay, the request window, the pending table, txLoop,      *)
(* rxLoop's handling of responses, the deadline goroutine and terminate    *)
(* (session/session.go, window.go, pending.go, tx.go, rx.go, deadline.go,  *)
(* liveness.go).  Every goroutine has its own program counter; a step is   *)
(* what the code does under one lock, one channel operation or one atomic. *)
(*                                                                         *)
(* A member of Requests is one call.  Its pendingRequest, its txItem and   *)
(* its deadline storage are named by the call itself.                      *)
(***************************************************************************)
EXTENDS StateMachine, Naturals, Sequences, FiniteSets

CONSTANTS
    Requests,       \* the calls that may be made
    None,           \* no call: a nil *pendingRequest, a free table entry
    Commands,       \* commands the calls may carry
    Cancellable,    \* the calls whose context may end; the others pass Background
    InitRoles, InitStates,  \* roles and lifecycle states the modelled period may start from
    WindowSize, MaxPending, TXQueueSize, TXBatchItems,
    MaxSequence     \* SequenceOutboundMax

ASSUME RequestPathAssumption ==
    /\ IsFiniteSet(Requests)
    /\ None \notin Requests
    /\ InitRoles \subseteq Roles
    /\ Commands \subseteq Requests34
    /\ Cancellable \subseteq Requests
    /\ InitStates \subseteq (BoundStates \cup {"Open"})
    /\ WindowSize \in Nat \ {0}
    /\ MaxPending \in Nat /\ MaxPending >= WindowSize   \* New raises it to the window
    /\ TXQueueSize \in Nat \ {0}
    /\ TXBatchItems \in Nat \ {0}
    /\ MaxSequence \in Nat \ {0}

VARIABLES
    machine,                            \* Session.machine
    done, connOpen, term, failing,      \* Session.done, the transport, terminate's progress
    tokens,                             \* requests in requestWindow.tokens
    nextSeq, table,                     \* sequenceGenerator.value, pendingTable.m
    pc, cmd, seq, tries, cancelled, ret,    \* the calls: frame, context and result
    victim,                             \* the entry this call's completeError deleted
    finished, attached, mail,           \* pendingRequest: finished, deadline # nil, done channel
    completions,                        \* results ever sent on mail[r] (history)
    tx, txpc, batch, cur,               \* Session.tx and txLoop
    wire,                               \* calls whose frame reached the peer (history)
    rxpc, rxreq, rxok,                  \* rxLoop inside handleResponse
    heap, firing, dlpc, dlreq           \* deadlineManager.heap and the deadline goroutine

sess == <<done, connOpen, term, failing>>
calls == <<pc, cmd, seq, tries, cancelled, ret, victim>>
pend == <<finished, attached, mail, completions>>
txv == <<tx, txpc, batch, cur, wire>>
rxv == <<rxpc, rxreq, rxok>>
dlv == <<firing, dlpc, dlreq>>
vars == <<machine, sess, tokens, nextSeq, table, calls, pend, txv, rxv, heap, dlv>>

SeqNumbers == 1..MaxSequence

Results == {"none", "closed", "cancelled", "full", "refused", "limit", "exhausted",
            "encode", "ok", "rejected", "timeout", "lost", "sent", "writeerr"}

Init ==
    /\ \E role \in InitRoles, s \in InitStates : machine = [Open(NewStateMachine(role)) EXCEPT !.state = s]
    /\ done = FALSE /\ connOpen = TRUE /\ term = "no" /\ failing = {}
    /\ tokens = 0 /\ nextSeq = 0 /\ table = [s \in SeqNumbers |-> None]
    /\ pc = [r \in Requests |-> "idle"]
    /\ cmd = [r \in Requests |-> NoCommand]
    /\ seq = [r \in Requests |-> 0]
    /\ tries = [r \in Requests |-> 0]
    /\ cancelled = {}
    /\ ret = [r \in Requests |-> "none"]
    /\ victim = [r \in Requests |-> None]
    /\ finished = {} /\ attached = {}
    /\ mail = [r \in Requests |-> <<>>]
    /\ completions = [r \in Requests |-> 0]
    /\ tx = <<>> /\ txpc = "idle" /\ batch = <<>> /\ cur = None /\ wire = {}
    /\ rxpc = "idle" /\ rxreq = None /\ rxok = FALSE
    /\ heap = {} /\ firing = {} /\ dlpc = "idle" /\ dlreq = None

-----------------------------------------------------------------------------
\* Building blocks shared by the goroutines.

\* sequenceGenerator.Next
NextSequence(n) == IF n >= MaxSequence THEN 1 ELSE n + 1

Pending == {s \in SeqNumbers : table[s] # None}

\* Mutant: the entry is looked up and not deleted.
MutRemove(s) == table' = [table EXCEPT ![s] = @]

\* delete(t.m, sequence) under pendingTable.mu.
Remove(s) == table' = [table EXCEPT ![s] = None]

\* requestWindow.release: an empty window is an underflow and stays empty.
Release == tokens' = IF tokens > 0 THEN tokens - 1 ELSE 0

\* Mutant: the deadline is cancelled and the slot is forgotten.
MutFinish(r) ==
    IF r \in finished
    THEN UNCHANGED <<finished, attached, heap, tokens>>
    ELSE /\ finished' = finished \cup {r}
         /\ attached' = attached \ {r}
         /\ heap' = IF r \in attached THEN heap \ {r} ELSE heap
         /\ UNCHANGED tokens

\* pendingRequest.finish: once only; cancels an attached deadline, frees the slot.
Finish(r) ==
    IF r \in finished
    THEN UNCHANGED <<finished, attached, heap, tokens>>
    ELSE /\ finished' = finished \cup {r}
         /\ attached' = attached \ {r}
         /\ heap' = IF r \in attached THEN heap \ {r} ELSE heap
         /\ Release

\* request.done <- result; the channel holds one result.
Send(r, result) ==
    /\ mail[r] = <<>>
    /\ mail' = [mail EXCEPT ![r] = Append(@, result)]
    /\ completions' = [completions EXCEPT ![r] = @ + 1]

Goto(r, to) == pc' = [pc EXCEPT ![r] = to]

Leave(r, to, result) == Goto(r, to) /\ ret' = [ret EXCEPT ![r] = result]

\* terminate is sync.Once: the first caller runs it, later calls change nothing.
Terminate == term' = IF term = "no" THEN "machine" ELSE term

-----------------------------------------------------------------------------
\* Session.request and Session.SendOneWay: one call's goroutine.

\* The call is made: argument checks, then the non-blocking look at s.done.
Call(r, c) ==
    /\ pc[r] = "idle"
    /\ cmd' = [cmd EXCEPT ![r] = c]
    /\ \/ done /\ Leave(r, "returned", "closed")
       \/ ~done /\ Goto(r, IF isOneWayCommand(c) THEN "begin" ELSE "acquire") /\ UNCHANGED ret
    /\ UNCHANGED <<machine, sess, tokens, nextSeq, table, seq, tries, victim, cancelled, pend,
                   txv, rxv, heap, dlv>>

\* The caller's context ends, at any time during the call.
CancelContext(r) ==
    /\ pc[r] \notin {"idle", "returned"} /\ r \in Cancellable \ cancelled
    /\ cancelled' = cancelled \cup {r}
    /\ UNCHANGED <<machine, sess, tokens, nextSeq, table, pc, cmd, seq, tries, victim, ret, pend,
                   txv, rxv, heap, dlv>>

\* requestWindow.acquire: the fast path, then ErrWindowFull (TryRequest) or the wait (Request).
Acquire(r) ==
    /\ pc[r] = "acquire"
    /\ \/ /\ tokens < WindowSize
          /\ tokens' = tokens + 1 /\ Goto(r, "begin") /\ UNCHANGED ret
       \/ /\ tokens >= WindowSize
          /\ Leave(r, "returned", "full") /\ UNCHANGED tokens
       \/ /\ tokens >= WindowSize
          /\ Goto(r, "waiting") /\ UNCHANGED <<tokens, ret>>
    /\ UNCHANGED <<machine, sess, nextSeq, table, cmd, seq, tries, victim, cancelled, pend,
                   txv, rxv, heap, dlv>>

AcquireWait(r) ==
    /\ pc[r] = "waiting"
    /\ \/ /\ tokens < WindowSize
          /\ tokens' = tokens + 1 /\ Goto(r, "begin") /\ UNCHANGED ret
       \/ r \in cancelled /\ Leave(r, "returned", "cancelled") /\ UNCHANGED tokens
       \/ done /\ Leave(r, "returned", "closed") /\ UNCHANGED tokens
    /\ UNCHANGED <<machine, sess, nextSeq, table, cmd, seq, tries, victim, cancelled, pend,
                   txv, rxv, heap, dlv>>

\* Mutant: the rollback is armed before the reservation is made, so a refused call
\* rolls back whatever is reserved.
MutBeginRollsBack(r) ==
    /\ pc[r] = "begin"
    /\ IF BeginOutboundOK(machine, cmd[r])
       THEN machine' = BeginOutbound(machine, cmd[r]) /\ Goto(r, "insert") /\ UNCHANGED ret
       ELSE UNCHANGED machine /\ Leave(r, "unwind", "refused")
    /\ UNCHANGED <<sess, tokens, nextSeq, table, cmd, seq, tries, victim, cancelled, pend,
                   txv, rxv, heap, dlv>>

\* machine.BeginOutbound; a refused request still owns its window slot until it unwinds.
Begin(r) ==
    /\ pc[r] = "begin"
    /\ IF BeginOutboundOK(machine, cmd[r])
       THEN /\ machine' = BeginOutbound(machine, cmd[r])
            /\ Goto(r, "insert") /\ UNCHANGED ret
       ELSE /\ UNCHANGED machine
            /\ Leave(r, IF isOneWayCommand(cmd[r]) THEN "returned" ELSE "release", "refused")
    /\ UNCHANGED <<sess, tokens, nextSeq, table, cmd, seq, tries, victim, cancelled, pend,
                   txv, rxv, heap, dlv>>

\* One attempt of the insert loop.  A one-way PDU takes a number and no entry.
Insert(r) ==
    LET s == NextSequence(nextSeq)
        insert == Cardinality(Pending) < MaxPending /\ table[s] = None
    IN
    /\ pc[r] = "insert"
    /\ nextSeq' = s
    /\ tries' = [tries EXCEPT ![r] = @ + 1]
    /\ \/ /\ isOneWayCommand(cmd[r])
          /\ seq' = [seq EXCEPT ![r] = s]
          /\ Goto(r, "encode") /\ UNCHANGED <<table, ret>>
       \/ /\ ~isOneWayCommand(cmd[r]) /\ insert
          /\ table' = [table EXCEPT ![s] = r]
          /\ seq' = [seq EXCEPT ![r] = s]
          /\ Goto(r, "encode") /\ UNCHANGED ret
       \/ /\ ~isOneWayCommand(cmd[r]) /\ ~insert /\ UNCHANGED <<table, seq>>
          /\ IF Cardinality(Pending) >= MaxPending THEN Leave(r, "unwind", "limit")
             ELSE IF tries[r] = MaxPending THEN Leave(r, "unwind", "exhausted")
             ELSE UNCHANGED <<pc, ret>>
    /\ UNCHANGED <<machine, sess, tokens, cmd, victim, cancelled, pend, txv, rxv, heap, dlv>>

\* pendingTable.completeError run by the caller: whoever deletes the entry owns completion.
CompleteByCaller(r, result, lost) ==
    IF table[seq[r]] # None
    THEN /\ victim' = [victim EXCEPT ![r] = table[seq[r]]]
         /\ Remove(seq[r]) /\ Leave(r, "finish", result)
    ELSE UNCHANGED <<table, victim>> /\ lost

\* EncodePDU: the frame is built, or the call fails and completes its own entry.
Encode(r) ==
    /\ pc[r] = "encode"
    /\ \/ Goto(r, "enqueue") /\ UNCHANGED <<table, victim, ret>>
       \/ /\ isOneWayCommand(cmd[r])
          /\ Leave(r, "cancel", "encode") /\ UNCHANGED <<table, victim>>
       \/ /\ ~isOneWayCommand(cmd[r])
          /\ CompleteByCaller(r, "encode", Leave(r, "cancel", "encode"))
    /\ UNCHANGED <<machine, sess, tokens, nextSeq, cmd, seq, tries, cancelled, pend,
                   txv, rxv, heap, dlv>>

\* The select on s.tx, ctx.Done and s.done.
Enqueue(r) ==
    /\ pc[r] = "enqueue"
    /\ \/ /\ Len(tx) < TXQueueSize
          /\ tx' = Append(tx, r) /\ Goto(r, "await") /\ UNCHANGED <<table, victim, ret>>
       \/ /\ r \in cancelled /\ UNCHANGED tx
          /\ IF isOneWayCommand(cmd[r])
             THEN Leave(r, "cancel", "cancelled") /\ UNCHANGED <<table, victim>>
             ELSE CompleteByCaller(r, "cancelled", Goto(r, "completed") /\ UNCHANGED ret)
       \/ /\ done /\ UNCHANGED <<tx, table, victim>>
          /\ IF isOneWayCommand(cmd[r])
             THEN Leave(r, "cancel", "closed")
             ELSE Goto(r, "completed") /\ UNCHANGED ret
    /\ UNCHANGED <<machine, sess, tokens, nextSeq, cmd, seq, tries, cancelled, pend,
                   txpc, batch, cur, wire, rxv, heap, dlv>>

\* Mutant: a one-way call listens to its context too.
MutAwait(r) ==
    /\ pc[r] = "await"
    /\ \/ /\ mail[r] # <<>>
          /\ Leave(r, "returned", Head(mail[r]))
          /\ mail' = [mail EXCEPT ![r] = Tail(@)]
       \/ r \in cancelled /\ Leave(r, "returned", "cancelled") /\ UNCHANGED mail
    /\ UNCHANGED <<machine, sess, tokens, nextSeq, table, victim, cmd, seq, tries, cancelled,
                   finished, attached, completions, txv, rxv, heap, dlv>>

\* The final select.  A request listens to its context, a one-way call to s.done.
Await(r) ==
    /\ pc[r] = "await"
    /\ \/ /\ mail[r] # <<>>
          /\ Leave(r, "returned", Head(mail[r]))
          /\ mail' = [mail EXCEPT ![r] = Tail(@)] /\ UNCHANGED <<table, victim>>
       \/ /\ ~isOneWayCommand(cmd[r]) /\ r \in cancelled /\ UNCHANGED mail
          /\ CompleteByCaller(r, "cancelled", Goto(r, "completed") /\ UNCHANGED ret)
       \/ /\ isOneWayCommand(cmd[r]) /\ done
          /\ Leave(r, "returned", "closed") /\ UNCHANGED <<mail, table, victim>>
    /\ UNCHANGED <<machine, sess, tokens, nextSeq, cmd, seq, tries, cancelled, finished,
                   attached, completions, txv, rxv, heap, dlv>>

\* waitCompleted: another goroutine owns the completion; the context is not consulted.
WaitCompleted(r) ==
    /\ pc[r] = "completed" /\ mail[r] # <<>>
    /\ Leave(r, "returned", Head(mail[r]))
    /\ mail' = [mail EXCEPT ![r] = Tail(@)]
    /\ UNCHANGED <<machine, sess, tokens, nextSeq, table, cmd, seq, tries, victim, cancelled,
                   finished, attached, completions, txv, rxv, heap, dlv>>

\* The rest of a completeError the caller won: finish, then the send on its own channel.
CallerFinish(r) ==
    /\ pc[r] = "finish"
    /\ Finish(victim[r]) /\ Send(victim[r], ret[r]) /\ Goto(r, "cancel")
    /\ UNCHANGED <<machine, sess, nextSeq, table, cmd, seq, tries, victim, cancelled, ret,
                   txv, rxv, dlv>>

\* Mutant: windowOwned stays set after insert, so the slot is released a second time.
MutUnwind(r) ==
    /\ pc[r] \in {"cancel", "unwind", "release"}
    /\ machine' = IF pc[r] = "release" THEN machine ELSE CancelOutbound(machine, cmd[r])
    /\ Release /\ Goto(r, "returned")
    /\ UNCHANGED <<sess, nextSeq, table, cmd, seq, tries, victim, cancelled, ret, pend,
                   txv, rxv, heap, dlv>>

\* The deferred functions of a failed call, last registered first: CancelOutbound,
\* then window.release unless the pending entry took the slot over.
Unwind(r) ==
    /\ \/ /\ pc[r] \in {"cancel", "unwind"}
          /\ machine' = CancelOutbound(machine, cmd[r]) /\ UNCHANGED tokens
          /\ Goto(r, IF pc[r] = "unwind" THEN "release" ELSE "returned")
       \/ pc[r] = "release" /\ Release /\ UNCHANGED machine /\ Goto(r, "returned")
    /\ UNCHANGED <<sess, nextSeq, table, cmd, seq, tries, victim, cancelled, ret, pend,
                   txv, rxv, heap, dlv>>

-----------------------------------------------------------------------------
\* txLoop.

\* txItemActive: a request item is skipped when its sequence number has no entry.
Active(r) == isOneWayCommand(cmd[r]) \/ table[seq[r]] # None

\* The blocking receive: the first item of a batch.
TxDequeue ==
    /\ txpc = "idle" /\ tx # <<>>
    /\ tx' = Tail(tx)
    /\ IF Active(Head(tx))
       THEN batch' = <<Head(tx)>> /\ txpc' = "collect"
       ELSE UNCHANGED <<batch, txpc>>
    /\ UNCHANGED <<machine, sess, tokens, nextSeq, table, calls, pend, cur, wire, rxv, heap, dlv>>

\* The non-blocking receives that extend the batch.
TxDrain ==
    /\ txpc = "collect" /\ tx # <<>> /\ Len(batch) < TXBatchItems
    /\ tx' = Tail(tx)
    /\ batch' = IF Active(Head(tx)) THEN Append(batch, Head(tx)) ELSE batch
    /\ UNCHANGED <<machine, sess, tokens, nextSeq, table, calls, pend, txpc, cur, wire, rxv,
                   heap, dlv>>

\* One transport write.  It may end the draining early: frame sizes count against
\* TXBatchBytes, and which frame exhausts that budget is data.
TxWrite ==
    /\ txpc = "collect" /\ connOpen
    /\ wire' = wire \cup {batch[i] : i \in 1..Len(batch)}
    /\ txpc' = "post"
    /\ UNCHANGED <<machine, sess, tokens, nextSeq, table, calls, pend, tx, batch, cur, rxv,
                   heap, dlv>>

\* The write fails after k whole frames: every waiting one-way caller is told, the
\* session is terminated and the loop returns.
TxWriteFail ==
    /\ txpc = "collect"
    /\ \E k \in 0..Len(batch) :
          /\ connOpen \/ k = 0
          /\ wire' = wire \cup {batch[i] : i \in 1..k}
    /\ mail' = [r \in Requests |->
                  IF isOneWayCommand(cmd[r]) /\ \E i \in 1..Len(batch) : batch[i] = r
                  THEN Append(mail[r], "writeerr") ELSE mail[r]]
    /\ txpc' = "stopped" /\ batch' = <<>>
    /\ Terminate
    /\ UNCHANGED <<machine, done, connOpen, failing, tokens, nextSeq, table, calls, finished,
                   attached, completions, tx, cur, rxv, heap, dlv>>

\* After the write, per item: tell a one-way caller, or markDispatched by number.
TxPost ==
    LET r == Head(batch) IN
    /\ txpc = "post" /\ batch # <<>>
    /\ batch' = Tail(batch)
    /\ IF isOneWayCommand(cmd[r])
       THEN mail' = [mail EXCEPT ![r] = Append(@, "sent")] /\ UNCHANGED <<cur, txpc>>
       ELSE /\ UNCHANGED mail
            /\ IF table[seq[r]] # None
               THEN cur' = table[seq[r]] /\ txpc' = "schedule"
               ELSE UNCHANGED <<cur, txpc>>
    /\ UNCHANGED <<machine, sess, tokens, nextSeq, table, calls, finished, attached, completions,
                   tx, wire, rxv, heap, dlv>>

TxPostEnd ==
    /\ txpc = "post" /\ batch = <<>>
    /\ txpc' = "idle"
    /\ UNCHANGED <<machine, sess, tokens, nextSeq, table, calls, pend, tx, batch, cur, wire, rxv,
                   heap, dlv>>

\* deadlineManager.scheduleItemAt
TxSchedule ==
    /\ txpc = "schedule"
    /\ heap' = heap \cup {cur} /\ txpc' = "attach"
    /\ UNCHANGED <<machine, sess, tokens, nextSeq, table, calls, pend, tx, batch, cur, wire, rxv, dlv>>

\* Mutant: attachDeadline does not look at finished.
MutTxAttach ==
    /\ txpc = "attach"
    /\ attached' = attached \cup {cur}
    /\ txpc' = "post" /\ cur' = None
    /\ UNCHANGED <<machine, sess, tokens, nextSeq, table, calls, finished, mail, completions, tx,
                   batch, wire, rxv, heap, dlv>>

\* pendingRequest.attachDeadline: a request that finished meanwhile loses the item again.
TxAttach ==
    /\ txpc = "attach"
    /\ IF cur \in finished
       THEN heap' = heap \ {cur} /\ UNCHANGED attached
       ELSE attached' = attached \cup {cur} /\ UNCHANGED heap
    /\ txpc' = "post" /\ cur' = None
    /\ UNCHANGED <<machine, sess, tokens, nextSeq, table, calls, finished, mail, completions, tx,
                   batch, wire, rxv, dlv>>

TxStop ==
    /\ txpc = "idle" /\ done
    /\ txpc' = "stopped"
    /\ UNCHANGED <<machine, sess, tokens, nextSeq, table, calls, pend, tx, batch, cur, wire, rxv,
                   heap, dlv>>

-----------------------------------------------------------------------------
\* rxLoop: a response frame for a call the peer has seen.  The peer answers late,
\* twice or never, in any order; a number or command id that matches no entry
\* leaves everything unchanged and needs no action.

\* pendingTable.takeResponse: a success has the command id the entry expects, a refusal
\* may be a generic_nack, which any entry takes.
RxResponse(r, ok) ==
    /\ rxpc = "idle" /\ r \in wire /\ ~isOneWayCommand(cmd[r])
    /\ table[seq[r]] # None /\ (ok => cmd[table[seq[r]]] = cmd[r])
    /\ rxreq' = table[seq[r]] /\ rxok' = ok
    /\ Remove(seq[r])
    /\ rxpc' = "finish"
    /\ UNCHANGED <<machine, sess, tokens, nextSeq, calls, pend, txv, heap, dlv>>

\* Mutant: takeResponse deletes the entry and forgets to finish it.
MutRxFinish ==
    /\ rxpc = "finish" /\ rxpc' = "complete"
    /\ UNCHANGED <<machine, sess, tokens, nextSeq, table, calls, pend, txv, rxreq, rxok, heap, dlv>>

\* The end of takeResponse: finish.
RxFinish ==
    /\ rxpc = "finish"
    /\ Finish(rxreq) /\ rxpc' = "complete"
    /\ UNCHANGED <<machine, sess, nextSeq, table, calls, mail, completions, txv,
                   rxreq, rxok, dlv>>

RxComplete ==
    /\ rxpc = "complete"
    /\ machine' = CompleteOutbound(machine, cmd[rxreq], rxok)
    /\ rxpc' = "send"
    /\ UNCHANGED <<sess, tokens, nextSeq, table, calls, pend, txv, rxreq, rxok, heap, dlv>>

\* The result reaches the caller; an accepted unbind then ends the session.
RxSend ==
    /\ rxpc = "send"
    /\ Send(rxreq, IF rxok THEN "ok" ELSE "rejected")
    /\ IF cmd[rxreq] = "unbind" /\ rxok THEN Terminate ELSE UNCHANGED term
    /\ rxpc' = "idle" /\ rxreq' = None
    /\ UNCHANGED <<machine, done, connOpen, failing, tokens, nextSeq, table, calls, finished,
                   attached, txv, rxok, heap, dlv>>

\* A read error, EOF or fatal frame: terminate and leave the loop.
RxStop ==
    /\ rxpc = "idle"
    /\ rxpc' = "stopped" /\ Terminate
    /\ UNCHANGED <<machine, done, connOpen, failing, tokens, nextSeq, table, calls, pend, txv,
                   rxreq, rxok, heap, dlv>>

-----------------------------------------------------------------------------
\* The deadline goroutine.  Time is abstract: any scheduled deadline may be due.

\* expireReady pops every due item under the lock and calls expire on each after it.
DlExpireReady ==
    /\ dlpc = "idle" /\ firing = {}
    /\ \E due \in SUBSET heap :
          due # {} /\ firing' = due /\ heap' = heap \ due
    /\ UNCHANGED <<machine, sess, tokens, nextSeq, table, calls, pend, txv, rxv, dlpc, dlreq>>

\* expireDeadline: completeError by sequence number.
DlExpire(r) ==
    /\ dlpc = "idle" /\ r \in firing
    /\ firing' = firing \ {r}
    /\ IF table[seq[r]] # None
       THEN Remove(seq[r]) /\ dlreq' = table[seq[r]] /\ dlpc' = "finish"
       ELSE UNCHANGED <<table, dlreq, dlpc>>
    /\ UNCHANGED <<machine, sess, tokens, nextSeq, calls, pend, txv, rxv, heap>>

DlFinish ==
    /\ dlpc = "finish"
    /\ Finish(dlreq) /\ Send(dlreq, "timeout")
    /\ dlpc' = "cancel"
    /\ UNCHANGED <<machine, sess, nextSeq, table, calls, txv, rxv, firing, dlreq>>

DlCancel ==
    /\ dlpc = "cancel"
    /\ machine' = CancelOutbound(machine, cmd[dlreq])
    /\ dlpc' = "idle" /\ dlreq' = None
    /\ UNCHANGED <<sess, tokens, nextSeq, table, calls, pend, txv, rxv, heap, firing>>

DlStop ==
    /\ dlpc = "idle" /\ firing = {} /\ done
    /\ dlpc' = "stopped"
    /\ UNCHANGED <<machine, sess, tokens, nextSeq, table, calls, pend, txv, rxv, heap, firing, dlreq>>

-----------------------------------------------------------------------------
\* Session.Close, a liveness deadline (session init, inactivity, failed probe) or a
\* loop's recovered panic: any of them may call terminate at any time.
Close ==
    /\ term = "no" /\ Terminate
    /\ UNCHANGED <<machine, done, connOpen, failing, tokens, nextSeq, table, calls, pend, txv,
                   rxv, heap, dlv>>

\* The body of terminate, in the code's order.
TermMachine ==
    /\ term = "machine"
    /\ machine' = CloseMachine(machine) /\ term' = "done"
    /\ UNCHANGED <<done, connOpen, failing, tokens, nextSeq, table, calls, pend, txv, rxv, heap, dlv>>

TermDone ==
    /\ term = "done"
    /\ done' = TRUE /\ term' = "conn"
    /\ UNCHANGED <<machine, connOpen, failing, tokens, nextSeq, table, calls, pend, txv, rxv, heap, dlv>>

TermConn ==
    /\ term = "conn"
    /\ connOpen' = FALSE /\ term' = "failAll"
    /\ UNCHANGED <<machine, done, failing, tokens, nextSeq, table, calls, pend, txv, rxv, heap, dlv>>

\* Mutant: the table is emptied and its entries are forgotten.
MutTermFailAll ==
    /\ term = "failAll"
    /\ table' = [s \in SeqNumbers |-> None]
    /\ term' = "drain"
    /\ UNCHANGED <<machine, done, connOpen, failing, tokens, nextSeq, calls, pend, txv, rxv, heap, dlv>>

\* pendingTable.failAll: empty the table under its lock, then complete each entry.
TermFailAll ==
    /\ term = "failAll"
    /\ failing' = {table[s] : s \in Pending}
    /\ table' = [s \in SeqNumbers |-> None]
    /\ term' = "drain"
    /\ UNCHANGED <<machine, done, connOpen, tokens, nextSeq, calls, pend, txv, rxv, heap, dlv>>

TermDrain(r) ==
    /\ term = "drain" /\ r \in failing
    /\ Finish(r) /\ Send(r, "lost")
    /\ failing' = failing \ {r}
    /\ UNCHANGED <<machine, done, connOpen, term, nextSeq, table, calls, txv, rxv, dlv>>

TermEnd ==
    /\ term = "drain" /\ failing = {}
    /\ term' = "terminated"
    /\ UNCHANGED <<machine, done, connOpen, failing, tokens, nextSeq, table, calls, pend, txv, rxv,
                   heap, dlv>>

-----------------------------------------------------------------------------
\* One call's goroutine, once it has been called; the environment's own choices
\* (making a call, cancelling a context, closing the session) are not in it.
CallStep(r) ==
    \/ Acquire(r) \/ AcquireWait(r) \/ Begin(r) \/ Insert(r) \/ Encode(r) \/ Enqueue(r)
    \/ Await(r) \/ WaitCompleted(r) \/ CallerFinish(r) \/ Unwind(r)

TxLoop ==
    \/ TxDequeue \/ TxDrain \/ TxWrite \/ TxWriteFail \/ TxPost \/ TxPostEnd
    \/ TxSchedule \/ TxAttach \/ TxStop

RxHandle == RxFinish \/ RxComplete \/ RxSend

DlLoop == DlExpireReady \/ (\E r \in Requests : DlExpire(r)) \/ DlFinish \/ DlCancel \/ DlStop

TermStep ==
    \/ TermMachine \/ TermDone \/ TermConn \/ TermFailAll
    \/ (\E r \in Requests : TermDrain(r)) \/ TermEnd

Next ==
    \/ \E r \in Requests : CallStep(r) \/ CancelContext(r) \/ (\E c \in Commands : Call(r, c))
    \/ TxLoop
    \/ (\E r \in Requests, ok \in BOOLEAN : RxResponse(r, ok)) \/ RxHandle \/ RxStop
    \/ DlLoop
    \/ Close \/ TermStep

Spec == Init /\ [][Next]_vars

\* The Go scheduler runs every runnable goroutine, and a due deadline is due for
\* good.  Nothing is assumed of the callers, of the peer or of the reader.
Fairness ==
    /\ \A r \in Requests : WF_vars(CallStep(r))
    /\ WF_vars(TxLoop) /\ WF_vars(RxHandle) /\ WF_vars(DlLoop) /\ WF_vars(TermStep)

FairSpec == Spec /\ Fairness

-----------------------------------------------------------------------------
(***************************************************************************)
(*                               Properties                                *)
(***************************************************************************)

CallStates == {"idle", "acquire", "waiting", "begin", "insert", "encode", "enqueue", "await",
               "completed", "finish", "cancel", "release", "unwind", "returned"}

MaybeCall == Requests \cup {None}

SessType ==
    /\ machine \in Machines
    /\ done \in BOOLEAN /\ connOpen \in BOOLEAN
    /\ term \in {"no", "machine", "done", "conn", "failAll", "drain", "terminated"}
    /\ failing \subseteq Requests

TableType == tokens \in Nat /\ nextSeq \in 0..MaxSequence /\ table \in [SeqNumbers -> MaybeCall]

CallsType ==
    /\ pc \in [Requests -> CallStates]
    /\ cmd \in [Requests -> Commands \cup {NoCommand}]
    /\ seq \in [Requests -> 0..MaxSequence]
    /\ tries \in [Requests -> Nat]
    /\ cancelled \subseteq Requests
    /\ ret \in [Requests -> Results]
    /\ victim \in [Requests -> MaybeCall]

PendType ==
    /\ finished \subseteq Requests /\ attached \subseteq Requests
    /\ mail \in [Requests -> Seq(Results)]
    /\ completions \in [Requests -> Nat]

TxType ==
    /\ tx \in Seq(Requests) /\ batch \in Seq(Requests)
    /\ txpc \in {"idle", "collect", "post", "schedule", "attach", "stopped"}
    /\ cur \in MaybeCall
    /\ wire \subseteq Requests

RxType ==
    /\ rxpc \in {"idle", "finish", "complete", "send", "stopped"}
    /\ rxreq \in MaybeCall /\ rxok \in BOOLEAN

DlType ==
    /\ heap \subseteq Requests /\ firing \subseteq Requests
    /\ dlpc \in {"idle", "finish", "cancel", "stopped"} /\ dlreq \in MaybeCall

\* Every variable has its type.
TypeOK == SessType /\ TableType /\ CallsType /\ PendType /\ TxType /\ RxType /\ DlType

\* A request is completed at most once, whichever of response, timeout, caller
\* cancellation, encoding failure and session loss race for it; an entry still in
\* the pending table has not been completed (completeError, takeResponse, failAll).
ExactlyOnce ==
    /\ \A r \in Requests : completions[r] <= 1
    /\ \A s \in Pending : completions[table[s]] = 0

\* The calls whose window slot has been acquired and not yet returned.
OwnsSlot(r) ==
    /\ cmd[r] # NoCommand /\ ~isOneWayCommand(cmd[r])
    /\ \/ pc[r] \in {"begin", "insert", "release", "unwind"}
       \/ seq[r] # 0 /\ r \notin finished

\* requestWindow.tokens counts exactly the calls that own a slot: no terminal path
\* returns a slot twice or frees one it does not own, and the window bound holds.
WindowAccounting ==
    /\ tokens = Cardinality({r \in Requests : OwnsSlot(r)})
    /\ tokens <= WindowSize

\* New makes MaxPending at least WindowSize, so a call that owns a slot always finds room
\* in the pending table: request never returns ErrPendingLimit.
RoomForInsert ==
    \A r \in Requests :
        pc[r] = "insert" /\ ~isOneWayCommand(cmd[r]) => Cardinality(Pending) < MaxPending

\* The deadline heap follows the requests through the two steps that arm it: a completed
\* request leaves nothing on it, except while txLoop has scheduled its deadline and not yet
\* tried to attach it; and a request that is on the wire and still pending is on it, unless
\* txLoop is still on its way there or has stopped on a write error.
DeadlinesExact ==
    /\ \A r \in heap : r \notin finished \/ (txpc = "attach" /\ cur = r)
    /\ \A s \in Pending :
          LET r == table[s] IN
          \/ r \notin wire \/ r \in heap \cup firing
          \/ cur = r \/ (\E i \in 1..Len(batch) : batch[i] = r) \/ txpc = "stopped"

\* Bind calls between their reservation and its completion or cancellation.
LiveBind(r) ==
    /\ isBindRequest(cmd[r])
    /\ \/ pc[r] \in {"insert", "encode", "enqueue", "finish", "cancel", "unwind"}
       \/ \E s \in Pending : table[s] = r
       \/ rxreq = r /\ rxpc \in {"finish", "complete"}
       \/ dlreq = r

\* The bind reservation belongs to exactly one live bind call: no other call's
\* failure, timeout or rejection clears it, and none outlives its call.
ReservationOwnership ==
    machine.state # "Closed" /\ term = "no" =>
        LET live == {r \in Requests : LiveBind(r)} IN
        /\ Cardinality(live) <= 1
        /\ machine.pendingLocalBind # NoCommand <=> live # {}
        /\ \A r \in live : machine.pendingLocalBind = cmd[r]

\* "callers never receive context cancellation while the library is still ambiguously
\* deciding whether to put a one-way lifecycle PDU on the wire" (SendOneWay): a
\* cancelled one-way call is not on the wire and not on its way there.
OneWayUnambiguous ==
    \A r \in Requests :
        isOneWayCommand(cmd[r]) /\ ret[r] = "cancelled" =>
            /\ r \notin wire
            /\ ~\E i \in 1..Len(tx) : tx[i] = r
            /\ ~\E i \in 1..Len(batch) : batch[i] = r

\* A session moves from unbound to bound to closed and never back: a bound session
\* does not reopen and a closed one stays closed, whatever rolls back or arrives late.
Rank(state) == IF state = "Closed" THEN 2 ELSE IF state \in {"Open", "Outbound"} THEN 0 ELSE 1

NeverReopens == [][Rank(machine'.state) >= Rank(machine.state)]_machine

\* Where a call stands in the abstract service.  A one-way call takes no place and stays
\* outside; a call that ends without a sequence number was never registered.
Phase(r) ==
    IF OwnsSlot(r) THEN "held"
    ELSE IF cmd[r] = NoCommand \/ isOneWayCommand(cmd[r]) THEN "outside"
    ELSE IF seq[r] # 0 THEN "settled"
    ELSE IF pc[r] = "returned" THEN "declined" ELSE "outside"

Service == INSTANCE RequestService WITH
    Calls <- Requests,
    phase <- [r \in Requests |-> Phase(r)],
    completed <- {r \in Requests : completions[r] > 0}

\* The session's goroutines with their locks, channels and timers implement the service:
\* every step of theirs is a step of it or changes nothing of it.
ImplementsService == Service!Spec

\* A request registered before terminate empties the table is completed and its
\* caller returns, even if the peer never answers and the context never ends.
PendingCallReturns ==
    \A r \in Requests :
        (pc[r] = "encode" /\ term \notin {"drain", "terminated"}) ~> pc[r] = "returned"

\* A caller blocked on a full window does not wait for ever.
WaiterIsServed == \A r \in Requests : pc[r] = "waiting" ~> pc[r] # "waiting"

\* "exactly-once terminal request completion across response, caller cancellation,
\* ... and session loss" (README.md): every registered request returns.
RegisteredCallReturns == \A r \in Requests : pc[r] = "encode" ~> pc[r] = "returned"
=============================================================================
