--------------------------- MODULE RequestProofs ---------------------------
(***************************************************************************)
(* Proofs about RequestPath for any number of calls, any window, queue,    *)
(* batch and table sizes and any sequence space (wrap-around included):    *)
(* type correctness, the lifecycle of the session and the exactly-once     *)
(* completion of requests.                                                 *)
(***************************************************************************)
EXTENDS RequestPath, TLAPS

(***************************************************************************)
(* What the methods of the lifecycle machine preserve, for every command.  *)
(***************************************************************************)

\* A bind request leads to a bound state (boundStateForBind).
LEMMA boundStateForBindType ==
    ASSUME NEW c \in BindRequests
    PROVE  boundStateForBind(c) \in BoundStates
  BY DEF boundStateForBind, BindRequests, BoundStates

\* CancelOutbound keeps a legal machine, whatever the command.
LEMMA CancelOutboundType ==
    ASSUME NEW m \in Machines, NEW c
    PROVE  CancelOutbound(m, c) \in Machines
  BY DEF CancelOutbound, isBindRequest, Machines, States, BoundStates, NoCommand

\* CompleteOutbound keeps a legal machine, for an accepted and a refused response.
LEMMA CompleteOutboundType ==
    ASSUME NEW m \in Machines, NEW c, NEW ok \in BOOLEAN
    PROVE  CompleteOutbound(m, c, ok) \in Machines
  <1>1. CASE isBindRequest(c) /\ m.pendingLocalBind = c
    <2>1. CompleteOutbound(m, c, ok) =
            [m EXCEPT !.pendingLocalBind = NoCommand,
                      !.state = IF ok THEN boundStateForBind(c) ELSE @]
      BY <1>1 DEF CompleteOutbound
    <2>2. boundStateForBind(c) \in States
      BY <1>1, boundStateForBindType DEF isBindRequest, States
    <2> QED BY <2>1, <2>2 DEF Machines
  <1>2. CASE ~(isBindRequest(c) /\ m.pendingLocalBind = c) /\ c = "unbind" /\ m.state = "Unbound"
    <2>1. CompleteOutbound(m, c, ok) =
            [m EXCEPT !.state = unbindResult(m.state, m.localUnbindFrom, ok),
                      !.localUnbindFrom = "Closed"]
      BY <1>2 DEF CompleteOutbound
    <2>2. unbindResult(m.state, m.localUnbindFrom, ok) \in States
      BY DEF unbindResult, Machines, States, BoundStates
    <2> QED BY <2>1, <2>2 DEF Machines
  <1> QED BY <1>1, <1>2 DEF CompleteOutbound

\* BeginOutbound keeps a legal machine: an unbind begins in a bound state only.
LEMMA BeginOutboundType ==
    ASSUME NEW m \in Machines, NEW c, BeginOutboundOK(m, c)
    PROVE  BeginOutbound(m, c) \in Machines
  <1>1. begin(m.state, c) \in States
    BY DEF begin, Machines, States
  <1>2. c = "unbind" => m.state \in BoundStates
    BY DEF BeginOutboundOK, CanIssue, BindRequests, SubmitCommands
  <1> QED BY <1>1, <1>2 DEF BeginOutbound, Machines, isBindRequest

\* Close leaves a legal machine.
LEMMA CloseMachineType ==
    ASSUME NEW m \in Machines
    PROVE  CloseMachine(m) \in Machines
  BY DEF CloseMachine, NewStateMachine, Machines, States, BoundStates, NoCommand

(***************************************************************************)
(* Type correctness.  TypeOK alone is not inductive: an action that looks  *)
(* up table[seq[r]] needs to know that r has a number by then, and one     *)
(* that completes rxreq, dlreq, cur or victim[r] that there is a call.     *)
(***************************************************************************)
CallShape ==
    \A r \in Requests :
        /\ pc[r] \in {"idle", "acquire", "waiting", "begin", "insert", "unwind", "release"}
              => seq[r] = 0
        /\ pc[r] \in {"encode", "enqueue", "await", "completed", "finish"} => seq[r] \in SeqNumbers
        /\ pc[r] = "finish" => victim[r] \in Requests

TableShape == \A s \in SeqNumbers : table[s] # None => seq[table[s]] = s

TxShape ==
    /\ \A i \in 1..Len(tx) : seq[tx[i]] \in SeqNumbers
    /\ \A i \in 1..Len(batch) : seq[batch[i]] \in SeqNumbers
    /\ \A r \in wire : seq[r] \in SeqNumbers
    /\ txpc \in {"schedule", "attach"} => cur \in Requests /\ seq[cur] \in SeqNumbers

RxShape == rxpc \in {"finish", "complete", "send"} => rxreq \in Requests

DlShape ==
    /\ \A r \in heap \cup firing : seq[r] \in SeqNumbers
    /\ dlpc \in {"finish", "cancel"} => dlreq \in Requests

Shape == CallShape /\ TableShape /\ TxShape /\ RxShape /\ DlShape

TypeInv == TypeOK /\ Shape

\* Finish, Send and the sequence counter, once for all the goroutines that use them.
LEMMA FinishType ==
    ASSUME tokens \in Nat, finished \subseteq Requests, attached \subseteq Requests,
           heap \subseteq Requests, NEW r \in Requests, Finish(r)
    PROVE  /\ tokens' \in Nat /\ finished' \subseteq Requests /\ attached' \subseteq Requests
           /\ heap' \subseteq heap
  BY DEF Finish, Release

\* The send to the completion channel keeps the mailboxes and counters typed.
LEMMA SendType ==
    ASSUME PendType, NEW r \in Requests, NEW result \in Results, Send(r, result)
    PROVE  mail' \in [Requests -> Seq(Results)] /\ completions' \in [Requests -> Nat]
  BY DEF PendType, Send

\* sequenceGenerator.Next yields a legal number, also when it wraps.
LEMMA NextSequenceType ==
    ASSUME nextSeq \in 0..MaxSequence
    PROVE  NextSequence(nextSeq) \in SeqNumbers /\ NextSequence(nextSeq) \in 0..MaxSequence
  BY RequestPathAssumption DEF NextSequence, SeqNumbers

\* What taking the head of a non-empty queue yields.
LEMMA HeadTail ==
    ASSUME NEW S, NEW q \in Seq(S), q # <<>>
    PROVE  /\ Head(q) \in S /\ Tail(q) \in Seq(S) /\ Len(Tail(q)) = Len(q) - 1
           /\ Len(q) \in Nat /\ Len(q) >= 1 /\ Head(q) = q[1]
           /\ \A i \in 1..Len(Tail(q)) : Tail(q)[i] = q[i + 1] /\ i + 1 \in 1..Len(q)
  OBVIOUS

\* What a step leaves alone keeps its type and its shape.
LEMMA Unmoved ==
    ASSUME TypeInv
    PROVE  /\ UNCHANGED <<machine, sess>> => SessType'
           /\ UNCHANGED <<tokens, nextSeq, table>> => TableType'
           /\ UNCHANGED calls => CallsType' /\ CallShape'
           /\ UNCHANGED pend => PendType'
           /\ UNCHANGED txv => TxType'
           /\ UNCHANGED rxv => RxType' /\ RxShape'
           /\ UNCHANGED <<heap, dlv>> => DlType'
           /\ UNCHANGED <<table, seq>> => TableShape'
           /\ UNCHANGED <<txv, seq>> => TxShape'
           /\ UNCHANGED <<heap, dlv, seq>> => DlShape'
  <1> USE DEF TypeInv, TypeOK, Shape
  <1>1. UNCHANGED <<machine, sess>> => SessType'
    BY DEF SessType, sess
  <1>2. UNCHANGED <<tokens, nextSeq, table>> => TableType'
    BY DEF TableType
  <1>3. UNCHANGED calls => CallsType' /\ CallShape'
    BY DEF CallsType, CallShape, calls
  <1>4. UNCHANGED pend => PendType'
    BY DEF PendType, pend
  <1>5. UNCHANGED txv => TxType'
    BY DEF TxType, txv
  <1>6. UNCHANGED rxv => RxType' /\ RxShape'
    BY DEF RxType, RxShape, rxv
  <1>7. UNCHANGED <<heap, dlv>> => DlType'
    BY DEF DlType, dlv
  <1>8. UNCHANGED <<table, seq>> => TableShape'
    BY DEF TableShape
  <1>9. UNCHANGED <<txv, seq>> => TxShape'
    BY DEF TxShape, txv
  <1>10. UNCHANGED <<heap, dlv, seq>> => DlShape'
    BY DEF DlShape, dlv
  <1> QED BY <1>1, <1>2, <1>3, <1>4, <1>5, <1>6, <1>7, <1>8, <1>9, <1>10

\* Steps that only move a goroutine's program counter, terminate's progress or due deadlines.
LEMMA TypeControl ==
    ASSUME TypeInv,
           \/ TxPostEnd \/ TxStop \/ RxStop \/ DlStop \/ Close
           \/ TermMachine \/ TermDone \/ TermConn \/ TermEnd \/ DlExpireReady
    PROVE  TypeInv'
  <1>1. UNCHANGED <<failing, tokens, nextSeq, table, pc, cmd, seq, tries, cancelled, ret, victim,
                    finished, attached, mail, completions, tx, batch, cur, wire,
                    rxreq, rxok, dlreq>>
    BY DEF TxPostEnd, TxStop, RxStop, DlStop, Close, TermMachine, TermDone, TermConn, TermEnd,
           DlExpireReady, Terminate, sess, calls, pend, txv, rxv, dlv
  <1>2. /\ machine' = machine \/ machine' = CloseMachine(machine)
        /\ done' \in {done, TRUE} /\ connOpen' \in {connOpen, FALSE}
        /\ term' \in {term, "machine", "done", "conn", "failAll", "terminated"}
    BY Zenon DEF TxPostEnd, TxStop, RxStop, DlStop, Close, TermMachine, TermDone, TermConn, TermEnd,
           DlExpireReady, Terminate, sess, calls, pend, txv, rxv, dlv
  <1>3. /\ txpc' \in {txpc, "idle", "stopped"} /\ rxpc' \in {rxpc, "stopped"} /\ dlpc' \in {dlpc, "stopped"}
        /\ heap' \subseteq heap /\ firing' \subseteq firing \cup heap
    BY DEF TxPostEnd, TxStop, RxStop, DlStop, Close, TermMachine, TermDone, TermConn, TermEnd,
           DlExpireReady, Terminate, sess, calls, pend, txv, rxv, dlv
  <1>4. TableType' /\ CallsType' /\ PendType' /\ CallShape' /\ TableShape'
    BY <1>1 DEF TypeInv, TypeOK, Shape, TableType, CallsType, PendType, CallShape, TableShape
  <1>5. SessType'
    BY <1>1, <1>2, CloseMachineType, Zenon DEF TypeInv, TypeOK, SessType
  <1>6. TxType' /\ TxShape'
    BY <1>1, <1>3 DEF TypeInv, TypeOK, Shape, TxType, TxShape
  <1>7. RxType' /\ RxShape' /\ DlType' /\ DlShape'
    BY <1>1, <1>3 DEF TypeInv, TypeOK, Shape, RxType, RxShape, DlType, DlShape
  <1> QED BY <1>4, <1>5, <1>6, <1>7 DEF TypeInv, TypeOK, Shape

\* A call up to its reservation, and the unwinding of a call that failed there.
LEMMA TypeAdmission ==
    ASSUME TypeInv, NEW r \in Requests,
           \/ CancelContext(r) \/ Acquire(r) \/ AcquireWait(r) \/ Begin(r) \/ Unwind(r)
           \/ \E c \in Commands : Call(r, c)
    PROVE  TypeInv'
  <1>1. UNCHANGED <<sess, nextSeq, table, seq, tries, victim, pend, txv, rxv, heap, dlv>>
    BY DEF CancelContext, Acquire, AcquireWait, Begin, Unwind, Call
  <1>2. \/ machine' = machine \/ machine' = CancelOutbound(machine, cmd[r])
        \/ BeginOutboundOK(machine, cmd[r]) /\ machine' = BeginOutbound(machine, cmd[r])
    BY DEF CancelContext, Acquire, AcquireWait, Begin, Unwind, Call
  <1>3. /\ tokens' = tokens \/ tokens' = tokens + 1 \/ Release
        /\ cmd' = cmd \/ \E c \in Commands : cmd' = [cmd EXCEPT ![r] = c]
        /\ cancelled' = cancelled \/ cancelled' = cancelled \cup {r}
    BY DEF CancelContext, Acquire, AcquireWait, Begin, Unwind, Call
  <1>4. /\ \/ pc' = pc \/ pc' = [pc EXCEPT ![r] = "returned"]
           \/ /\ pc[r] \in {"idle", "acquire", "waiting", "begin", "unwind"}
              /\ \E x \in {"acquire", "waiting", "begin", "insert", "release"} : pc' = [pc EXCEPT ![r] = x]
        /\ \/ ret' = ret
           \/ \E x \in {"closed", "full", "cancelled", "refused"} : ret' = [ret EXCEPT ![r] = x]
    BY DEF CancelContext, Acquire, AcquireWait, Begin, Unwind, Call, Goto, Leave
  <1>5. PendType' /\ TxType' /\ RxType' /\ DlType' /\ TableShape' /\ TxShape' /\ RxShape' /\ DlShape'
    BY <1>1 DEF TypeInv, TypeOK, Shape, PendType, TxType, RxType, DlType, TableShape, TxShape, RxShape,
                DlShape, pend, txv, rxv, dlv
  <1>6. SessType'
    BY <1>1, <1>2, CancelOutboundType, BeginOutboundType DEF TypeInv, TypeOK, SessType, sess
  <1>7. TableType'
    BY <1>1, <1>3 DEF TypeInv, TypeOK, TableType, Release
  <1>8. CallsType'
    BY <1>1, <1>3, <1>4 DEF TypeInv, TypeOK, CallsType, CallStates, Results
  <1>9. CallShape'
    BY <1>1, <1>4 DEF TypeInv, TypeOK, Shape, CallShape, CallsType
  <1> QED BY <1>5, <1>6, <1>7, <1>8, <1>9 DEF TypeInv, TypeOK, Shape

\* request: allocating the number and registering the call.
LEMMA TypeInsert ==
    ASSUME TypeInv, NEW r \in Requests, Insert(r)
    PROVE  TypeInv'
  <1> USE DEF sess, calls, pend, txv, rxv, dlv, TypeInv, TypeOK, Shape
  <1>1. UNCHANGED <<machine, sess, pend, txv, rxv, heap, dlv>>
    BY DEF Insert
  <1>2. SessType' /\ PendType' /\ TxType' /\ RxType' /\ DlType' /\ RxShape'
    BY <1>1, Unmoved
  <1>3. TableType'
    <2> DEFINE s == NextSequence(nextSeq)
    <2>1. s \in SeqNumbers /\ s \in 0..MaxSequence
      BY NextSequenceType DEF TableType
    <2>2. nextSeq' = s /\ tokens' = tokens /\ (table' = table \/ table' = [table EXCEPT ![s] = r])
      BY DEF Insert
    <2> QED BY <2>1, <2>2, RequestPathAssumption DEF TableType, MaybeCall
  <1>4. CallsType'
    <2>1. NextSequence(nextSeq) \in 0..MaxSequence
      BY NextSequenceType DEF TableType
    <2>2. seq' \in [Requests -> 0..MaxSequence] /\ tries' \in [Requests -> Nat]
      BY <2>1 DEF Insert, CallsType
    <2>3. pc' \in [Requests -> CallStates] /\ ret' \in [Requests -> Results]
      BY DEF Insert, CallsType, Goto, Leave, CallStates, Results
    <2> QED BY <2>2, <2>3 DEF Insert, CallsType
  <1>5. CallShape'
    BY NextSequenceType DEF Insert, Goto, Leave, CallShape, CallsType, TableType
  <1>6. TableShape'
    <2> DEFINE s == NextSequence(nextSeq)
    <2>1. s \in SeqNumbers /\ seq[r] = 0 /\ 0 \notin SeqNumbers
      BY NextSequenceType DEF Insert, CallShape, TableType, SeqNumbers
    <2>2. CASE table' = table
      <3>1. \A t \in SeqNumbers : table[t] # None => table[t] \in Requests /\ table[t] # r
        BY <2>1, RequestPathAssumption DEF TableShape, TableType, MaybeCall
      <3> QED BY <2>2, <3>1 DEF Insert, TableShape, CallsType
    <2>3. CASE table' = [table EXCEPT ![s] = r] /\ seq' = [seq EXCEPT ![r] = s]
      <3>1. \A t \in SeqNumbers : table[t] # None => table[t] \in Requests /\ table[t] # r
        BY <2>1, RequestPathAssumption DEF TableShape, TableType, MaybeCall
      <3> QED BY <2>1, <2>3, <3>1 DEF TableShape, CallsType, TableType
    <2> QED BY <2>2, <2>3 DEF Insert
  <1>7. TxShape'
    <2>1. \A q \in Requests : seq[q] \in SeqNumbers => seq'[q] \in SeqNumbers
      BY NextSequenceType DEF Insert, CallsType, TableType
    <2> QED BY <1>1, <2>1 DEF TxShape, TxType
  <1>8. DlShape'
    <2>1. \A q \in Requests : seq[q] \in SeqNumbers => seq'[q] \in SeqNumbers
      BY NextSequenceType DEF Insert, CallsType, TableType
    <2> QED BY <1>1, <2>1 DEF DlShape, DlType
  <1> QED BY <1>2, <1>3, <1>4, <1>5, <1>6, <1>7, <1>8

\* The three places where the caller may complete its own entry.
LEMMA TypeCaller ==
    ASSUME TypeInv, NEW r \in Requests, Encode(r) \/ Enqueue(r) \/ Await(r)
    PROVE  TypeInv'
  <1> USE DEF sess, calls, pend, txv, rxv, dlv, TypeInv, TypeOK, Shape
  <1>1. SessType' /\ RxType' /\ DlType' /\ RxShape' /\ DlShape'
    <2>1. UNCHANGED <<machine, sess, seq, rxv, heap, dlv>>
      BY DEF Encode, Enqueue, Await
    <2> QED BY <2>1, Unmoved
  <1>2. seq[r] \in SeqNumbers
    BY DEF Encode, Enqueue, Await, CallShape
  <1>3. table[seq[r]] # None => table[seq[r]] \in Requests
    BY <1>2, RequestPathAssumption DEF TableType, MaybeCall
  <1>4. \/ /\ table' = table /\ victim' = victim
           /\ \E x \in {"enqueue", "await", "completed", "cancel", "returned"} : pc' = [pc EXCEPT ![r] = x]
        \/ /\ table[seq[r]] # None /\ table' = [table EXCEPT ![seq[r]] = None]
           /\ victim' = [victim EXCEPT ![r] = table[seq[r]]] /\ pc' = [pc EXCEPT ![r] = "finish"]
    BY Zenon DEF Encode, Enqueue, Await, CompleteByCaller, Remove, Goto, Leave
  <1>5. UNCHANGED <<tokens, nextSeq, cmd, seq, tries, cancelled>>
    BY DEF Encode, Enqueue, Await
  <1>6. TableType' /\ TableShape'
    BY <1>2, <1>4, <1>5, RequestPathAssumption DEF TableType, TableShape, MaybeCall, CallsType
  <1>7. pc' \in [Requests -> CallStates]
    BY <1>4 DEF CallsType, CallStates
  <1>8. mail[r] # <<>> => Head(mail[r]) \in Results /\ Tail(mail[r]) \in Seq(Results)
    BY HeadTail DEF PendType
  <1>9. ret' \in [Requests -> Results]
    BY <1>8, Zenon DEF Encode, Enqueue, Await, CompleteByCaller, CallsType, Goto, Leave, Results
  <1>10. CallsType'
    BY <1>3, <1>4, <1>5, <1>7, <1>9 DEF CallsType, MaybeCall
  <1>11. CallShape'
    BY <1>2, <1>3, <1>4, <1>5 DEF CallShape, CallsType
  <1>12. PendType'
    BY <1>8, Zenon DEF PendType, Encode, Enqueue, Await
  <1>13. TxType' /\ TxShape'
    <2>1. UNCHANGED <<seq, batch, wire, cur, txpc>> /\ (tx' = tx \/ tx' = Append(tx, r))
      BY DEF Encode, Enqueue, Await
    <2>2. CASE tx' = tx
      BY <2>1, <2>2 DEF TxType, TxShape
    <2>3. CASE tx' = Append(tx, r)
      <3>1. \A i \in 1..Len(tx') : tx'[i] = r \/ (i \in 1..Len(tx) /\ tx'[i] = tx[i])
        BY <2>3 DEF TxType
      <3> QED BY <1>2, <2>1, <2>3, <3>1 DEF TxType, TxShape
    <2> QED BY <2>1, <2>2, <2>3
  <1> QED BY <1>1, <1>6, <1>10, <1>11, <1>12, <1>13

\* A call taking its result, or finishing the entry it removed.
LEMMA TypeReturn ==
    ASSUME TypeInv, NEW r \in Requests, WaitCompleted(r) \/ CallerFinish(r)
    PROVE  TypeInv'
  <1> USE DEF sess, calls, pend, txv, rxv, dlv, TypeInv, TypeOK, Shape
  <1> USE DEF WaitCompleted, CallerFinish
  <1>1. SessType' /\ TxType' /\ RxType' /\ TableShape' /\ TxShape' /\ RxShape'
    <2>1. UNCHANGED <<machine, sess, table, seq, txv, rxv>>
      OBVIOUS
    <2> QED BY <2>1, Unmoved
  <1>2. mail[r] # <<>> => Head(mail[r]) \in Results /\ Tail(mail[r]) \in Seq(Results)
    BY HeadTail DEF PendType
  <1>3. CallerFinish(r) => victim[r] \in Requests /\ ret[r] \in Results
    BY DEF CallShape, CallsType
  <1>4. pc' \in [Requests -> CallStates]
    BY DEF CallsType, Goto, Leave, CallStates
  <1>5. ret' \in [Requests -> Results]
    BY <1>2, Zenon DEF CallsType, Leave
  <1>6. CallsType' /\ CallShape'
    BY <1>4, <1>5 DEF CallsType, CallShape, Goto, Leave
  <1>7. CASE WaitCompleted(r)
    <2>1. TableType' /\ DlType' /\ DlShape'
      BY <1>7, Unmoved
    <2>2. PendType'
      BY <1>2, <1>7 DEF PendType
    <2> QED BY <1>1, <1>6, <2>1, <2>2
  <1>8. CASE CallerFinish(r)
    <2>1. tokens' \in Nat /\ finished' \subseteq Requests /\ attached' \subseteq Requests /\ heap' \subseteq heap
      BY <1>3, <1>8, FinishType DEF TableType, PendType, DlType
    <2>2. PendType'
      BY <1>3, <1>8, <2>1, SendType DEF PendType
    <2>3. TableType' /\ DlType' /\ DlShape'
      BY <1>8, <2>1 DEF TableType, DlType, DlShape
    <2> QED BY <1>1, <1>6, <2>2, <2>3
  <1> QED BY <1>7, <1>8

\* txLoop up to the write.
LEMMA TypeTxWriteSteps ==
    ASSUME TypeInv, TxDequeue \/ TxDrain \/ TxWrite \/ TxWriteFail
    PROVE  TypeInv'
  <1> USE DEF sess, calls, pend, txv, rxv, dlv, TypeInv, TypeOK, Shape
  <1>1. TableType' /\ CallsType' /\ RxType' /\ DlType' /\ CallShape' /\ TableShape' /\ RxShape' /\ DlShape'
    <2>1. UNCHANGED <<tokens, nextSeq, table, calls, rxv, heap, dlv>>
      BY DEF TxDequeue, TxDrain, TxWrite, TxWriteFail
    <2> QED BY <2>1, Unmoved
  <1>2. SessType'
    BY DEF TxDequeue, TxDrain, TxWrite, TxWriteFail, SessType, Terminate
  <1>3. PendType'
    <2>1. \A q \in Requests : Append(mail[q], "writeerr") \in Seq(Results)
      BY DEF PendType, Results
    <2>2. mail' \in [Requests -> Seq(Results)]
      <3>1. CASE TxWriteFail
        BY <2>1, <3>1 DEF TxWriteFail, PendType
      <3>2. CASE ~TxWriteFail
        BY <3>2 DEF TxDequeue, TxDrain, TxWrite, PendType
      <3> QED BY <3>1, <3>2
    <2> QED BY <2>2 DEF TxDequeue, TxDrain, TxWrite, TxWriteFail, PendType
  <1>4. tx # <<>> =>
          /\ Head(tx) \in Requests /\ seq[Head(tx)] \in SeqNumbers /\ Tail(tx) \in Seq(Requests)
          /\ \A i \in 1..Len(Tail(tx)) : seq[Tail(tx)[i]] \in SeqNumbers
    BY HeadTail DEF TxType, TxShape
  <1>5. CASE TxDequeue \/ TxDrain
    <2> DEFINE h == Head(tx)
    <2>1. /\ tx # <<>> /\ tx' = Tail(tx) /\ (txpc' = txpc \/ txpc' = "collect")
          /\ batch' = batch \/ batch' = <<h>> \/ batch' = Append(batch, h)
          /\ UNCHANGED <<cur, wire, seq>>
      BY <1>5 DEF TxDequeue, TxDrain
    <2>2. h \in Requests /\ seq[h] \in SeqNumbers
      BY <1>4, <2>1
    <2> HIDE DEF h
    <2>3. /\ batch' \in Seq(Requests)
          /\ \A i \in 1..Len(batch') : seq[batch'[i]] \in SeqNumbers
      <3>1. CASE batch' = batch
        BY <3>1 DEF TxType, TxShape
      <3>2. CASE batch' = <<h>>
        BY <2>2, <3>2
      <3>3. CASE batch' = Append(batch, h)
        BY <2>2, <3>3 DEF TxType, TxShape
      <3> QED BY <2>1, <3>1, <3>2, <3>3
    <2>4. TxType' /\ TxShape'
      BY <1>4, <2>1, <2>3 DEF TxType, TxShape
    <2> QED BY <1>1, <1>2, <1>3, <2>4
  <1>6. CASE TxWrite \/ TxWriteFail
    <2>1. \A i \in 1..Len(batch) : batch[i] \in Requests
      BY DEF TxType
    <2>2. TxType'
      <3>1. CASE TxWrite
        BY <2>1, <3>1 DEF TxWrite, TxType
      <3>2. CASE TxWriteFail
        <4>1. PICK k \in 0..Len(batch) : wire' = wire \cup {batch[i] : i \in 1..k}
          BY <3>2 DEF TxWriteFail
        <4>2. wire' \subseteq Requests
          BY <2>1, <4>1 DEF TxType
        <4> QED BY <3>2, <4>2 DEF TxWriteFail, TxType
      <3> QED BY <1>6, <3>1, <3>2
    <2>3. TxShape'
      <3>1. /\ UNCHANGED <<tx, seq, cur>> /\ batch' \in {batch, <<>>}
            /\ txpc' \in {"post", "stopped"}
        BY <1>6 DEF TxWrite, TxWriteFail
      <3>2. \A q \in wire' : q \in wire \/ \E i \in 1..Len(batch) : q = batch[i]
        <4>1. CASE TxWrite
          BY <4>1 DEF TxWrite
        <4>2. CASE TxWriteFail
          <5>1. PICK k \in 0..Len(batch) : wire' = wire \cup {batch[i] : i \in 1..k}
            BY <4>2 DEF TxWriteFail
          <5>2. Len(batch) \in Nat
            BY DEF TxType
          <5> QED BY <5>1, <5>2
        <4> QED BY <1>6, <4>1, <4>2
      <3>3. \A q \in wire' : seq[q] \in SeqNumbers
        BY <3>2 DEF TxShape
      <3>4. \A i \in 1..Len(batch') : seq[batch'[i]] \in SeqNumbers
        BY <3>1 DEF TxShape
      <3> QED BY <3>1, <3>3, <3>4 DEF TxShape
    <2> QED BY <1>1, <1>2, <1>3, <2>2, <2>3
  <1> QED BY <1>5, <1>6

\* txLoop after the write.
LEMMA TypeTxPost ==
    ASSUME TypeInv, TxPost
    PROVE  TypeInv'
  <1> USE DEF sess, calls, pend, txv, rxv, dlv, TypeInv, TypeOK, Shape
  <1>1. /\ SessType' /\ TableType' /\ CallsType' /\ RxType' /\ DlType'
        /\ CallShape' /\ TableShape' /\ RxShape' /\ DlShape'
    <2>1. UNCHANGED <<machine, sess, tokens, nextSeq, table, calls, rxv, heap, dlv>>
      BY DEF TxPost
    <2> QED BY <2>1, Unmoved
  <1>2. batch # <<>> /\ batch \in Seq(Requests)
    BY DEF TxPost, TxType
  <1>3. Head(batch) \in Requests /\ seq[Head(batch)] \in SeqNumbers /\ Tail(batch) \in Seq(Requests)
    <2>1. 1 \in 1..Len(batch) /\ Head(batch) = batch[1] /\ Head(batch) \in Requests /\ Tail(batch) \in Seq(Requests)
      BY <1>2, HeadTail
    <2> QED BY <2>1 DEF TxShape
  <1>4. PendType'
    <2>1. Append(mail[Head(batch)], "sent") \in Seq(Results)
      BY <1>3 DEF PendType, Results
    <2> QED BY <1>3, <2>1, Zenon DEF TxPost, PendType
  <1>5. TxType'
    <2>1. table[seq[Head(batch)]] \in MaybeCall
      BY <1>3 DEF TableType
    <2> QED BY <1>3, <2>1 DEF TxPost, TxType
  <1>6. TxShape'
    <2>1. table[seq[Head(batch)]] # None
            => table[seq[Head(batch)]] \in Requests /\ seq[table[seq[Head(batch)]]] \in SeqNumbers
      BY <1>3, RequestPathAssumption DEF TableType, TableShape, MaybeCall
    <2>2. \A i \in 1..Len(Tail(batch)) : seq[Tail(batch)[i]] \in SeqNumbers
      BY <1>2, HeadTail DEF TxShape
    <2>3. batch' = Tail(batch)
      BY DEF TxPost
    <2> QED BY <2>1, <2>2, <2>3 DEF TxPost, TxType, TxShape
  <1> QED BY <1>1, <1>4, <1>5, <1>6

\* txLoop arming the response deadline of a written request.
LEMMA TypeTxArm ==
    ASSUME TypeInv, TxSchedule \/ TxAttach
    PROVE  TypeInv'
  <1> USE DEF sess, calls, pend, txv, rxv, dlv, TypeInv, TypeOK, Shape
  <1> USE DEF TxSchedule, TxAttach
  <1>1. SessType' /\ TableType' /\ CallsType' /\ RxType' /\ CallShape' /\ TableShape' /\ RxShape'
    <2>1. UNCHANGED <<machine, sess, tokens, nextSeq, table, calls, rxv>>
      OBVIOUS
    <2> QED BY <2>1, Unmoved
  <1>2. PendType' /\ DlType' /\ DlShape'
    BY DEF PendType, DlType, DlShape, TxShape
  <1>3. TxType' /\ TxShape'
    BY DEF TxType, TxShape, MaybeCall
  <1> QED BY <1>1, <1>2, <1>3

\* Removing an entry: rxLoop on a response, the deadline goroutine on an expiry.
LEMMA TypeTake ==
    ASSUME TypeInv, NEW r \in Requests, DlExpire(r) \/ \E ok \in BOOLEAN : RxResponse(r, ok)
    PROVE  TypeInv'
  <1>1. seq[r] \in SeqNumbers
    BY DEF TypeInv, Shape, TxShape, DlShape, DlExpire, RxResponse
  <1>2. table[seq[r]] # None => table[seq[r]] \in Requests
    BY <1>1, RequestPathAssumption DEF TypeInv, TypeOK, TableType, MaybeCall
  <1>3. /\ UNCHANGED <<machine, sess, tokens, nextSeq, calls, pend, txv, heap>>
        /\ table' = table \/ table' = [table EXCEPT ![seq[r]] = None]
        /\ firing' \subseteq firing
        /\ UNCHANGED rxv \/ (/\ rxreq' = table[seq[r]] /\ rxreq' # None /\ rxok' \in BOOLEAN
                             /\ rxpc' = "finish")
        /\ UNCHANGED <<dlpc, dlreq>>
           \/ (dlreq' = table[seq[r]] /\ dlreq' # None /\ dlpc' = "finish")
    BY DEF DlExpire, RxResponse, Remove, dlv
  <1>4. SessType' /\ CallsType' /\ PendType' /\ TxType' /\ CallShape' /\ TxShape'
    BY <1>3 DEF TypeInv, TypeOK, Shape, SessType, CallsType, PendType, TxType, CallShape, TxShape,
                sess, calls, pend, txv
  <1>5. TableType' /\ TableShape'
    BY <1>1, <1>3 DEF TypeInv, TypeOK, Shape, TableType, TableShape, MaybeCall, calls
  <1>6. RxType' /\ RxShape'
    BY <1>2, <1>3 DEF TypeInv, TypeOK, Shape, RxType, RxShape, MaybeCall, rxv
  <1>7. DlType' /\ DlShape'
    BY <1>2, <1>3 DEF TypeInv, TypeOK, Shape, DlType, DlShape, MaybeCall, calls
  <1> QED BY <1>4, <1>5, <1>6, <1>7 DEF TypeInv, TypeOK, Shape

\* Completing an entry that was removed.
LEMMA TypeComplete ==
    ASSUME TypeInv,
           \/ RxFinish \/ RxComplete \/ RxSend \/ DlFinish \/ DlCancel
           \/ \E r \in Requests : TermDrain(r)
    PROVE  TypeInv'
  <1>1. /\ UNCHANGED <<done, connOpen, nextSeq, table, calls, txv, rxok, firing>>
        /\ machine' \in {machine, CompleteOutbound(machine, cmd[rxreq], rxok), CancelOutbound(machine, cmd[dlreq])}
        /\ term' \in {term, "machine"} /\ failing' \subseteq failing
        /\ UNCHANGED <<finished, attached, heap, tokens>> \/ \E q \in Requests : Finish(q)
        /\ UNCHANGED <<mail, completions>> \/ \E q \in Requests, x \in Results : Send(q, x)
    BY DEF TypeInv, Shape, RxShape, DlShape, RxFinish, RxComplete, RxSend, DlFinish, DlCancel, TermDrain,
           Terminate, sess, pend, rxv, dlv, Results
  <1>2. /\ \/ UNCHANGED rxv
           \/ UNCHANGED rxreq /\ rxpc \in {"finish", "complete"} /\ rxpc' \in {"complete", "send"}
           \/ rxreq' = None /\ rxpc' = "idle"
        /\ \/ UNCHANGED <<dlpc, dlreq>>
           \/ dlpc = "finish" /\ dlpc' = "cancel" /\ dlreq' = dlreq
           \/ dlpc' = "idle" /\ dlreq' = None
    BY DEF RxFinish, RxComplete, RxSend, DlFinish, DlCancel, TermDrain, rxv, dlv
  <1>3. CallsType' /\ TxType' /\ CallShape' /\ TableShape' /\ TxShape'
    BY <1>1 DEF TypeInv, TypeOK, Shape, CallsType, TxType, CallShape, TableShape, TxShape, calls, txv
  <1>4. SessType'
    BY <1>1, CompleteOutboundType, CancelOutboundType DEF TypeInv, TypeOK, SessType, RxType
  <1>5. /\ tokens' \in Nat /\ finished' \subseteq Requests /\ attached' \subseteq Requests
        /\ heap' \subseteq heap
    BY <1>1, FinishType DEF TypeInv, TypeOK, TableType, PendType, DlType
  <1>6. mail' \in [Requests -> Seq(Results)] /\ completions' \in [Requests -> Nat]
    BY <1>1, SendType DEF TypeInv, TypeOK, PendType
  <1>7. TableType' /\ PendType'
    BY <1>1, <1>5, <1>6 DEF TypeInv, TypeOK, TableType, PendType
  <1>8. RxType' /\ RxShape'
    BY <1>1, <1>2 DEF TypeInv, TypeOK, Shape, RxType, RxShape, MaybeCall, rxv
  <1>9. DlType' /\ DlShape'
    BY <1>1, <1>2, <1>5 DEF TypeInv, TypeOK, Shape, DlType, DlShape, MaybeCall, calls
  <1> QED BY <1>3, <1>4, <1>7, <1>8, <1>9 DEF TypeInv, TypeOK, Shape

\* failAll empties the table and claims every entry.
LEMMA TypeTermFailAll ==
    ASSUME TypeInv, TermFailAll
    PROVE  TypeInv'
  <1> USE DEF sess, calls, pend, txv, rxv, dlv, TypeInv, TypeOK, Shape
  <1>1. CallsType' /\ PendType' /\ TxType' /\ RxType' /\ DlType'
    BY DEF TermFailAll, CallsType, PendType, TxType, RxType, DlType
  <1>2. CallShape' /\ TxShape' /\ RxShape' /\ DlShape'
    BY DEF TermFailAll, CallShape, TxShape, RxShape, DlShape
  <1>3. SessType'
    <2>1. \A s \in Pending : table[s] \in Requests
      BY RequestPathAssumption DEF Pending, TableType, MaybeCall
    <2> QED BY <2>1 DEF TermFailAll, SessType
  <1>4. TableType'
    BY RequestPathAssumption DEF TermFailAll, TableType, CallsType, MaybeCall
  <1>5. TableShape'
    BY RequestPathAssumption DEF TermFailAll, TableShape, CallsType, TableType, CallShape, MaybeCall
  <1> QED BY <1>1, <1>2, <1>3, <1>4, <1>5

\* The initial state is typed and has the shape.
LEMMA TypeInit == Init => TypeInv
  <1> SUFFICES ASSUME Init PROVE TypeInv
    OBVIOUS
  <1> USE RequestPathAssumption DEF TypeInv, TypeOK, Shape
  <1>1. SessType
    BY Zenon DEF Init, SessType, Open, NewStateMachine, Machines, States, BoundStates, NoCommand
  <1>2. TableType /\ TableShape
    BY DEF Init, TableType, TableShape, SeqNumbers, MaybeCall
  <1>3. CallsType /\ CallShape
    BY DEF Init, CallsType, CallShape, CallStates, Results, MaybeCall
  <1>4. PendType
    BY DEF Init, PendType, Results
  <1>5. TxType /\ TxShape
    BY DEF Init, TxType, TxShape, MaybeCall
  <1>6. RxType /\ RxShape
    BY Zenon DEF Init, RxType, RxShape, MaybeCall
  <1>7. DlType /\ DlShape
    BY DEF Init, DlType, DlShape, MaybeCall
  <1> QED BY <1>1, <1>2, <1>3, <1>4, <1>5, <1>6, <1>7

\* Each step keeps types and shape; one case per action.
LEMMA TypeStep == TypeInv /\ [Next]_vars => TypeInv'
  <1> SUFFICES ASSUME TypeInv, [Next]_vars PROVE TypeInv'
    OBVIOUS
  <1> USE DEF TypeInv, TypeOK, Shape, sess, calls, pend, txv, rxv, dlv
  <1>1. ASSUME NEW r \in Requests, CallStep(r) \/ CancelContext(r) PROVE TypeInv'
    BY <1>1, TypeAdmission, TypeInsert, TypeCaller, TypeReturn DEF CallStep
  <1>2. ASSUME NEW r \in Requests, NEW c \in Commands, Call(r, c) PROVE TypeInv'
    BY <1>2, TypeAdmission
  <1>3. CASE TxLoop
    BY <1>3, TypeTxWriteSteps, TypeTxPost, TypeTxArm, TypeControl DEF TxLoop
  <1>4. ASSUME NEW r \in Requests, NEW ok \in BOOLEAN, RxResponse(r, ok) PROVE TypeInv'
    BY <1>4, TypeTake
  <1>5. CASE RxHandle \/ RxStop
    BY <1>5, TypeComplete, TypeControl DEF RxHandle
  <1>6. CASE DlLoop
    BY <1>6, TypeTake, TypeComplete, TypeControl DEF DlLoop
  <1>7. CASE Close \/ TermStep
    BY <1>7, TypeComplete, TypeTermFailAll, TypeControl DEF TermStep
  <1>8. CASE UNCHANGED vars
    BY <1>8, Unmoved DEF vars
  <1> QED BY <1>1, <1>2, <1>3, <1>4, <1>5, <1>6, <1>7, <1>8 DEF Next

\* Types and shape hold in every reachable state, for every value of the constants.
THEOREM TypeInvariant == Spec => []TypeInv
  <1> QED BY TypeInit, TypeStep, PTL DEF Spec

\* Every variable of the request path keeps its type, whatever the number of calls
\* and the sizes of window, table, queue and sequence space.
THEOREM TypeCorrect == Spec => []TypeOK
  <1>1. TypeInv => TypeOK
    BY DEF TypeInv
  <1> QED BY <1>1, TypeInvariant, PTL

(***************************************************************************)
(* The session never reopens.  Rank alone is not enough: a bind response   *)
(* that arrives late would raise a closed machine, were its reservation    *)
(* still there.  A bind is reserved only while the session is unbound.     *)
(***************************************************************************)
Clear(m) == m.pendingLocalBind # NoCommand => m.state \in {"Open", "Outbound"}

Forward(m, n) == Rank(n.state) >= Rank(m.state) /\ Clear(n)

\* BeginOutbound refuses every command on a closed machine, and its moves keep the rank.
LEMMA ForwardBegin ==
    ASSUME NEW m \in Machines, NEW c, Clear(m), BeginOutboundOK(m, c)
    PROVE  Forward(m, BeginOutbound(m, c))
  <1>1. /\ BeginOutbound(m, c).state = begin(m.state, c)
        /\ BeginOutbound(m, c).pendingLocalBind = IF isBindRequest(c) THEN c ELSE m.pendingLocalBind
    BY DEF BeginOutbound, Machines
  <1>2. isBindRequest(c) => m.state \in {"Open", "Outbound"} /\ c \notin {"unbind", "outbind"}
    BY DEF BeginOutboundOK, CanIssue, isBindRequest, BindRequests, SubmitCommands
  <1>3. c = "unbind" => m.state \in BoundStates
    BY DEF BeginOutboundOK, CanIssue, BindRequests, SubmitCommands
  <1>4. c = "outbind" => m.state = "Open"
    BY DEF BeginOutboundOK, CanIssue, BindRequests, SubmitCommands
  <1> QED BY <1>1, <1>2, <1>3, <1>4 DEF begin, Forward, Clear, Rank, BoundStates

\* A rollback returns to the state the request was issued in, or from Outbound to Open.
LEMMA ForwardCancel ==
    ASSUME NEW m \in Machines, NEW c, Clear(m)
    PROVE  Forward(m, CancelOutbound(m, c))
  BY DEF CancelOutbound, isBindRequest, Forward, Clear, Rank, Machines, States, BoundStates

\* A response moves the machine only while the reservation it answers stands.
LEMMA ForwardComplete ==
    ASSUME NEW m \in Machines, NEW c, NEW ok \in BOOLEAN, Clear(m)
    PROVE  Forward(m, CompleteOutbound(m, c, ok))
  <1>1. CASE isBindRequest(c) /\ m.pendingLocalBind = c
    <2>1. /\ CompleteOutbound(m, c, ok).pendingLocalBind = NoCommand
          /\ CompleteOutbound(m, c, ok).state = IF ok THEN boundStateForBind(c) ELSE m.state
      BY <1>1 DEF CompleteOutbound, Machines
    <2>2. m.state \in {"Open", "Outbound"}
      BY <1>1 DEF Clear, isBindRequest, BindRequests, NoCommand
    <2>3. boundStateForBind(c) \in BoundStates
      BY <1>1, boundStateForBindType DEF isBindRequest
    <2> QED BY <2>1, <2>2, <2>3 DEF Forward, Clear, Rank, BoundStates
  <1>2. CASE ~(isBindRequest(c) /\ m.pendingLocalBind = c) /\ c = "unbind" /\ m.state = "Unbound"
    <2>1. /\ CompleteOutbound(m, c, ok).pendingLocalBind = m.pendingLocalBind
          /\ CompleteOutbound(m, c, ok).state = unbindResult(m.state, m.localUnbindFrom, ok)
      BY <1>2 DEF CompleteOutbound, Machines
    <2>2. m.pendingLocalBind = NoCommand
      BY <1>2 DEF Clear
    <2>3. unbindResult(m.state, m.localUnbindFrom, ok) \in BoundStates \cup {"Unbound", "Closed"}
      BY <1>2 DEF unbindResult, Machines
    <2> QED BY <1>2, <2>1, <2>2, <2>3 DEF Forward, Clear, Rank, BoundStates
  <1>3. CASE ~(isBindRequest(c) /\ m.pendingLocalBind = c) /\ ~(c = "unbind" /\ m.state = "Unbound")
    <2>1. CompleteOutbound(m, c, ok) = m
      BY <1>3 DEF CompleteOutbound
    <2> QED BY <2>1 DEF Forward, Rank
  <1> QED BY <1>1, <1>2, <1>3

\* Every step moves the machine forward or leaves it; one case per goroutine that holds it.
LEMMA ForwardStep ==
    ASSUME TypeInv, Clear(machine), [Next]_vars
    PROVE  Forward(machine, machine')
  <1> USE DEF sess, calls, pend, txv, rxv, dlv
  <1>1. machine \in Machines
    BY DEF TypeInv, TypeOK, SessType
  <1>2. ASSUME machine' = machine PROVE Forward(machine, machine')
    BY <1>2 DEF Forward, Rank
  <1>3. ASSUME NEW r \in Requests, CallStep(r) PROVE Forward(machine, machine')
    <2>1. CASE Begin(r)
      BY <1>1, <1>2, <2>1, ForwardBegin DEF Begin
    <2>2. CASE Unwind(r)
      BY <1>1, <1>2, <2>2, ForwardCancel DEF Unwind
    <2>3. CASE \/ Acquire(r) \/ AcquireWait(r) \/ Insert(r) \/ Encode(r) \/ Enqueue(r)
               \/ Await(r) \/ WaitCompleted(r) \/ CallerFinish(r)
      <3>1. machine' = machine
        BY <2>3 DEF Acquire, AcquireWait, Insert, Encode, Enqueue, Await, WaitCompleted, CallerFinish
      <3> QED BY <1>2, <3>1
    <2> QED BY <1>3, <2>1, <2>2, <2>3 DEF CallStep
  <1>4. ASSUME NEW r \in Requests, CancelContext(r) \/ (\E c \in Commands : Call(r, c))
        PROVE  Forward(machine, machine')
    BY <1>2, <1>4 DEF CancelContext, Call
  <1>5. CASE TxLoop
    <2>1. machine' = machine
      BY <1>5 DEF TxLoop, TxDequeue, TxDrain, TxWrite, TxWriteFail, TxPost, TxPostEnd, TxSchedule,
                  TxAttach, TxStop
    <2> QED BY <1>2, <2>1
  <1>6. CASE RxComplete
    <2>1. rxok \in BOOLEAN
      BY DEF TypeInv, TypeOK, RxType
    <2> QED BY <1>1, <1>6, <2>1, ForwardComplete DEF RxComplete
  <1>7. CASE (\E r \in Requests, ok \in BOOLEAN : RxResponse(r, ok)) \/ RxFinish \/ RxSend \/ RxStop
    BY <1>2, <1>7 DEF RxResponse, RxFinish, RxSend, RxStop
  <1>8. CASE DlCancel
    BY <1>1, <1>8, ForwardCancel DEF DlCancel
  <1>9. CASE DlExpireReady \/ (\E r \in Requests : DlExpire(r)) \/ DlFinish \/ DlStop
    BY <1>2, <1>9 DEF DlExpireReady, DlExpire, DlFinish, DlStop
  <1>10. CASE TermMachine
    <2>1. machine'.state = "Closed" /\ machine'.pendingLocalBind = NoCommand
      BY <1>10 DEF TermMachine, CloseMachine, NewStateMachine
    <2> QED BY <2>1 DEF Forward, Clear, Rank
  <1>11. CASE \/ Close \/ TermDone \/ TermConn \/ TermFailAll
              \/ (\E r \in Requests : TermDrain(r)) \/ TermEnd
    BY <1>2, <1>11 DEF Close, TermDone, TermConn, TermFailAll, TermDrain, TermEnd
  <1>12. CASE UNCHANGED vars
    BY <1>2, <1>12 DEF vars
  <1> QED BY <1>3, <1>4, <1>5, <1>6, <1>7, <1>8, <1>9, <1>10, <1>11, <1>12
      DEF Next, RxHandle, DlLoop, TermStep

\* A session goes from unbound to bound to closed and never back, whatever rolls back,
\* expires or arrives late: state.go's guards on CompleteOutbound and CancelOutbound
\* suffice, for any number of calls.
THEOREM SessionNeverReopens == Spec => NeverReopens
  <1>1. Init => Clear(machine)
    <2> SUFFICES ASSUME Init PROVE Clear(machine)
      OBVIOUS
    <2>1. PICK role \in InitRoles, s \in InitStates :
            machine = [Open(NewStateMachine(role)) EXCEPT !.state = s]
      BY DEF Init
    <2> QED BY <2>1 DEF Open, NewStateMachine, Clear
  <1>2. TypeInv /\ Clear(machine) /\ [Next]_vars => Clear(machine)'
    BY ForwardStep DEF Forward, Clear
  <1>3. TypeInv /\ Clear(machine) /\ [Next]_vars => [Rank(machine'.state) >= Rank(machine.state)]_machine
    BY ForwardStep DEF Forward
  <1> QED BY <1>1, <1>2, <1>3, TypeInvariant, PTL DEF Spec, NeverReopens

(***************************************************************************)
(* Exactly-once completion of requests.                                    *)
(*                                                                         *)
(* The argument is ownership.  Whoever deletes an entry from the pending   *)
(* table holds a claim on its request until the result is sent: rxLoop,    *)
(* the deadline goroutine, terminate, or a caller inside completeError.    *)
(* Once says that a request has at most one holder, that a claimed or      *)
(* pending request has not been completed, and that a call without a       *)
(* number has never been any of these.                                     *)
(***************************************************************************)

RxClaim == IF rxpc \in {"finish", "complete", "send"} THEN {rxreq} ELSE {}

DlClaim == IF dlpc = "finish" THEN {dlreq} ELSE {}

CallerClaim(q) == IF pc[q] = "finish" THEN {victim[q]} ELSE {}

Claimed(r) == r \in RxClaim \/ r \in DlClaim \/ r \in failing \/ \E q \in Requests : r \in CallerClaim(q)

OneHolder ==
    /\ RxClaim \cap DlClaim = {} /\ RxClaim \cap failing = {} /\ DlClaim \cap failing = {}
    /\ \A q \in Requests : \A x \in CallerClaim(q) :
          /\ x \notin RxClaim /\ x \notin DlClaim /\ x \notin failing
          /\ \A p \in Requests : x \in CallerClaim(p) => p = q

Once ==
    /\ \A r \in Requests : completions[r] \in {0, 1} /\ (seq[r] = 0 => completions[r] = 0)
    /\ \A s \in SeqNumbers : table[s] # None => ~Claimed(table[s]) /\ completions[table[s]] = 0
    /\ \A r \in Requests : Claimed(r) => completions[r] = 0 /\ seq[r] # 0
    /\ OneHolder

\* What Once reads, besides completions and seq: the table and the four kinds of claim.
SameClaims ==
    /\ RxClaim' = RxClaim /\ DlClaim' = DlClaim /\ failing' = failing
    /\ \A q \in Requests : CallerClaim(q)' = CallerClaim(q)

\* Claims name calls.
LEMMA ClaimsAreCalls ==
    ASSUME TypeInv
    PROVE  /\ RxClaim \subseteq Requests /\ DlClaim \subseteq Requests /\ failing \subseteq Requests
           /\ \A q \in Requests : CallerClaim(q) \subseteq Requests
  BY DEF TypeInv, TypeOK, Shape, SessType, CallShape, RxShape, DlShape, RxClaim, DlClaim, CallerClaim

\* The same claims are claims of the same requests, each with one holder as before.
LEMMA ClaimsKept ==
    ASSUME OneHolder, SameClaims
    PROVE  (\A x : Claimed(x)' <=> Claimed(x)) /\ OneHolder'
  <1>1. ASSUME NEW x PROVE Claimed(x)' <=> Claimed(x)
    BY DEF Claimed, SameClaims
  <1>2. RxClaim' \cap DlClaim' = {} /\ RxClaim' \cap failing' = {} /\ DlClaim' \cap failing' = {}
    BY DEF OneHolder, SameClaims
  <1>3. ASSUME NEW q \in Requests, NEW x \in CallerClaim(q)'
        PROVE  /\ x \notin RxClaim' /\ x \notin DlClaim' /\ x \notin failing'
               /\ \A p \in Requests : x \in CallerClaim(p)' => p = q
    BY <1>3 DEF OneHolder, SameClaims
  <1> QED BY <1>1, <1>2, <1>3 DEF OneHolder

\* A step that leaves the table, the claims and the counters alone keeps Once.
LEMMA OnceFrame ==
    ASSUME Once, SameClaims, UNCHANGED <<table, seq, completions>>
    PROVE  Once'
  <1>1. (\A x : Claimed(x)' <=> Claimed(x)) /\ OneHolder'
    BY ClaimsKept DEF Once
  <1> QED BY <1>1 DEF Once

\* request: a fresh number enters the table for a call that holds no claim yet.
LEMMA OnceInsert ==
    ASSUME TypeInv, Once, NEW r \in Requests, Insert(r)
    PROVE  Once'
  <1>1. SameClaims /\ completions' = completions
    BY DEF TypeInv, TypeOK, CallsType, Insert, Goto, Leave, sess, pend, rxv, dlv, SameClaims,
           RxClaim, DlClaim, CallerClaim
  <1>2. seq[r] = 0 /\ NextSequence(nextSeq) \in SeqNumbers
    BY NextSequenceType DEF TypeInv, TypeOK, Shape, TableType, CallShape, Insert
  <1>3. \/ UNCHANGED <<table, seq>>
        \/ table' = table /\ seq' = [seq EXCEPT ![r] = NextSequence(nextSeq)]
        \/ /\ table' = [table EXCEPT ![NextSequence(nextSeq)] = r]
           /\ seq' = [seq EXCEPT ![r] = NextSequence(nextSeq)]
    BY DEF Insert
  <1>4. \A q \in Requests : seq'[q] = 0 => seq[q] = 0
    BY <1>2, <1>3, RequestPathAssumption DEF TypeInv, TypeOK, CallsType, SeqNumbers
  <1>5. \A q \in Requests : seq[q] # 0 => seq'[q] # 0
    BY <1>2, <1>3, RequestPathAssumption DEF TypeInv, TypeOK, CallsType, SeqNumbers
  <1>6. \A s \in SeqNumbers : table'[s] = table[s] \/ table'[s] = r
    BY <1>2, <1>3 DEF TypeInv, TypeOK, TableType
  <1>7. ~Claimed(r) /\ completions[r] = 0
    BY <1>2 DEF Once
  <1>8. (\A x : Claimed(x)' <=> Claimed(x)) /\ OneHolder'
    BY <1>1, ClaimsKept DEF Once
  <1> QED BY <1>1, <1>4, <1>5, <1>6, <1>7, <1>8 DEF Once

\* Deleting an entry: it leaves the table and gains a holder.
LEMMA OnceClaim ==
    ASSUME TypeInv, Once, NEW s \in SeqNumbers, table[s] # None,
           table' = [table EXCEPT ![s] = None], UNCHANGED <<seq, completions, failing>>,
           \/ /\ RxClaim = {} /\ RxClaim' = {table[s]} /\ DlClaim' = DlClaim
              /\ \A q \in Requests : CallerClaim(q)' = CallerClaim(q)
           \/ /\ DlClaim = {} /\ DlClaim' = {table[s]} /\ RxClaim' = RxClaim
              /\ \A q \in Requests : CallerClaim(q)' = CallerClaim(q)
           \/ /\ RxClaim' = RxClaim /\ DlClaim' = DlClaim
              /\ \E r \in Requests :
                    /\ CallerClaim(r) = {} /\ CallerClaim(r)' = {table[s]}
                    /\ \A q \in Requests \ {r} : CallerClaim(q)' = CallerClaim(q)
    PROVE  Once'
  <1>1. table[s] \in Requests /\ seq[table[s]] = s /\ s # 0
    <2>1. TableType /\ TableShape
      BY DEF TypeInv, TypeOK, Shape
    <2> QED BY <2>1, RequestPathAssumption DEF TableType, TableShape, MaybeCall, SeqNumbers
  <1>2. ~Claimed(table[s]) /\ completions[table[s]] = 0
    BY DEF Once
  <1>3. \A r \in Requests : Claimed(r)' => Claimed(r) \/ r = table[s]
    BY DEF Claimed
  <1>4. \A t \in SeqNumbers : table'[t] # None => t # s /\ table'[t] = table[t] /\ table[t] # table[s]
    BY <1>1 DEF TypeInv, TypeOK, Shape, TableType, TableShape
  <1>5. \A t \in SeqNumbers : (table[t] # None => ~Claimed(table[t]) /\ completions[table[t]] = 0)'
    <2> SUFFICES ASSUME NEW t \in SeqNumbers, table'[t] # None
                 PROVE  (~Claimed(table[t]) /\ completions[table[t]] = 0)'
      OBVIOUS
    <2>1. table[t] \in Requests /\ table[t] # table[s] /\ table'[t] = table[t]
      BY <1>4 DEF TypeInv, TypeOK, TableType, MaybeCall
    <2>2. ~Claimed(table[t]) /\ completions[table[t]] = 0
      BY <2>1 DEF Once
    <2> QED BY <2>1, <2>2 DEF Claimed
  <1>6. OneHolder'
    <2>1. OneHolder
      BY DEF Once
    <2>2. /\ table[s] \notin RxClaim /\ table[s] \notin DlClaim /\ table[s] \notin failing
          /\ \A q \in Requests : table[s] \notin CallerClaim(q)
      BY <1>2 DEF Claimed
    <2>3. RxClaim' \cap DlClaim' = {} /\ RxClaim' \cap failing' = {} /\ DlClaim' \cap failing' = {}
      BY <2>1, <2>2 DEF OneHolder
    <2>4. ASSUME NEW q \in Requests, NEW x \in CallerClaim(q)'
          PROVE  /\ x \notin RxClaim' /\ x \notin DlClaim' /\ x \notin failing'
                 /\ \A h \in Requests : x \in CallerClaim(h)' => h = q
      BY <2>1, <2>2, <2>4 DEF OneHolder
    <2> QED BY <2>3, <2>4 DEF OneHolder
  <1> QED BY <1>1, <1>2, <1>3, <1>5, <1>6 DEF Once

\* Sending the result: the holder gives its claim up and the count becomes 1.
LEMMA OnceRelease ==
    ASSUME TypeInv, Once, NEW x \in Requests, Claimed(x), ~Claimed(x)',
           UNCHANGED <<table, seq>>, completions' = [completions EXCEPT ![x] = @ + 1],
           RxClaim' \subseteq RxClaim, DlClaim' \subseteq DlClaim, failing' \subseteq failing,
           \A q \in Requests : CallerClaim(q)' \subseteq CallerClaim(q)
    PROVE  Once'
  <1>1. completions[x] = 0 /\ seq[x] # 0
    BY DEF Once
  <1>2. completions'[x] = 1 /\ \A r \in Requests \ {x} : completions'[r] = completions[r]
    BY <1>1 DEF TypeInv, TypeOK, PendType
  <1>3. \A r \in Requests : Claimed(r)' => Claimed(r) /\ r # x
    BY DEF Claimed
  <1>4. \A s \in SeqNumbers : table[s] # None => table[s] \in Requests /\ table[s] # x
    BY DEF Once, TypeInv, TypeOK, TableType, MaybeCall
  <1>5. OneHolder'
    BY DEF Once, OneHolder
  <1> QED BY <1>1, <1>2, <1>3, <1>4, <1>5 DEF Once

\* Steps of a call that neither insert an entry nor complete one.
LEMMA OnceCallQuiet ==
    ASSUME TypeInv, Once, NEW r \in Requests,
           \/ CancelContext(r) \/ Acquire(r) \/ AcquireWait(r) \/ Begin(r) \/ Unwind(r)
           \/ WaitCompleted(r) \/ \E c \in Commands : Call(r, c)
    PROVE  Once'
  <1>1. UNCHANGED <<sess, table, seq, victim, completions, rxv, dlv>>
    BY DEF CancelContext, Acquire, AcquireWait, Begin, Unwind, WaitCompleted, Call, pend
  <1>2. \/ pc' = pc
        \/ pc[r] # "finish" /\ \E x \in CallStates \ {"finish"} : pc' = [pc EXCEPT ![r] = x]
    BY DEF CancelContext, Acquire, AcquireWait, Begin, Unwind, WaitCompleted, Call, Goto, Leave, CallStates
  <1>3. SameClaims
    BY <1>1, <1>2 DEF TypeInv, TypeOK, CallsType, SameClaims, RxClaim, DlClaim, CallerClaim, sess, rxv, dlv
  <1> QED BY <1>1, <1>3, OnceFrame

\* A call that may run completeError on its own entry.
LEMMA OnceCaller ==
    ASSUME TypeInv, Once, NEW r \in Requests, Encode(r) \/ Enqueue(r) \/ Await(r)
    PROVE  Once'
  <1>1. UNCHANGED <<sess, seq, completions, rxv, dlv>> /\ pc[r] # "finish"
    BY DEF Encode, Enqueue, Await, pend
  <1>2. seq[r] \in SeqNumbers
    BY DEF Encode, Enqueue, Await, CallShape, TypeInv, Shape
  <1>3. \/ /\ table' = table /\ victim' = victim
           /\ \E x \in CallStates \ {"finish"} : pc' = [pc EXCEPT ![r] = x]
        \/ /\ table[seq[r]] # None /\ table' = [table EXCEPT ![seq[r]] = None]
           /\ victim' = [victim EXCEPT ![r] = table[seq[r]]] /\ pc' = [pc EXCEPT ![r] = "finish"]
    BY Zenon DEF Encode, Enqueue, Await, CompleteByCaller, Remove, Goto, Leave, CallStates
  <1>4. RxClaim' = RxClaim /\ DlClaim' = DlClaim /\ failing' = failing
    BY <1>1 DEF RxClaim, DlClaim, sess, rxv, dlv
  <1>5. CASE table' = table /\ victim' = victim /\ \E x \in CallStates \ {"finish"} : pc' = [pc EXCEPT ![r] = x]
    <2>1. SameClaims
      BY <1>1, <1>4, <1>5 DEF TypeInv, TypeOK, CallsType, SameClaims, CallerClaim
    <2> QED BY <1>1, <1>5, <2>1, OnceFrame
  <1>6. CASE /\ table[seq[r]] # None /\ table' = [table EXCEPT ![seq[r]] = None]
             /\ victim' = [victim EXCEPT ![r] = table[seq[r]]] /\ pc' = [pc EXCEPT ![r] = "finish"]
    <2>1. /\ CallerClaim(r) = {} /\ CallerClaim(r)' = {table[seq[r]]}
          /\ \A q \in Requests \ {r} : CallerClaim(q)' = CallerClaim(q)
      BY <1>1, <1>6 DEF TypeInv, TypeOK, CallsType, CallerClaim
    <2> QED BY <1>1, <1>2, <1>4, <1>6, <2>1, OnceClaim
  <1> QED BY <1>3, <1>5, <1>6

\* rxLoop takes a response, the deadline goroutine expires an item.
LEMMA OnceTake ==
    ASSUME TypeInv, Once, NEW r \in Requests, DlExpire(r) \/ \E ok \in BOOLEAN : RxResponse(r, ok)
    PROVE  Once'
  <1>1. seq[r] \in SeqNumbers
    BY DEF TypeInv, Shape, TxShape, DlShape, DlExpire, RxResponse
  <1>2. UNCHANGED <<sess, calls, completions>>
    BY DEF DlExpire, RxResponse, pend
  <1>3. \A q \in Requests : CallerClaim(q)' = CallerClaim(q)
    BY <1>2 DEF CallerClaim, calls
  <1>4. CASE DlExpire(r)
    <2>1. RxClaim' = RxClaim /\ DlClaim = {}
      BY <1>4 DEF DlExpire, RxClaim, DlClaim, rxv
    <2>2. CASE table[seq[r]] = None
      <3>1. SameClaims /\ table' = table
        BY <1>2, <1>3, <1>4, <2>1, <2>2 DEF DlExpire, SameClaims, DlClaim, sess
      <3> QED BY <1>2, <3>1, OnceFrame DEF calls
    <2>3. CASE table[seq[r]] # None
      <3>1. DlClaim' = {table[seq[r]]} /\ table' = [table EXCEPT ![seq[r]] = None]
        BY <1>4, <2>3 DEF DlExpire, DlClaim, Remove
      <3> QED BY <1>1, <1>2, <1>3, <2>1, <2>3, <3>1, OnceClaim DEF sess, calls
    <2> QED BY <2>2, <2>3
  <1>5. CASE \E ok \in BOOLEAN : RxResponse(r, ok)
    <2>1. /\ DlClaim' = DlClaim /\ RxClaim = {} /\ RxClaim' = {table[seq[r]]}
          /\ table[seq[r]] # None /\ table' = [table EXCEPT ![seq[r]] = None]
      BY <1>5 DEF RxResponse, RxClaim, DlClaim, Remove, dlv
    <2> QED BY <1>1, <1>2, <1>3, <2>1, OnceClaim DEF sess, calls
  <1> QED BY <1>4, <1>5

\* A holder sends the result.
LEMMA OnceSend ==
    ASSUME TypeInv, Once,
           \/ RxSend \/ DlFinish
           \/ \E r \in Requests : TermDrain(r) \/ CallerFinish(r)
    PROVE  Once'
  <1>1. CASE RxSend
    <2>1. RxClaim = {rxreq} /\ RxClaim' = {} /\ rxreq \in Requests
      BY <1>1 DEF RxSend, RxClaim, TypeInv, Shape, RxShape
    <2>2. DlClaim' = DlClaim /\ failing' = failing /\ \A q \in Requests : CallerClaim(q)' = CallerClaim(q)
      BY <1>1 DEF RxSend, DlClaim, CallerClaim, calls, dlv
    <2>3. completions' = [completions EXCEPT ![rxreq] = @ + 1] /\ UNCHANGED <<table, seq>>
      BY <1>1 DEF RxSend, Send, calls
    <2>4. Claimed(rxreq)
      BY <2>1 DEF Claimed
    <2>5. \A x \in Requests : x = rxreq => ~Claimed(x)'
      BY <2>1, <2>2 DEF Claimed, Once, OneHolder
    <2> QED BY <2>1, <2>2, <2>3, <2>4, <2>5, OnceRelease
  <1>2. CASE DlFinish
    <2>1. DlClaim = {dlreq} /\ DlClaim' = {} /\ dlreq \in Requests
      BY <1>2 DEF DlFinish, DlClaim, TypeInv, Shape, DlShape
    <2>2. RxClaim' = RxClaim /\ failing' = failing /\ \A q \in Requests : CallerClaim(q)' = CallerClaim(q)
      BY <1>2 DEF DlFinish, RxClaim, CallerClaim, calls, rxv, sess
    <2>3. completions' = [completions EXCEPT ![dlreq] = @ + 1] /\ UNCHANGED <<table, seq>>
      BY <1>2 DEF DlFinish, Send, calls
    <2>4. Claimed(dlreq)
      BY <2>1 DEF Claimed
    <2>5. \A x \in Requests : x = dlreq => ~Claimed(x)'
      BY <2>1, <2>2 DEF Claimed, Once, OneHolder
    <2> QED BY <2>1, <2>2, <2>3, <2>4, <2>5, OnceRelease
  <1>3. ASSUME NEW r \in Requests, TermDrain(r) PROVE Once'
    <2>1. r \in failing /\ failing' = failing \ {r}
      BY <1>3 DEF TermDrain
    <2>2. RxClaim' = RxClaim /\ DlClaim' = DlClaim /\ \A q \in Requests : CallerClaim(q)' = CallerClaim(q)
      BY <1>3 DEF TermDrain, RxClaim, DlClaim, CallerClaim, calls, rxv, dlv
    <2>3. completions' = [completions EXCEPT ![r] = @ + 1] /\ UNCHANGED <<table, seq>>
      BY <1>3 DEF TermDrain, Send, calls
    <2>4. Claimed(r) /\ ~Claimed(r)'
      BY <2>1, <2>2 DEF Claimed, Once, OneHolder
    <2> QED BY <2>1, <2>2, <2>3, <2>4, OnceRelease
  <1>4. ASSUME NEW r \in Requests, CallerFinish(r) PROVE Once'
    <2>1. CallerClaim(r) = {victim[r]} /\ CallerClaim(r)' = {} /\ victim[r] \in Requests
      BY <1>4 DEF CallerFinish, Goto, CallerClaim, TypeInv, TypeOK, CallsType, Shape, CallShape
    <2>2. /\ RxClaim' = RxClaim /\ DlClaim' = DlClaim /\ failing' = failing
          /\ \A q \in Requests \ {r} : CallerClaim(q)' = CallerClaim(q)
      BY <1>4 DEF CallerFinish, Goto, RxClaim, DlClaim, CallerClaim, TypeInv, TypeOK, CallsType, sess, rxv, dlv
    <2>3. completions' = [completions EXCEPT ![victim[r]] = @ + 1] /\ UNCHANGED <<table, seq>>
      BY <1>4 DEF CallerFinish, Send
    <2>4. Claimed(victim[r])
      BY <2>1 DEF Claimed
    <2>5. ASSUME NEW x \in Requests, x = victim[r] PROVE ~Claimed(x)'
      <3>1. x \in CallerClaim(r)
        BY <2>1, <2>5
      <3>2. x \notin RxClaim /\ x \notin DlClaim /\ x \notin failing
        BY <3>1 DEF Once, OneHolder
      <3>3. \A q \in Requests : q # r => x \notin CallerClaim(q)
        BY <3>1 DEF Once, OneHolder
      <3>4. \A q \in Requests : x \notin CallerClaim(q)'
        BY <2>1, <2>2, <3>3
      <3> QED BY <2>2, <3>2, <3>4 DEF Claimed
    <2> QED BY <2>1, <2>2, <2>3, <2>4, <2>5, OnceRelease
  <1> QED BY <1>1, <1>2, <1>3, <1>4

\* Steps of txLoop, and the control steps of the other goroutines.
LEMMA OnceQuiet ==
    ASSUME TypeInv, Once,
           \/ TxLoop \/ RxFinish \/ RxComplete \/ RxStop \/ DlExpireReady \/ DlCancel \/ DlStop
           \/ Close \/ TermMachine \/ TermDone \/ TermConn \/ TermEnd
    PROVE  Once'
  <1>1. CASE TxLoop
    <2>1. UNCHANGED <<failing, table, calls, completions, rxv, dlpc, dlreq>>
      BY <1>1 DEF TxLoop, TxDequeue, TxDrain, TxWrite, TxWriteFail, TxPost, TxPostEnd, TxSchedule,
                  TxAttach, TxStop, sess, pend, dlv
    <2> QED BY <2>1, OnceFrame DEF SameClaims, RxClaim, DlClaim, CallerClaim, calls, rxv
  <1>2. CASE RxFinish \/ RxComplete \/ RxStop
    <2>1. UNCHANGED <<failing, table, calls, completions, rxreq, dlv>>
      BY <1>2 DEF RxFinish, RxComplete, RxStop, sess, pend
    <2>2. RxClaim' = RxClaim
      BY <1>2 DEF RxFinish, RxComplete, RxStop, RxClaim
    <2> QED BY <2>1, <2>2, OnceFrame DEF SameClaims, DlClaim, CallerClaim, calls, dlv
  <1>3. CASE DlExpireReady \/ DlCancel \/ DlStop
    <2>1. UNCHANGED <<failing, table, calls, completions, rxv>>
      BY <1>3 DEF DlExpireReady, DlCancel, DlStop, sess, pend
    <2>2. DlClaim' = DlClaim
      BY <1>3 DEF DlExpireReady, DlCancel, DlStop, DlClaim
    <2> QED BY <2>1, <2>2, OnceFrame DEF SameClaims, RxClaim, CallerClaim, calls, rxv
  <1>4. CASE Close \/ TermMachine \/ TermDone \/ TermConn \/ TermEnd
    <2>1. UNCHANGED <<failing, table, calls, completions, rxv, dlv>>
      BY <1>4 DEF Close, TermMachine, TermDone, TermConn, TermEnd, pend
    <2> QED BY <2>1, OnceFrame DEF SameClaims, RxClaim, DlClaim, CallerClaim, calls, rxv, dlv
  <1> QED BY <1>1, <1>2, <1>3, <1>4

\* failAll: every entry of the table becomes a claim of terminate.
LEMMA OnceFailAll ==
    ASSUME TypeInv, Once, TermFailAll
    PROVE  Once'
  <1>1. /\ RxClaim' = RxClaim /\ DlClaim' = DlClaim /\ UNCHANGED <<seq, completions>>
        /\ \A q \in Requests : CallerClaim(q)' = CallerClaim(q)
    BY DEF TermFailAll, RxClaim, DlClaim, CallerClaim, calls, pend, rxv, dlv
  <1>2. \A s \in SeqNumbers : table'[s] = None
    BY DEF TermFailAll
  <1>3. \A x \in failing' : \E s \in SeqNumbers : x = table[s] /\ table[s] # None
    BY DEF TermFailAll, Pending
  <1>4. \A x \in failing' : ~Claimed(x) /\ completions[x] = 0 /\ seq[x] # 0
    <2> SUFFICES ASSUME NEW x \in failing' PROVE ~Claimed(x) /\ completions[x] = 0 /\ seq[x] # 0
      OBVIOUS
    <2>1. PICK s \in SeqNumbers : x = table[s] /\ table[s] # None
      BY <1>3
    <2>2. seq[x] = s /\ s # 0
      BY <2>1, RequestPathAssumption DEF TypeInv, Shape, TableShape, SeqNumbers
    <2> QED BY <2>1, <2>2 DEF Once
  <1>5. \A x \in failing' : x \notin RxClaim /\ x \notin DlClaim /\ \A q \in Requests : x \notin CallerClaim(q)
    BY <1>4 DEF Claimed
  <1>6. OneHolder'
    <2>1. OneHolder
      BY DEF Once
    <2>2. RxClaim' \cap DlClaim' = {} /\ RxClaim' \cap failing' = {} /\ DlClaim' \cap failing' = {}
      BY <1>1, <1>5, <2>1 DEF OneHolder
    <2>3. ASSUME NEW q \in Requests, NEW x \in CallerClaim(q)'
          PROVE  /\ x \notin RxClaim' /\ x \notin DlClaim' /\ x \notin failing'
                 /\ \A h \in Requests : x \in CallerClaim(h)' => h = q
      BY <1>1, <1>5, <2>1, <2>3 DEF OneHolder
    <2> QED BY <2>2, <2>3 DEF OneHolder
  <1>7. \A r \in Requests : Claimed(r)' => Claimed(r) \/ r \in failing'
    BY <1>1 DEF Claimed
  <1> QED BY <1>1, <1>2, <1>4, <1>6, <1>7 DEF Once

\* Initially nothing is registered and nothing is claimed.
LEMMA OnceInit == Init => Once
  BY DEF Init, Once, OneHolder, Claimed, RxClaim, DlClaim, CallerClaim

\* Each step of each goroutine keeps Once; one case per action.
LEMMA OnceStep == TypeInv /\ Once /\ [Next]_vars => Once'
  <1> SUFFICES ASSUME TypeInv, Once, [Next]_vars PROVE Once'
    OBVIOUS
  <1>1. ASSUME NEW r \in Requests, CallStep(r) \/ CancelContext(r) \/ \E c \in Commands : Call(r, c)
        PROVE  Once'
    BY <1>1, OnceCallQuiet, OnceInsert, OnceCaller, OnceSend DEF CallStep
  <1>2. ASSUME NEW r \in Requests, NEW ok \in BOOLEAN, RxResponse(r, ok) PROVE Once'
    BY <1>2, OnceTake
  <1>3. CASE TxLoop \/ RxHandle \/ RxStop
    BY <1>3, OnceQuiet, OnceSend DEF RxHandle
  <1>4. CASE DlLoop
    BY <1>4, OnceQuiet, OnceTake, OnceSend DEF DlLoop
  <1>5. CASE Close \/ TermStep
    BY <1>5, OnceQuiet, OnceFailAll, OnceSend DEF TermStep
  <1>6. CASE UNCHANGED vars
    <2>1. UNCHANGED <<failing, table, calls, completions, rxv, dlv>>
      BY <1>6 DEF vars, sess, pend
    <2> QED BY <2>1, OnceFrame DEF SameClaims, RxClaim, DlClaim, CallerClaim, calls, rxv, dlv
  <1> QED BY <1>1, <1>2, <1>3, <1>4, <1>5, <1>6 DEF Next

\* Once holds in every reachable state.
LEMMA OnceInvariant == Spec => []Once
  <1>1. TypeInv /\ Once /\ [Next]_vars => Once'
    BY OnceStep
  <1> QED BY <1>1, OnceInit, TypeInvariant, PTL DEF Spec

\* Every request is completed at most once, and one that is still in the pending
\* table not at all: the race of takeResponse, completeError (caller, deadline) and
\* failAll has a single winner, for any number of calls and any sequence space.
THEOREM CompletedOnce == Spec => []ExactlyOnce
  <1>1. Once => ExactlyOnce
    BY DEF Once, ExactlyOnce, Pending
  <1> QED BY <1>1, OnceInvariant, PTL
=============================================================================
