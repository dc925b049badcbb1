------------------------ MODULE RequestServiceProofs ------------------------
(***************************************************************************)
(* RequestPath implements RequestService, for any number of calls and any  *)
(* sizes.  Each action of RequestPath moves at most one call from one      *)
(* phase to the next or completes one call; the invariants of the window   *)
(* and of the completions give the guards of the abstract action.          *)
(***************************************************************************)
EXTENDS RequestWindowProofs

\* Between takeResponse and the send to the caller the request is a finished one.
RxSettled == rxpc \in {"complete", "send"} => rxreq \in finished /\ TwoWay(rxreq)

\* Where a call is that owns a slot, and where one is that no longer can.
LEMMA PhaseOf ==
    ASSUME TypeInv, NEW r \in Requests
    PROVE  /\ (Phase(r) = "held") <=> OwnsSlot(r)
           /\ ~TwoWay(r) => Phase(r) = "outside"
           /\ TwoWay(r) /\ seq[r] # 0 => Phase(r) = IF r \in finished THEN "settled" ELSE "held"
           /\ TwoWay(r) /\ seq[r] = 0 =>
                 Phase(r) = IF pc[r] \in {"begin", "insert", "release", "unwind"} THEN "held"
                            ELSE IF pc[r] = "returned" THEN "declined" ELSE "outside"
  <1>1. seq[r] # 0 => pc[r] \notin {"begin", "insert", "release", "unwind"}
    BY DEF TypeInv, Shape, CallShape
  <1> QED BY <1>1 DEF Phase, OwnsSlot, TwoWay

\* A step that moves no call and completes none is a stuttering step of the service.
LEMMA ServiceStutter ==
    ASSUME \A q \in Requests : Phase(q)' = Phase(q), completions' = completions
    PROVE  UNCHANGED Service!vars
  BY DEF Service!vars

\* The calls that hold a place in the service are the owners of slots.
LEMMA HeldAreOwners ==
    ASSUME TypeInv
    PROVE  Service!Held = Owners
  BY PhaseOf DEF Service!Held, Owners

\* One call moves from outside into the window.
LEMMA ServiceAdmit ==
    ASSUME TypeInv, Slots, NEW r \in Requests, Phase(r) = "outside", Phase(r)' = "held",
           tokens < WindowSize, completions' = completions,
           \A q \in Requests \ {r} : Phase(q)' = Phase(q)
    PROVE  Service!Next
  <1>1. Service!Cardinality(Service!Held) < WindowSize
    BY HeldAreOwners DEF Slots, Service!Cardinality, Cardinality
  <1>2. Service!Admit(r)
    BY <1>1 DEF Service!Admit, Service!Move
  <1> QED BY <1>2 DEF Service!Next

\* One call leaves without having been registered.
LEMMA ServiceDecline ==
    ASSUME NEW r \in Requests, Phase(r) \in {"outside", "held"}, Phase(r)' = "declined",
           completions' = completions, \A q \in Requests \ {r} : Phase(q)' = Phase(q)
    PROVE  Service!Next
  <1>1. Service!Decline(r)
    BY DEF Service!Decline, Service!Move
  <1> QED BY <1>1 DEF Service!Next

\* One call's place is freed, and perhaps its result sent in the same step.
LEMMA ServiceSettle ==
    ASSUME TypeInv, NEW r \in Requests, Phase(r) = "held", Phase(r)' = "settled",
           \A q \in Requests \ {r} : Phase(q)' = Phase(q),
           \/ completions' = completions
           \/ completions[r] = 0 /\ completions' = [completions EXCEPT ![r] = @ + 1]
    PROVE  Service!Next
  <1>1. completions \in [Requests -> Nat]
    BY DEF TypeInv, TypeOK, PendType
  <1>2. CASE completions' = completions
    <2>1. Service!Settle(r)
      BY <1>2 DEF Service!Settle, Service!Move
    <2> QED BY <2>1 DEF Service!Next
  <1>3. CASE completions[r] = 0 /\ completions' = [completions EXCEPT ![r] = @ + 1]
    <2>1. {q \in Requests : completions[q] > 0}' = {q \in Requests : completions[q] > 0} \cup {r}
      BY <1>1, <1>3
    <2>2. r \notin {q \in Requests : completions[q] > 0}
      BY <1>1, <1>3
    <2>3. Service!SettleAndComplete(r)
      BY <2>1, <2>2, Zenon DEF Service!SettleAndComplete, Service!Move
    <2> QED BY <2>3 DEF Service!Next
  <1> QED BY <1>2, <1>3

\* The result of a settled call is sent.
LEMMA ServiceComplete ==
    ASSUME TypeInv, NEW r \in Requests, Phase(r) = "settled", completions[r] = 0,
           completions' = [completions EXCEPT ![r] = @ + 1],
           \A q \in Requests : Phase(q)' = Phase(q)
    PROVE  Service!Next
  <1>1. completions \in [Requests -> Nat]
    BY DEF TypeInv, TypeOK, PendType
  <1>2. {q \in Requests : completions[q] > 0}' = {q \in Requests : completions[q] > 0} \cup {r}
    BY <1>1
  <1>3. Service!Complete(r)
    BY <1>2 DEF Service!Complete
  <1> QED BY <1>3 DEF Service!Next

\* A step that changes nothing a phase is read from.
LEMMA PhaseFrame ==
    ASSUME UNCHANGED <<cmd, seq, finished>>, NEW q \in Requests, pc'[q] = pc[q]
    PROVE  Phase(q)' = Phase(q)
  BY DEF Phase, OwnsSlot

\* Call, the window and the state machine's answer: a call enters the window or leaves.
LEMMA ServiceAdmission ==
    ASSUME TypeInv, TypeInv', Slots, Slots', NEW r \in Requests,
           \/ CancelContext(r) \/ Acquire(r) \/ AcquireWait(r) \/ Begin(r) \/ Unwind(r)
           \/ \E c \in Commands : Call(r, c)
    PROVE  [Service!Next]_Service!vars
  <1>1. UNCHANGED <<seq, finished, completions>> /\ pc \in [Requests -> CallStates]
        /\ cmd \in [Requests -> Commands \cup {NoCommand}]
    BY DEF CancelContext, Acquire, AcquireWait, Begin, Unwind, Call, pend, TypeInv, TypeOK, CallsType
  <1>2. \A q \in Requests \ {r} : Phase(q)' = Phase(q)
    <2>1. \A q \in Requests \ {r} : pc'[q] = pc[q] /\ cmd'[q] = cmd[q]
      BY <1>1 DEF CancelContext, Acquire, AcquireWait, Begin, Unwind, Call, Goto, Leave
    <2> QED BY <1>1, <2>1 DEF Phase, OwnsSlot
  <1>3. CASE \E c \in Commands : Call(r, c)
    <2>1. PICK c \in Commands : Call(r, c)
      BY <1>3
    <2>2. /\ pc[r] = "idle" /\ seq[r] = 0 /\ cmd'[r] = c
          /\ pc'[r] = "returned" \/ pc'[r] = IF isOneWayCommand(c) THEN "begin" ELSE "acquire"
      <3>1. pc[r] = "idle" /\ seq[r] = 0
        BY <2>1 DEF Call, TypeInv, Shape, CallShape
      <3> QED BY <1>1, <2>1, <3>1 DEF Call, Goto, Leave
    <2>3. Phase(r) = "outside" /\ Phase(r)' \in {"outside", "declined"}
      BY <1>1, <2>2 DEF Phase, OwnsSlot
    <2> QED BY <1>1, <1>2, <2>3, ServiceStutter, ServiceDecline
  <1>4. CASE Acquire(r) \/ AcquireWait(r)
    <2>1. /\ TwoWay(r) /\ seq[r] = 0 /\ cmd' = cmd /\ pc[r] \in {"acquire", "waiting"}
          /\ \/ tokens < WindowSize /\ pc'[r] = "begin"
             \/ pc'[r] \in {"returned", "waiting"}
      BY <1>1, <1>4 DEF Acquire, AcquireWait, Goto, Leave, TypeInv, Shape, CallShape, Slots, CallSlot
    <2>2. Phase(r) = "outside" /\ (\/ tokens < WindowSize /\ Phase(r)' = "held"
                                  \/ Phase(r)' \in {"outside", "declined"})
      BY <1>1, <2>1 DEF Phase, OwnsSlot, TwoWay
    <2> QED BY <1>1, <1>2, <2>2, ServiceStutter, ServiceDecline, ServiceAdmit
  <1>5. CASE CancelContext(r) \/ Begin(r) \/ Unwind(r)
    <2>1. /\ cmd' = cmd /\ cmd[r] \in Commands \cup {NoCommand}
          /\ \/ pc'[r] = pc[r]
             \/ /\ pc[r] \in {"begin", "unwind"} /\ seq[r] = 0
                /\ pc'[r] \in {"insert", "release"} \/ (pc'[r] = "returned" /\ isOneWayCommand(cmd[r]))
             \/ pc[r] = "cancel" /\ pc'[r] = "returned"
             \/ pc[r] = "release" /\ seq[r] = 0 /\ pc'[r] = "returned"
      BY <1>1, <1>5 DEF CancelContext, Begin, Unwind, Goto, Leave, TypeInv, Shape, CallShape
    <2>2. CASE seq[r] = 0
      <3>1. \/ Phase(r)' = Phase(r)
            \/ Phase(r) \in {"outside", "held"} /\ Phase(r)' = "declined"
        BY <1>1, <2>1, <2>2 DEF Phase, OwnsSlot
      <3> QED BY <1>1, <1>2, <3>1, ServiceStutter, ServiceDecline
    <2>3. CASE seq[r] # 0
      <3>1. Phase(r)' = Phase(r)
        BY <1>1, <2>1, <2>3 DEF Phase, OwnsSlot
      <3> QED BY <1>1, <1>2, <3>1, ServiceStutter
    <2> QED BY <2>2, <2>3
  <1> QED BY <1>3, <1>4, <1>5

\* A call that has its place and goes on to register, send and wait keeps its phase.
LEMMA ServiceCaller ==
    ASSUME TypeInv, TypeInv', Slots, NEW r \in Requests,
           Insert(r) \/ Encode(r) \/ Enqueue(r) \/ Await(r) \/ WaitCompleted(r)
    PROVE  UNCHANGED Service!vars
  <1>1. /\ UNCHANGED <<cmd, finished, completions>> /\ pc \in [Requests -> CallStates]
        /\ seq \in [Requests -> 0..MaxSequence] /\ seq' \in [Requests -> 0..MaxSequence]
    BY DEF Insert, Encode, Enqueue, Await, WaitCompleted, pend, TypeInv, TypeOK, CallsType
  <1>2. \A q \in Requests \ {r} : pc'[q] = pc[q] /\ seq'[q] = seq[q]
    BY <1>1 DEF Insert, Encode, Enqueue, Await, WaitCompleted, CompleteByCaller, Goto, Leave
  <1>3. \A q \in Requests \ {r} : Phase(q)' = Phase(q)
    BY <1>1, <1>2 DEF Phase, OwnsSlot
  <1>4. Phase(r)' = Phase(r)
    <2>1. CASE Insert(r)
      <3>1. seq[r] = 0 /\ r \notin finished /\ cmd[r] # NoCommand /\ pc[r] = "insert"
        BY <2>1 DEF Insert, TypeInv, Shape, CallShape, Slots, CallSlot
      <3>2. pc'[r] \in {"encode", "insert", "unwind"}
        BY <1>1, <2>1 DEF Insert, Goto, Leave
      <3>3. IF pc'[r] = "encode" THEN seq'[r] \in SeqNumbers ELSE seq'[r] = 0
        <4>1. CallShape'
          BY DEF TypeInv, Shape
        <4> QED BY <3>2, <4>1 DEF CallShape, SeqNumbers
      <3>4. IF pc'[r] = "encode" THEN seq'[r] # 0 ELSE seq'[r] = 0
        BY <3>3, RequestPathAssumption DEF SeqNumbers
      <3> QED BY <1>1, <3>1, <3>2, <3>4 DEF Phase, OwnsSlot
    <2>2. CASE Encode(r) \/ Enqueue(r) \/ Await(r) \/ WaitCompleted(r)
      <3>1. seq' = seq /\ pc[r] \in {"encode", "enqueue", "await", "completed"}
        BY <2>2 DEF Encode, Enqueue, Await, WaitCompleted
      <3>2. pc'[r] \in {"enqueue", "await", "completed", "finish", "cancel", "returned"}
        BY <1>1, <2>2 DEF Encode, Enqueue, Await, WaitCompleted, CompleteByCaller, Goto, Leave
      <3>3. seq[r] \in SeqNumbers
        <4>1. CallShape
          BY DEF TypeInv, Shape
        <4> QED BY <3>1, <4>1 DEF CallShape
      <3>4. seq[r] # 0
        BY <3>3, RequestPathAssumption DEF SeqNumbers
      <3> QED BY <1>1, <3>1, <3>2, <3>4 DEF Phase, OwnsSlot
    <2> QED BY <2>1, <2>2
  <1> QED BY <1>1, <1>3, <1>4, ServiceStutter

\* finish run by the goroutine that claimed a request: the request was in flight, so it
\* held a place, and the place is free afterwards.
LEMMA SettleByFinish ==
    ASSUME TypeInv, TypeInv', Once, Slots, NEW x \in Requests, InFlight(x), Finish(x),
           UNCHANGED <<cmd, seq>>,
           \A q \in Requests : pc'[q] = pc[q] \/ (pc[q] = "finish" /\ pc'[q] = "cancel")
    PROVE  /\ Phase(x) = "held" /\ Phase(x)' = "settled"
           /\ \A q \in Requests \ {x} : Phase(q)' = Phase(q)
  <1>1. TwoWay(x) /\ x \notin finished
    BY DEF Slots, CallSlot
  <1>2. seq[x] # 0
    BY NoNumberNoFlight
  <1>3. finished' = finished \cup {x}
    BY <1>1 DEF Finish
  <1>4. \A q \in Requests \ {x} : Phase(q)' = Phase(q)
    <2> SUFFICES ASSUME NEW q \in Requests \ {x} PROVE Phase(q)' = Phase(q)
      OBVIOUS
    <2>1. pc'[q] = pc[q] \/ (pc[q] = "finish" /\ pc'[q] = "cancel" /\ seq[q] # 0)
      <3>1. CallShape
        BY DEF TypeInv, Shape
      <3> QED BY <3>1, RequestPathAssumption DEF CallShape, SeqNumbers
    <2> QED BY <1>3, <2>1 DEF Phase, OwnsSlot
  <1>5. Phase(x) = "held"
    BY <1>1, <1>2 DEF Phase, OwnsSlot, TwoWay
  <1>6. pc'[x] \notin {"begin", "insert", "release", "unwind"}
    BY <1>2 DEF TypeInv, Shape, CallShape
  <1>7. Phase(x)' = "settled"
    BY <1>1, <1>2, <1>3, <1>6 DEF Phase, OwnsSlot, TwoWay
  <1> QED BY <1>4, <1>5, <1>7

\* Who completes a request frees its place first or at the same moment.
LEMMA ServiceFinish ==
    ASSUME TypeInv, TypeInv', Once, Slots,
           \/ RxFinish \/ DlFinish
           \/ \E r \in Requests : TermDrain(r) \/ CallerFinish(r)
    PROVE  Service!Next
  <1>1. CASE RxFinish
    <2>1. rxreq \in Requests /\ InFlight(rxreq) /\ Finish(rxreq) /\ UNCHANGED <<cmd, seq, pc, completions>>
      BY <1>1 DEF RxFinish, TypeInv, Shape, RxShape, InFlight, RxUnfinished, calls
    <2> QED BY <2>1, SettleByFinish, ServiceSettle
  <1>2. CASE DlFinish
    <2>1. /\ dlreq \in Requests /\ InFlight(dlreq) /\ Claimed(dlreq) /\ Finish(dlreq)
          /\ UNCHANGED <<cmd, seq, pc>> /\ completions' = [completions EXCEPT ![dlreq] = @ + 1]
      BY <1>2 DEF DlFinish, TypeInv, Shape, DlShape, InFlight, Claimed, DlClaim, Send, calls
    <2>2. completions[dlreq] = 0
      BY <2>1 DEF Once
    <2> QED BY <2>1, <2>2, SettleByFinish, ServiceSettle
  <1>3. ASSUME NEW r \in Requests, TermDrain(r) PROVE Service!Next
    <2>1. /\ InFlight(r) /\ Claimed(r) /\ Finish(r)
          /\ UNCHANGED <<cmd, seq, pc>> /\ completions' = [completions EXCEPT ![r] = @ + 1]
      BY <1>3 DEF TermDrain, InFlight, Claimed, Send, calls
    <2>2. completions[r] = 0
      BY <2>1 DEF Once
    <2> QED BY <2>1, <2>2, SettleByFinish, ServiceSettle
  <1>4. ASSUME NEW r \in Requests, CallerFinish(r) PROVE Service!Next
    <2>1. /\ victim[r] \in Requests /\ InFlight(victim[r]) /\ Claimed(victim[r]) /\ Finish(victim[r])
          /\ UNCHANGED <<cmd, seq>> /\ completions' = [completions EXCEPT ![victim[r]] = @ + 1]
      BY <1>4 DEF CallerFinish, TypeInv, Shape, CallShape, InFlight, Claimed, CallerClaim, Send
    <2>2. completions[victim[r]] = 0
      BY <2>1 DEF Once
    <2>3. \A q \in Requests : pc'[q] = pc[q] \/ (pc[q] = "finish" /\ pc'[q] = "cancel")
      BY <1>4 DEF CallerFinish, Goto, TypeInv, TypeOK, CallsType
    <2> QED BY <2>1, <2>2, <2>3, SettleByFinish, ServiceSettle
  <1> QED BY <1>1, <1>2, <1>3, <1>4

\* handleResponse sends the result of a request that takeResponse has finished.
LEMMA ServiceRxSend ==
    ASSUME TypeInv, Once, RxSettled, RxSend
    PROVE  Service!Next
  <1>1. /\ rxreq \in Requests /\ rxreq \in finished /\ TwoWay(rxreq) /\ Claimed(rxreq)
        /\ UNCHANGED <<cmd, seq, pc, finished>> /\ completions' = [completions EXCEPT ![rxreq] = @ + 1]
    BY DEF RxSend, RxSettled, TypeInv, Shape, RxShape, Claimed, RxClaim, Send, calls
  <1>2. completions[rxreq] = 0 /\ seq[rxreq] # 0
    BY <1>1 DEF Once
  <1>3. Phase(rxreq) = "settled"
    BY <1>1, <1>2, PhaseOf
  <1> QED BY <1>1, <1>2, <1>3, PhaseFrame, ServiceComplete

\* The steps of txLoop, of the timers and of terminate that settle nothing.
LEMMA ServiceQuiet ==
    ASSUME \/ TxLoop \/ RxComplete \/ RxStop \/ DlExpireReady \/ DlCancel \/ DlStop \/ TermFailAll
           \/ Close \/ TermMachine \/ TermDone \/ TermConn \/ TermEnd \/ UNCHANGED vars
           \/ \E r \in Requests : DlExpire(r) \/ \E ok \in BOOLEAN : RxResponse(r, ok)
    PROVE  UNCHANGED Service!vars
  <1>1. UNCHANGED <<calls, finished, completions>>
    <2>1. CASE TxLoop
      BY <2>1 DEF TxLoop, TxDequeue, TxDrain, TxWrite, TxWriteFail, TxPost, TxPostEnd, TxSchedule,
                  TxAttach, TxStop, pend
    <2>2. CASE RxComplete \/ RxStop \/ DlExpireReady \/ DlCancel \/ DlStop \/ TermFailAll
      BY <2>2 DEF RxComplete, RxStop, DlExpireReady, DlCancel, DlStop, TermFailAll, pend
    <2>3. CASE Close \/ TermMachine \/ TermDone \/ TermConn \/ TermEnd \/ UNCHANGED vars
      BY <2>3 DEF Close, TermMachine, TermDone, TermConn, TermEnd, vars, pend
    <2>4. CASE \E r \in Requests : DlExpire(r) \/ \E ok \in BOOLEAN : RxResponse(r, ok)
      BY <2>4 DEF DlExpire, RxResponse, pend
    <2> QED BY <2>1, <2>2, <2>3, <2>4
  <1>2. \A q \in Requests : Phase(q)' = Phase(q)
    BY <1>1, PhaseFrame DEF calls
  <1> QED BY <1>1, <1>2, ServiceStutter

\* What a step may do to the response in hand, to the finished requests and to commands.
LEMMA RxFrame ==
    ASSUME TypeInv, [Next]_vars
    PROVE  /\ finished \subseteq finished'
           /\ \A x \in Requests : seq[x] # 0 => cmd'[x] = cmd[x]
           /\ \/ rxpc' \notin {"complete", "send"} \/ RxFinish
              \/ rxpc \in {"complete", "send"} /\ rxreq' = rxreq
  <1>1. ASSUME NEW r \in Requests, CallStep(r) \/ CancelContext(r)
        PROVE  finished \subseteq finished' /\ UNCHANGED <<cmd, rxv>>
    BY <1>1 DEF CallStep, CancelContext, Acquire, AcquireWait, Begin, Insert, Encode, Enqueue, Await,
                WaitCompleted, CallerFinish, Unwind, Finish, pend
  <1>2. ASSUME NEW r \in Requests, NEW c \in Commands, Call(r, c)
        PROVE  /\ finished' = finished /\ UNCHANGED rxv
               /\ \A x \in Requests : seq[x] # 0 => cmd'[x] = cmd[x]
    <2>1. seq[r] = 0 /\ cmd' = [cmd EXCEPT ![r] = c] /\ UNCHANGED <<pend, rxv>>
      BY <1>2 DEF Call, TypeInv, Shape, CallShape
    <2> QED BY <2>1 DEF pend, TypeInv, TypeOK, CallsType
  <1>3. CASE TxLoop
    BY <1>3 DEF TxLoop, TxDequeue, TxDrain, TxWrite, TxWriteFail, TxPost, TxPostEnd, TxSchedule,
                TxAttach, TxStop, calls, pend, rxv
  <1>4. CASE RxHandle \/ RxStop \/ \E r \in Requests, ok \in BOOLEAN : RxResponse(r, ok)
    BY <1>4 DEF RxHandle, RxFinish, RxComplete, RxSend, RxStop, RxResponse, Finish, calls, pend
  <1>5. CASE DlLoop
    BY <1>5 DEF DlLoop, DlExpireReady, DlExpire, DlFinish, DlCancel, DlStop, Finish, calls, pend, rxv
  <1>6. CASE Close \/ TermStep \/ UNCHANGED vars
    BY <1>6 DEF Close, TermStep, TermMachine, TermDone, TermConn, TermFailAll, TermDrain, TermEnd, Finish,
                vars, calls, pend, rxv
  <1> QED BY <1>1, <1>2, <1>3, <1>4, <1>5, <1>6 DEF Next, rxv

\* RxSettled is kept by every step.
LEMMA RxSettledStep ==
    ASSUME TypeInv, Once, Slots, RxSettled, [Next]_vars
    PROVE  RxSettled'
  <1>1. CASE RxFinish
    <2>1. /\ rxreq \in Requests /\ InFlight(rxreq) /\ Finish(rxreq) /\ UNCHANGED <<cmd, rxreq>>
      BY <1>1 DEF RxFinish, TypeInv, Shape, RxShape, InFlight, RxUnfinished, calls
    <2>2. TwoWay(rxreq) /\ rxreq \in finished'
      BY <2>1 DEF Slots, CallSlot, Finish
    <2> QED BY <2>1, <2>2 DEF RxSettled, TwoWay
  <1>2. CASE rxpc \in {"complete", "send"} /\ rxreq' = rxreq
    <2>1. rxreq \in Requests /\ Claimed(rxreq)
      BY <1>2 DEF TypeInv, Shape, RxShape, Claimed, RxClaim
    <2>2. seq[rxreq] # 0
      BY <2>1 DEF Once
    <2> QED BY <1>2, <2>1, <2>2, RxFrame DEF RxSettled, TwoWay
  <1>3. CASE rxpc' \notin {"complete", "send"}
    BY <1>3 DEF RxSettled
  <1> QED BY <1>1, <1>2, <1>3, RxFrame

\* Every step of the outbound path is a step of the service or leaves it as it is; one
\* case per goroutine.
LEMMA ServiceStep ==
    ASSUME TypeInv, TypeInv', Once, Slots, Slots', RxSettled, [Next]_vars
    PROVE  [Service!Next]_Service!vars
  <1>1. ASSUME NEW r \in Requests, CallStep(r) \/ CancelContext(r) \/ \E c \in Commands : Call(r, c)
        PROVE  [Service!Next]_Service!vars
    BY <1>1, ServiceAdmission, ServiceCaller, ServiceFinish DEF CallStep
  <1>2. CASE TxLoop \/ RxHandle \/ RxStop
    BY <1>2, ServiceQuiet, ServiceFinish, ServiceRxSend DEF RxHandle
  <1>3. CASE (\E r \in Requests, ok \in BOOLEAN : RxResponse(r, ok)) \/ DlLoop
    BY <1>3, ServiceQuiet, ServiceFinish DEF DlLoop
  <1>4. CASE Close \/ TermStep \/ UNCHANGED vars
    BY <1>4, ServiceQuiet, ServiceFinish DEF TermStep
  <1> QED BY <1>1, <1>2, <1>3, <1>4 DEF Next

\* The initial states map to the initial state of the service.
LEMMA ServiceInit == Init => Service!Init
  <1> SUFFICES ASSUME Init PROVE Service!Init
    OBVIOUS
  <1>1. \A r \in Requests : Phase(r) = "outside"
    BY DEF Init, Phase, OwnsSlot
  <1>2. {r \in Requests : completions[r] > 0} = {}
    BY DEF Init
  <1> QED BY <1>1, <1>2, Zenon DEF Service!Init

\* The callers, txLoop, rxLoop, the deadline goroutine and terminate implement the request
\* service: at most WindowSize requests in flight, each call in the window at most once,
\* each registered request completed at most once and never before its place is free.
THEOREM PathImplementsService == Spec => ImplementsService
  <1>1. Init => Service!Init
    BY ServiceInit
  <1>2. TypeInv /\ TypeInv' /\ Once /\ Slots /\ Slots' /\ RxSettled /\ [Next]_vars
           => [Service!Next]_Service!vars
    BY ServiceStep
  <1>3. Init => RxSettled
    BY DEF Init, RxSettled
  <1>4. TypeInv /\ Once /\ Slots /\ RxSettled /\ [Next]_vars => RxSettled'
    BY RxSettledStep
  <1> QED BY <1>1, <1>2, <1>3, <1>4, TypeInvariant, OnceInvariant, SlotsInvariant, PTL
          DEF Spec, ImplementsService, Service!Spec
=============================================================================
