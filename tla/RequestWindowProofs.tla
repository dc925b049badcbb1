------------------------ MODULE RequestWindowProofs ------------------------
(***************************************************************************)
(* The request window (WindowAccounting of RequestPath), for any number of *)
(* calls and any sizes.                                                    *)
(*                                                                         *)
(* A slot belongs to its caller until insert hands it to the pending       *)
(* entry, and to the entry until finish.  Slots says that the counter is   *)
(* the number of owners, and that an entry in flight - in the table, or    *)
(* claimed by a goroutine that has not run finish - has not been finished. *)
(* With Once, finish therefore frees a slot exactly once per entry.        *)
(***************************************************************************)
EXTENDS RequestProofs, FiniteSetTheorems

Owners == {r \in Requests : OwnsSlot(r)}

TwoWay(r) == cmd[r] # NoCommand /\ ~isOneWayCommand(cmd[r])

RxUnfinished == IF rxpc = "finish" THEN {rxreq} ELSE {}

InFlight(r) ==
    \/ \E s \in SeqNumbers : table[s] = r
    \/ r \in RxUnfinished \/ r \in DlClaim \/ r \in failing
    \/ \E q \in Requests : r \in CallerClaim(q)

\* What Slots says of each call.
CallSlot(r) ==
    /\ seq[r] = 0 => r \notin finished
    /\ InFlight(r) => r \notin finished /\ TwoWay(r)
    /\ pc[r] \in {"acquire", "waiting", "unwind", "release"} => TwoWay(r)
    /\ pc[r] # "idle" => cmd[r] # NoCommand

Slots ==
    /\ tokens = Cardinality(Owners) /\ tokens <= WindowSize
    /\ \A r \in Requests : CallSlot(r)

\* Finitely many calls own slots, so their number can be compared with the tokens.
LEMMA OwnersFinite == IsFiniteSet(Owners) /\ Cardinality(Owners) \in Nat
  BY RequestPathAssumption, FS_Subset, FS_CardinalityType DEF Owners

\* A call without a number has nothing in flight.
LEMMA NoNumberNoFlight ==
    ASSUME TypeInv, Once, NEW r \in Requests, seq[r] = 0
    PROVE  ~InFlight(r)
  <1>1. \A s \in SeqNumbers : table[s] # r
    BY RequestPathAssumption DEF TypeInv, Shape, TableShape, SeqNumbers
  <1>2. ~Claimed(r) /\ RxUnfinished \subseteq RxClaim
    BY DEF Once, RxUnfinished, RxClaim
  <1> QED BY <1>1, <1>2 DEF InFlight, Claimed

\* The three ways a step may move the counter.
LEMMA SlotKept ==
    ASSUME Slots, tokens' = tokens, \A q \in Requests : CallSlot(q)',
           \A q \in Requests : OwnsSlot(q)' <=> OwnsSlot(q)
    PROVE  Slots'
  <1>1. Owners' = Owners
    BY DEF Owners
  <1> QED BY <1>1 DEF Slots

\* requestWindow.acquire: one call more owns a slot and one token more is taken.
LEMMA SlotTaken ==
    ASSUME Slots, NEW r \in Requests, ~OwnsSlot(r), OwnsSlot(r)',
           tokens < WindowSize, tokens' = tokens + 1, \A q \in Requests : CallSlot(q)',
           \A q \in Requests \ {r} : OwnsSlot(q)' <=> OwnsSlot(q)
    PROVE  Slots'
  <1>1. Owners' = Owners \cup {r} /\ r \notin Owners
    BY DEF Owners
  <1>2. Cardinality(Owners') = tokens + 1
    BY <1>1, OwnersFinite, FS_AddElement DEF Slots
  <1> QED BY <1>2, OwnersFinite, RequestPathAssumption DEF Slots

\* requestWindow.release: one call fewer owns a slot and one token is given back.
LEMMA SlotFreed ==
    ASSUME Slots, NEW r \in Requests, OwnsSlot(r), ~OwnsSlot(r)',
           Release, \A q \in Requests : CallSlot(q)',
           \A q \in Requests \ {r} : OwnsSlot(q)' <=> OwnsSlot(q)
    PROVE  Slots'
  <1>1. Owners' = Owners \ {r} /\ r \in Owners
    BY DEF Owners
  <1>2. Cardinality(Owners') = tokens - 1 /\ tokens \in Nat
    BY <1>1, OwnersFinite, FS_RemoveElement DEF Slots
  <1>3. Cardinality(Owners) # 0
    BY <1>1, OwnersFinite, FS_EmptySet
  <1> QED BY <1>2, <1>3, RequestPathAssumption DEF Slots, Release

\* An entry is finished by its holder: it leaves the entries in flight and its slot is free.
LEMMA SlotFinish ==
    ASSUME TypeInv, Slots, NEW x \in Requests, InFlight(x), ~InFlight(x)', seq[x] # 0,
           Finish(x), UNCHANGED <<cmd, seq>>, \A q \in Requests : InFlight(q)' => InFlight(q),
           \A q \in Requests : pc'[q] = pc[q] \/ (pc[q] = "finish" /\ pc'[q] = "cancel")
    PROVE  Slots'
  <1>1. x \notin finished /\ TwoWay(x)
    BY DEF Slots, CallSlot
  <1>2. finished' = finished \cup {x} /\ Release
    BY <1>1 DEF Finish
  <1>3. \A q \in Requests : CallSlot(q)'
    BY <1>2 DEF Slots, CallSlot, TwoWay
  <1>4. pc[x] \notin {"begin", "insert", "release", "unwind"}
    BY DEF TypeInv, Shape, CallShape
  <1>5. OwnsSlot(x) /\ ~OwnsSlot(x)'
    BY <1>1, <1>2, <1>4 DEF OwnsSlot, TwoWay
  <1>6. \A q \in Requests \ {x} : OwnsSlot(q)' <=> OwnsSlot(q)
    BY <1>2 DEF OwnsSlot
  <1> QED BY <1>2, <1>3, <1>5, <1>6, SlotFreed

\* A step that finishes nothing, makes no entry and moves no call across a slot's ends.
LEMMA SlotFrame ==
    ASSUME Slots, UNCHANGED <<tokens, finished, cmd, seq>>,
           \A q \in Requests : InFlight(q)' => InFlight(q),
           \A q \in Requests :
              \/ pc'[q] = pc[q]
              \/ pc[q] = "acquire" /\ pc'[q] = "waiting"
              \/ pc[q] = "begin" /\ pc'[q] = "insert"
              \/ pc[q] = "begin" /\ pc'[q] = "release" /\ TwoWay(q)
              \/ pc[q] = "begin" /\ pc'[q] = "returned" /\ ~TwoWay(q)
              \/ pc[q] = "unwind" /\ pc'[q] = "release"
              \/ /\ pc[q] \notin {"idle", "begin", "insert", "release", "unwind"}
                 /\ pc'[q] \notin {"acquire", "waiting", "begin", "insert", "release", "unwind"}
    PROVE  Slots'
  <1>1. \A q \in Requests : CallSlot(q)'
    BY DEF Slots, CallSlot, TwoWay
  <1>2. \A q \in Requests : OwnsSlot(q)' <=> OwnsSlot(q)
    BY DEF Slots, CallSlot, OwnsSlot, TwoWay
  <1> QED BY <1>1, <1>2, SlotKept

\* A step that leaves the table and every claim alone leaves the same entries in flight.
LEMMA FlightKept ==
    ASSUME UNCHANGED <<table, failing, rxreq, dlreq, victim>>,
           (rxpc' = "finish") <=> (rxpc = "finish"), (dlpc' = "finish") <=> (dlpc = "finish"),
           \A q \in Requests : (pc'[q] = "finish") <=> (pc[q] = "finish")
    PROVE  \A r \in Requests : InFlight(r)' => InFlight(r)
  BY DEF InFlight, RxUnfinished, DlClaim, CallerClaim

\* The call is made: it owns nothing yet.
LEMMA SlotCall ==
    ASSUME TypeInv, Once, Slots, NEW r \in Requests, NEW c \in Commands, Call(r, c)
    PROVE  Slots'
  <1>1. /\ UNCHANGED <<tokens, finished, seq, table, failing, rxreq, dlreq, victim, rxpc, dlpc>>
        /\ cmd' = [cmd EXCEPT ![r] = c] /\ pc[r] = "idle" /\ seq[r] = 0
    BY DEF Call, TypeInv, Shape, CallShape, pend, rxv, dlv, sess
  <1>2. c # NoCommand
    BY RequestPathAssumption DEF NoCommand, Requests34, BindRequests, SubmitCommands
  <1>3. /\ pc'[r] \in {"returned", "begin", "acquire"}
        /\ pc'[r] = "begin" => isOneWayCommand(c)
        /\ pc'[r] = "acquire" => ~isOneWayCommand(c)
        /\ \A q \in Requests \ {r} : pc'[q] = pc[q] /\ cmd'[q] = cmd[q]
    BY <1>1 DEF Call, Goto, Leave, TypeInv, TypeOK, CallsType
  <1>4. cmd'[r] = c
    BY <1>1 DEF TypeInv, TypeOK, CallsType
  <1>5. \A q \in Requests : InFlight(q)' => InFlight(q) /\ q # r
    BY <1>1, <1>3, FlightKept, NoNumberNoFlight
  <1>6. \A q \in Requests : CallSlot(q)'
    BY <1>1, <1>2, <1>3, <1>4, <1>5 DEF Slots, CallSlot, TwoWay
  <1>7. \A q \in Requests : OwnsSlot(q)' <=> OwnsSlot(q)
    BY <1>1, <1>3, <1>4 DEF OwnsSlot
  <1> QED BY <1>1, <1>6, <1>7, SlotKept

\* acquire: the slot is taken, or the call leaves or waits without one.
LEMMA SlotAcquire ==
    ASSUME TypeInv, Once, Slots, NEW r \in Requests, Acquire(r) \/ AcquireWait(r)
    PROVE  Slots'
  <1>1. /\ UNCHANGED <<finished, cmd, seq, table, failing, rxreq, dlreq, victim, rxpc, dlpc>>
        /\ pc[r] \in {"acquire", "waiting"} /\ seq[r] = 0
    BY DEF Acquire, AcquireWait, TypeInv, Shape, CallShape, pend, rxv, dlv, sess
  <1>2. \/ tokens < WindowSize /\ tokens' = tokens + 1 /\ pc' = [pc EXCEPT ![r] = "begin"]
        \/ tokens' = tokens /\ pc' = [pc EXCEPT ![r] = "returned"]
        \/ tokens' = tokens /\ pc[r] = "acquire" /\ pc' = [pc EXCEPT ![r] = "waiting"]
    BY DEF Acquire, AcquireWait, Goto, Leave
  <1>3. \A q \in Requests \ {r} : pc'[q] = pc[q]
    BY <1>2 DEF TypeInv, TypeOK, CallsType
  <1>4. \A q \in Requests : InFlight(q)' => InFlight(q)
    BY <1>1, <1>2, <1>3, FlightKept DEF TypeInv, TypeOK, CallsType
  <1>5. CASE tokens < WindowSize /\ tokens' = tokens + 1 /\ pc' = [pc EXCEPT ![r] = "begin"]
    <2>1. pc'[r] = "begin"
      BY <1>5 DEF TypeInv, TypeOK, CallsType
    <2>2. \A q \in Requests : CallSlot(q)'
      BY <1>1, <1>3, <1>4, <2>1 DEF Slots, CallSlot, TwoWay
    <2>3. ~OwnsSlot(r) /\ OwnsSlot(r)' /\ \A q \in Requests \ {r} : OwnsSlot(q)' <=> OwnsSlot(q)
      BY <1>1, <1>3, <2>1 DEF Slots, CallSlot, TwoWay, OwnsSlot
    <2> QED BY <1>5, <2>2, <2>3, SlotTaken
  <1>6. CASE \/ tokens' = tokens /\ pc' = [pc EXCEPT ![r] = "returned"]
             \/ tokens' = tokens /\ pc[r] = "acquire" /\ pc' = [pc EXCEPT ![r] = "waiting"]
    <2>1. pc'[r] = "returned" \/ (pc[r] = "acquire" /\ pc'[r] = "waiting")
      BY <1>6 DEF TypeInv, TypeOK, CallsType
    <2> QED BY <1>1, <1>3, <1>4, <1>6, <2>1, SlotFrame
  <1> QED BY <1>2, <1>5, <1>6

\* The other steps of a call that neither insert nor finish an entry.
LEMMA SlotCaller ==
    ASSUME TypeInv, Once, Slots, NEW r \in Requests,
           CancelContext(r) \/ Begin(r) \/ WaitCompleted(r) \/ Encode(r) \/ Enqueue(r) \/ Await(r)
    PROVE  Slots'
  <1>1. UNCHANGED <<tokens, finished, cmd, seq, failing, rxreq, dlreq, rxpc, dlpc>>
    BY DEF CancelContext, Begin, WaitCompleted, Encode, Enqueue, Await, pend, rxv, dlv, sess
  <1>2. CASE CancelContext(r) \/ Begin(r) \/ WaitCompleted(r)
    <2>1. UNCHANGED <<table, victim>>
      BY <1>2 DEF CancelContext, Begin, WaitCompleted
    <2>2. \/ pc' = pc
          \/ pc[r] = "begin" /\ pc' = [pc EXCEPT ![r] = "insert"]
          \/ pc[r] = "begin" /\ isOneWayCommand(cmd[r]) /\ pc' = [pc EXCEPT ![r] = "returned"]
          \/ pc[r] = "begin" /\ ~isOneWayCommand(cmd[r]) /\ pc' = [pc EXCEPT ![r] = "release"]
          \/ pc[r] = "completed" /\ pc' = [pc EXCEPT ![r] = "returned"]
      BY <1>2 DEF CancelContext, Begin, WaitCompleted, Goto, Leave
    <2>3. pc[r] = "begin" => cmd[r] # NoCommand
      BY DEF Slots, CallSlot
    <2>4. \A q \in Requests : InFlight(q)' => InFlight(q)
      BY <1>1, <2>1, <2>2, FlightKept DEF TypeInv, TypeOK, CallsType
    <2> QED BY <1>1, <2>1, <2>2, <2>3, <2>4, SlotFrame DEF TypeInv, TypeOK, CallsType, TwoWay
  <1>3. CASE Encode(r) \/ Enqueue(r) \/ Await(r)
    <2>1. seq[r] \in SeqNumbers /\ pc[r] \in {"encode", "enqueue", "await"}
      BY <1>3 DEF Encode, Enqueue, Await, CallShape, TypeInv, Shape
    <2>2. \/ /\ table' = table /\ victim' = victim
             /\ \E x \in {"enqueue", "await", "completed", "cancel", "returned"} : pc' = [pc EXCEPT ![r] = x]
          \/ /\ table[seq[r]] # None /\ table' = [table EXCEPT ![seq[r]] = None]
             /\ victim' = [victim EXCEPT ![r] = table[seq[r]]] /\ pc' = [pc EXCEPT ![r] = "finish"]
      BY <1>3, Zenon DEF Encode, Enqueue, Await, CompleteByCaller, Remove, Goto, Leave
    <2>3. RxUnfinished' = RxUnfinished /\ DlClaim' = DlClaim /\ failing' = failing
      BY <1>1 DEF RxUnfinished, DlClaim
    <2>4. \A q \in Requests : q # r => CallerClaim(q)' = CallerClaim(q)
      BY <2>2 DEF TypeInv, TypeOK, CallsType, CallerClaim
    <2>5. CallerClaim(r)' \subseteq {table[seq[r]]}
      BY <2>2 DEF TypeInv, TypeOK, CallsType, CallerClaim
    <2>6. \A s \in SeqNumbers : table'[s] # None => table'[s] = table[s]
      BY <2>1, <2>2 DEF TypeInv, TypeOK, TableType
    <2>7. \A q \in Requests : InFlight(q)' => InFlight(q)
      BY <2>1, <2>3, <2>4, <2>5, <2>6, RequestPathAssumption DEF InFlight
    <2>8. \A q \in Requests : q # r => pc'[q] = pc[q]
      BY <2>2 DEF TypeInv, TypeOK, CallsType
    <2>9. pc'[r] \in {"enqueue", "await", "completed", "cancel", "returned", "finish"}
      BY <2>2 DEF TypeInv, TypeOK, CallsType
    <2> QED BY <1>1, <2>1, <2>7, <2>8, <2>9, SlotFrame
  <1> QED BY <1>2, <1>3

\* insert hands the slot over to the entry; a call without an entry keeps it to give back.
LEMMA SlotInsert ==
    ASSUME TypeInv, Once, Slots, NEW r \in Requests, Insert(r)
    PROVE  Slots'
  <1>1. /\ UNCHANGED <<tokens, finished, cmd, failing, rxreq, dlreq, victim, rxpc, dlpc>>
        /\ pc[r] = "insert" /\ seq[r] = 0 /\ cmd[r] # NoCommand /\ r \notin finished
    BY DEF Insert, TypeInv, Shape, CallShape, Slots, CallSlot, pend, rxv, dlv, sess
  <1>2. NextSequence(nextSeq) \in SeqNumbers /\ NextSequence(nextSeq) # 0
    BY NextSequenceType DEF TypeInv, TypeOK, TableType, SeqNumbers
  <1>3. \/ /\ isOneWayCommand(cmd[r]) /\ table' = table
           /\ seq' = [seq EXCEPT ![r] = NextSequence(nextSeq)] /\ pc' = [pc EXCEPT ![r] = "encode"]
        \/ /\ ~isOneWayCommand(cmd[r]) /\ table' = [table EXCEPT ![NextSequence(nextSeq)] = r]
           /\ seq' = [seq EXCEPT ![r] = NextSequence(nextSeq)] /\ pc' = [pc EXCEPT ![r] = "encode"]
        \/ /\ ~isOneWayCommand(cmd[r]) /\ UNCHANGED <<table, seq>>
           /\ pc' = pc \/ pc' = [pc EXCEPT ![r] = "unwind"]
    BY DEF Insert, Goto, Leave
  <1>4. \A q \in Requests \ {r} : pc'[q] = pc[q] /\ seq'[q] = seq[q]
    BY <1>3 DEF TypeInv, TypeOK, CallsType
  <1>5. \/ isOneWayCommand(cmd[r]) /\ seq'[r] # 0 /\ pc'[r] = "encode"
        \/ ~isOneWayCommand(cmd[r]) /\ seq'[r] # 0 /\ pc'[r] = "encode"
        \/ ~isOneWayCommand(cmd[r]) /\ seq'[r] = 0 /\ pc'[r] \in {"insert", "unwind"}
    BY <1>1, <1>2, <1>3 DEF TypeInv, TypeOK, CallsType
  <1>6. \A s \in SeqNumbers : table'[s] = table[s] \/ (table'[s] = r /\ TwoWay(r))
    BY <1>1, <1>2, <1>3 DEF TypeInv, TypeOK, TableType, TwoWay
  <1>7. RxUnfinished' = RxUnfinished /\ DlClaim' = DlClaim /\ failing' = failing
    BY <1>1 DEF RxUnfinished, DlClaim
  <1>8. \A q \in Requests : CallerClaim(q)' = CallerClaim(q)
    BY <1>1, <1>4, <1>5 DEF CallerClaim
  <1>9. \A q \in Requests : InFlight(q)' => InFlight(q) \/ (q = r /\ TwoWay(r))
    BY <1>6, <1>7, <1>8 DEF InFlight
  <1>10. \A q \in Requests : CallSlot(q)'
    BY <1>1, <1>4, <1>5, <1>9 DEF Slots, CallSlot, TwoWay
  <1>11. \A q \in Requests : OwnsSlot(q)' <=> OwnsSlot(q)
    BY <1>1, <1>4, <1>5 DEF OwnsSlot
  <1> QED BY <1>1, <1>10, <1>11, SlotKept

\* The deferred rollback: the slot is given back by the call that still owns it.
LEMMA SlotUnwind ==
    ASSUME TypeInv, Once, Slots, NEW r \in Requests, Unwind(r)
    PROVE  Slots'
  <1>1. UNCHANGED <<finished, cmd, seq, table, failing, rxreq, dlreq, victim, rxpc, dlpc>>
    BY DEF Unwind, pend, rxv, dlv, sess
  <1>2. \/ pc[r] = "cancel" /\ tokens' = tokens /\ pc' = [pc EXCEPT ![r] = "returned"]
        \/ pc[r] = "unwind" /\ tokens' = tokens /\ pc' = [pc EXCEPT ![r] = "release"]
        \/ pc[r] = "release" /\ Release /\ pc' = [pc EXCEPT ![r] = "returned"]
    BY DEF Unwind, Goto
  <1>3. \A q \in Requests \ {r} : pc'[q] = pc[q]
    BY <1>2 DEF TypeInv, TypeOK, CallsType
  <1>4. \A q \in Requests : InFlight(q)' => InFlight(q)
    BY <1>1, <1>2, <1>3, FlightKept DEF TypeInv, TypeOK, CallsType
  <1>5. CASE pc[r] # "release"
    <2>1. tokens' = tokens /\ ((pc[r] = "cancel" /\ pc'[r] = "returned") \/ (pc[r] = "unwind" /\ pc'[r] = "release"))
      BY <1>2, <1>5 DEF TypeInv, TypeOK, CallsType
    <2> QED BY <1>1, <1>3, <1>4, <2>1, SlotFrame
  <1>6. CASE pc[r] = "release"
    <2>1. Release /\ pc'[r] = "returned" /\ seq[r] = 0
      BY <1>2, <1>6 DEF TypeInv, TypeOK, CallsType, Shape, CallShape
    <2>2. \A q \in Requests : CallSlot(q)'
      BY <1>1, <1>3, <1>4, <1>6, <2>1 DEF Slots, CallSlot, TwoWay
    <2>3. OwnsSlot(r) /\ ~OwnsSlot(r)' /\ \A q \in Requests \ {r} : OwnsSlot(q)' <=> OwnsSlot(q)
      BY <1>1, <1>3, <1>6, <2>1 DEF Slots, CallSlot, TwoWay, OwnsSlot
    <2> QED BY <2>1, <2>2, <2>3, SlotFreed
  <1> QED BY <1>5, <1>6

\* An entry moves from the table into a goroutine's hands.
LEMMA SlotTake ==
    ASSUME TypeInv, Once, Slots,
           \/ TermFailAll
           \/ \E r \in Requests : DlExpire(r) \/ \E ok \in BOOLEAN : RxResponse(r, ok)
    PROVE  Slots'
  <1>1. UNCHANGED <<tokens, finished, cmd, seq, pc, victim>>
    BY DEF TermFailAll, DlExpire, RxResponse, calls, pend
  <1>2. \A q \in Requests : CallerClaim(q)' = CallerClaim(q)
    BY <1>1 DEF CallerClaim
  <1>3. CASE TermFailAll
    <2>1. /\ RxUnfinished' = RxUnfinished /\ DlClaim' = DlClaim
          /\ \A s \in SeqNumbers : table'[s] = None
          /\ \A x \in failing' : \E s \in SeqNumbers : table[s] = x
      BY <1>3 DEF TermFailAll, Pending, RxUnfinished, DlClaim, rxv, dlv
    <2>2. \A q \in Requests : InFlight(q)' => InFlight(q)
      BY <1>2, <2>1, RequestPathAssumption DEF InFlight
    <2> QED BY <1>1, <2>2, SlotFrame
  <1>4. ASSUME NEW r \in Requests, DlExpire(r) PROVE Slots'
    <2>1. seq[r] \in SeqNumbers
      BY <1>4 DEF DlExpire, TypeInv, Shape, DlShape
    <2>2. /\ RxUnfinished' = RxUnfinished /\ failing' = failing
          /\ \A s \in SeqNumbers : table'[s] # None => table'[s] = table[s]
          /\ DlClaim' \subseteq {table[seq[r]]}
      BY <1>4, <2>1 DEF DlExpire, Remove, RxUnfinished, DlClaim, rxv, sess, TypeInv, TypeOK, TableType
    <2>3. \A q \in Requests : InFlight(q)' => InFlight(q)
      BY <1>2, <2>1, <2>2, RequestPathAssumption DEF InFlight
    <2> QED BY <1>1, <2>3, SlotFrame
  <1>5. ASSUME NEW r \in Requests, NEW ok \in BOOLEAN, RxResponse(r, ok) PROVE Slots'
    <2>1. seq[r] \in SeqNumbers
      BY <1>5 DEF RxResponse, TypeInv, Shape, TxShape
    <2>2. /\ DlClaim' = DlClaim /\ failing' = failing
          /\ \A s \in SeqNumbers : table'[s] # None => table'[s] = table[s]
          /\ RxUnfinished' \subseteq {table[seq[r]]}
      BY <1>5, <2>1 DEF RxResponse, Remove, RxUnfinished, DlClaim, dlv, sess, TypeInv, TypeOK, TableType
    <2>3. \A q \in Requests : InFlight(q)' => InFlight(q)
      BY <1>2, <2>1, <2>2, RequestPathAssumption DEF InFlight
    <2> QED BY <1>1, <2>3, SlotFrame
  <1> QED BY <1>3, <1>4, <1>5

\* A claimed request is not in the table and has a number.
LEMMA ClaimedNotPending ==
    ASSUME TypeInv, Once, NEW x \in Requests, Claimed(x)
    PROVE  seq[x] # 0 /\ \A s \in SeqNumbers : table[s] # x
  BY RequestPathAssumption DEF Once

\* The holder of a claim runs finish.
LEMMA SlotHolderFinish ==
    ASSUME TypeInv, Once, Slots,
           \/ RxFinish \/ DlFinish
           \/ \E r \in Requests : TermDrain(r) \/ CallerFinish(r)
    PROVE  Slots'
  <1>1. UNCHANGED <<cmd, seq, table, victim>>
    BY DEF RxFinish, DlFinish, TermDrain, CallerFinish, calls
  <1>2. CASE RxFinish
    <2>1. rxreq \in Requests /\ RxUnfinished = {rxreq} /\ RxClaim = {rxreq} /\ RxUnfinished' = {}
      BY <1>2 DEF RxFinish, TypeInv, Shape, RxShape, RxUnfinished, RxClaim
    <2>2. /\ DlClaim' = DlClaim /\ failing' = failing /\ pc' = pc
          /\ \A q \in Requests : CallerClaim(q)' = CallerClaim(q)
      BY <1>2 DEF RxFinish, DlClaim, CallerClaim, calls, sess, dlv
    <2>3. Claimed(rxreq) /\ InFlight(rxreq)
      BY <2>1 DEF Claimed, InFlight
    <2>4. \A q \in Requests : InFlight(q)' => InFlight(q) /\ q # rxreq
      <3>1. \A s \in SeqNumbers : table[s] # rxreq
        BY <2>1, <2>3, ClaimedNotPending
      <3>2. /\ rxreq \notin DlClaim /\ rxreq \notin failing
            /\ \A p \in Requests : rxreq \notin CallerClaim(p)
        BY <2>1 DEF Once, OneHolder
      <3>3. ASSUME NEW q \in Requests, InFlight(q)' PROVE InFlight(q) /\ q # rxreq
        BY <1>1, <2>1, <2>2, <3>1, <3>2, <3>3 DEF InFlight
      <3> QED BY <3>3
    <2>5. \A q \in Requests : q = rxreq => ~InFlight(q)'
      BY <2>4
    <2> QED BY <1>1, <1>2, <2>1, <2>2, <2>3, <2>4, <2>5, ClaimedNotPending, SlotFinish DEF RxFinish
  <1>3. CASE DlFinish
    <2>1. dlreq \in Requests /\ DlClaim = {dlreq} /\ DlClaim' = {}
      BY <1>3 DEF DlFinish, TypeInv, Shape, DlShape, DlClaim
    <2>2. /\ RxUnfinished' = RxUnfinished /\ RxUnfinished \subseteq RxClaim /\ failing' = failing
          /\ pc' = pc /\ \A q \in Requests : CallerClaim(q)' = CallerClaim(q)
      BY <1>3 DEF DlFinish, RxUnfinished, RxClaim, CallerClaim, calls, sess, rxv
    <2>3. Claimed(dlreq) /\ InFlight(dlreq)
      BY <2>1 DEF Claimed, InFlight
    <2>4. \A q \in Requests : InFlight(q)' => InFlight(q) /\ q # dlreq
      <3>1. \A s \in SeqNumbers : table[s] # dlreq
        BY <2>1, <2>3, ClaimedNotPending
      <3>2. /\ dlreq \notin RxClaim /\ dlreq \notin failing
            /\ \A p \in Requests : dlreq \notin CallerClaim(p)
        BY <2>1 DEF Once, OneHolder
      <3>3. ASSUME NEW q \in Requests, InFlight(q)' PROVE InFlight(q) /\ q # dlreq
        BY <1>1, <2>1, <2>2, <3>1, <3>2, <3>3 DEF InFlight
      <3> QED BY <3>3
    <2>5. \A q \in Requests : q = dlreq => ~InFlight(q)'
      BY <2>4
    <2> QED BY <1>1, <1>3, <2>1, <2>2, <2>3, <2>4, <2>5, ClaimedNotPending, SlotFinish DEF DlFinish
  <1>4. ASSUME NEW r \in Requests, TermDrain(r) PROVE Slots'
    <2>1. r \in failing /\ failing' = failing \ {r} /\ Finish(r)
      BY <1>4 DEF TermDrain
    <2>2. /\ RxUnfinished' = RxUnfinished /\ RxUnfinished \subseteq RxClaim /\ DlClaim' = DlClaim
          /\ pc' = pc /\ \A q \in Requests : CallerClaim(q)' = CallerClaim(q)
      BY <1>4 DEF TermDrain, RxUnfinished, RxClaim, DlClaim, CallerClaim, calls, rxv, dlv
    <2>3. Claimed(r) /\ InFlight(r)
      BY <2>1 DEF Claimed, InFlight
    <2>4. \A q \in Requests : InFlight(q)' => InFlight(q) /\ q # r
      <3>1. \A s \in SeqNumbers : table[s] # r
        BY <2>3, ClaimedNotPending
      <3>2. r \notin RxClaim /\ r \notin DlClaim /\ \A p \in Requests : r \notin CallerClaim(p)
        BY <2>1 DEF Once, OneHolder
      <3>3. ASSUME NEW q \in Requests, InFlight(q)' PROVE InFlight(q) /\ q # r
        BY <1>1, <2>1, <2>2, <3>1, <3>2, <3>3 DEF InFlight
      <3> QED BY <3>3
    <2>5. ~InFlight(r)'
      BY <2>4
    <2> QED BY <1>1, <2>1, <2>2, <2>3, <2>4, <2>5, ClaimedNotPending, SlotFinish
  <1>5. ASSUME NEW r \in Requests, CallerFinish(r) PROVE Slots'
    <2>1. victim[r] \in Requests /\ CallerClaim(r) = {victim[r]} /\ CallerClaim(r)' = {}
      BY <1>5 DEF CallerFinish, Goto, CallerClaim, TypeInv, TypeOK, CallsType, Shape, CallShape
    <2>2. /\ RxUnfinished' = RxUnfinished /\ RxUnfinished \subseteq RxClaim
          /\ DlClaim' = DlClaim /\ failing' = failing
          /\ \A q \in Requests \ {r} : CallerClaim(q)' = CallerClaim(q)
      BY <1>5 DEF CallerFinish, Goto, RxUnfinished, RxClaim, DlClaim, CallerClaim, TypeInv, TypeOK,
                  CallsType, sess, rxv, dlv
    <2>3. Claimed(victim[r]) /\ InFlight(victim[r])
      BY <2>1 DEF Claimed, InFlight
    <2>4. \A q \in Requests : InFlight(q)' => InFlight(q) /\ q # victim[r]
      <3>1. \A s \in SeqNumbers : table[s] # victim[r]
        BY <2>1, <2>3, ClaimedNotPending
      <3>2. /\ victim[r] \notin RxClaim /\ victim[r] \notin DlClaim /\ victim[r] \notin failing
            /\ \A p \in Requests : victim[r] \in CallerClaim(p) => p = r
        BY <2>1 DEF Once, OneHolder
      <3>3. ASSUME NEW q \in Requests, InFlight(q)' PROVE InFlight(q) /\ q # victim[r]
        BY <1>1, <2>1, <2>2, <3>1, <3>2, <3>3 DEF InFlight
      <3> QED BY <3>3
    <2>5. \A q \in Requests : q = victim[r] => ~InFlight(q)'
      BY <2>4
    <2>6. \A q \in Requests : pc'[q] = pc[q] \/ (pc[q] = "finish" /\ pc'[q] = "cancel")
      BY <1>5 DEF CallerFinish, Goto, TypeInv, TypeOK, CallsType
    <2> QED BY <1>1, <1>5, <2>1, <2>3, <2>4, <2>5, <2>6, ClaimedNotPending, SlotFinish DEF CallerFinish
  <1> QED BY <1>2, <1>3, <1>4, <1>5

\* Everything else: no call moves, no entry is made, claimed or finished.
LEMMA SlotQuiet ==
    ASSUME TypeInv, Slots,
           \/ TxLoop \/ RxComplete \/ RxSend \/ RxStop \/ DlExpireReady \/ DlCancel \/ DlStop
           \/ Close \/ TermMachine \/ TermDone \/ TermConn \/ TermEnd \/ UNCHANGED vars
    PROVE  Slots'
  <1>1. UNCHANGED <<tokens, finished, calls, table, failing>>
    <2>1. CASE TxLoop
      BY <2>1 DEF TxLoop, TxDequeue, TxDrain, TxWrite, TxWriteFail, TxPost, TxPostEnd, TxSchedule,
                  TxAttach, TxStop, sess, pend
    <2>2. CASE \/ RxComplete \/ RxSend \/ RxStop \/ DlExpireReady \/ DlCancel \/ DlStop
               \/ Close \/ TermMachine \/ TermDone \/ TermConn \/ TermEnd \/ UNCHANGED vars
      BY <2>2 DEF RxComplete, RxSend, RxStop, DlExpireReady, DlCancel, DlStop, Close, TermMachine,
                  TermDone, TermConn, TermEnd, vars, sess, pend
    <2> QED BY <2>1, <2>2
  <1>2. RxUnfinished' = RxUnfinished /\ DlClaim' = DlClaim
    <2>1. CASE TxLoop
      BY <2>1 DEF TxLoop, TxDequeue, TxDrain, TxWrite, TxWriteFail, TxPost, TxPostEnd, TxSchedule,
                  TxAttach, TxStop, rxv, dlv, RxUnfinished, DlClaim
    <2>2. CASE \/ RxComplete \/ RxSend \/ RxStop \/ DlExpireReady \/ DlCancel \/ DlStop
               \/ Close \/ TermMachine \/ TermDone \/ TermConn \/ TermEnd \/ UNCHANGED vars
      BY <2>2 DEF RxComplete, RxSend, RxStop, DlExpireReady, DlCancel, DlStop, Close, TermMachine,
                  TermDone, TermConn, TermEnd, vars, rxv, dlv, RxUnfinished, DlClaim
    <2> QED BY <2>1, <2>2
  <1>3. \A q \in Requests : InFlight(q)' => InFlight(q)
    BY <1>1, <1>2 DEF InFlight, CallerClaim, calls
  <1> QED BY <1>1, <1>3, SlotFrame DEF calls

\* Initially no call owns a slot and no token is taken.
LEMMA SlotInit == Init => Slots
  <1> SUFFICES ASSUME Init PROVE Slots
    OBVIOUS
  <1>1. Owners = {}
    BY DEF Init, Owners, OwnsSlot
  <1>2. \A r \in Requests : ~InFlight(r)
    BY RequestPathAssumption DEF Init, InFlight, RxUnfinished, DlClaim, CallerClaim
  <1> QED BY <1>1, <1>2, FS_EmptySet, RequestPathAssumption DEF Init, Slots, CallSlot

\* Each step of each goroutine keeps the slots and the tokens in agreement.
LEMMA SlotStep == TypeInv /\ Once /\ Slots /\ [Next]_vars => Slots'
  <1> SUFFICES ASSUME TypeInv, Once, Slots, [Next]_vars PROVE Slots'
    OBVIOUS
  <1>1. ASSUME NEW r \in Requests, CallStep(r) \/ CancelContext(r) PROVE Slots'
    BY <1>1, SlotAcquire, SlotCaller, SlotInsert, SlotUnwind, SlotHolderFinish DEF CallStep
  <1>2. ASSUME NEW r \in Requests, NEW c \in Commands, Call(r, c) PROVE Slots'
    BY <1>2, SlotCall
  <1>3. CASE TxLoop \/ RxHandle \/ RxStop
    BY <1>3, SlotQuiet, SlotHolderFinish DEF RxHandle
  <1>4. CASE (\E r \in Requests, ok \in BOOLEAN : RxResponse(r, ok)) \/ DlLoop
    BY <1>4, SlotQuiet, SlotTake, SlotHolderFinish DEF DlLoop
  <1>5. CASE Close \/ TermStep \/ UNCHANGED vars
    BY <1>5, SlotQuiet, SlotTake, SlotHolderFinish DEF TermStep
  <1> QED BY <1>1, <1>2, <1>3, <1>4, <1>5 DEF Next

\* Slots holds throughout.
LEMMA SlotsInvariant == Spec => []Slots
  <1>1. Init => Slots
    BY SlotInit
  <1>2. TypeInv /\ Once /\ Slots /\ [Next]_vars => Slots'
    BY SlotStep
  <1> QED BY <1>1, <1>2, TypeInvariant, OnceInvariant, PTL DEF Spec

\* The window counter is the number of calls that own a slot, and the window is never
\* exceeded: whichever path ends a request, requestWindow.release runs once for it.
THEOREM WindowExact == Spec => []WindowAccounting
  <1>1. Slots => WindowAccounting
    BY DEF Slots, WindowAccounting, Owners
  <1> QED BY <1>1, SlotsInvariant, PTL

\* Each entry of the pending table stands for another owner of a slot, and a call that is
\* about to insert is one more.
LEMMA EntriesOwnSlots ==
    ASSUME TypeInv, Slots, NEW r \in Requests, pc[r] = "insert", ~isOneWayCommand(cmd[r])
    PROVE  Cardinality(Pending) < MaxPending
  <1> DEFINE entry == [s \in Pending |-> table[s]]
  <1>1. r \in Owners /\ seq[r] = 0
    BY DEF Owners, OwnsSlot, Slots, CallSlot, TypeInv, Shape, CallShape
  <1>2. ASSUME NEW s \in Pending
        PROVE  table[s] \in Owners \ {r} /\ seq[table[s]] = s
    <2>1. s \in SeqNumbers /\ table[s] # None /\ table[s] \in Requests
      BY <1>2 DEF Pending, TypeInv, TypeOK, TableType, MaybeCall
    <2>2. InFlight(table[s]) /\ seq[table[s]] = s /\ s # 0
      <3>1. TableShape
        BY DEF TypeInv, Shape
      <3>2. seq[table[s]] = s
        BY <2>1, <3>1 DEF TableShape
      <3>3. s # 0
        BY <2>1, RequestPathAssumption DEF SeqNumbers
      <3> QED BY <2>1, <3>2, <3>3 DEF InFlight
    <2> QED BY <1>1, <2>1, <2>2 DEF Owners, OwnsSlot, Slots, CallSlot, TwoWay
  <1>3. entry \in Injection(Pending, Owners \ {r})
    BY <1>2 DEF Injection, IsInjective
  <1>4. /\ IsFiniteSet(Owners \ {r}) /\ Cardinality(Owners \ {r}) = Cardinality(Owners) - 1
        /\ Cardinality(Owners) \in Nat
    BY <1>1, OwnersFinite, FS_RemoveElement
  <1>5. Cardinality(Pending) <= Cardinality(Owners \ {r}) /\ Cardinality(Pending) \in Nat
    BY <1>3, <1>4, FS_Injection, FS_CardinalityType
  <1> QED BY <1>4, <1>5, RequestPathAssumption DEF Slots

\* insert never meets a full pending table: ErrPendingLimit is unreachable.
THEOREM PendingHasRoom == Spec => []RoomForInsert
  <1>1. TypeInv /\ Slots => RoomForInsert
    BY EntriesOwnSlots DEF RoomForInsert
  <1> QED BY <1>1, TypeInvariant, SlotsInvariant, PTL
=============================================================================
