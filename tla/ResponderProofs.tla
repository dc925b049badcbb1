--------------------------- MODULE ResponderProofs ---------------------------
(***************************************************************************)
(* Proofs about Responder for any number of requests, sequence numbers and *)
(* answering goroutines, any queue, batch and table of deferred replies,   *)
(* and a peer that pipelines as it likes.                                  *)
(***************************************************************************)
EXTENDS Responder, FiniteSetTheorems, TLAPS

(***************************************************************************)
(* The items on their way to the wire, and who holds which PDU.            *)
(***************************************************************************)
Shape ==
    /\ cmd \in [Pdus -> PeerCommands \cup {NoCommand}]
    /\ rxpdu \in Pdus \cup {NoPdu} /\ (rxpc \in {"handler", "queue"} => rxpdu \in Pdus)
    /\ reply \in Items
    /\ tx \in Seq(Items) /\ batch \in Seq(Items) /\ wire \in Seq(Items)
    /\ txpc \in {"collect", "commit"} => batch # <<>>
    /\ apc \in [Callers -> {"idle", "claim", "queue", "settle"}] /\ apdu \in [Callers -> Pdus \cup {NoPdu}]
    /\ \A a \in Callers : apc[a] # "idle" => apdu[a] \in Pdus /\ cmd[apdu[a]] = "deliver_sm"

\* What Item builds is an item.
LEMMA ItemType ==
    ASSUME NEW p \in Pdus \cup {NoPdu}, NEW to \in Requests34 \cup {NoCommand}, NEW ok \in BOOLEAN
    PROVE  Item(p, to, ok) \in Items
  BY DEF Item, Items

\* What taking the head of a non-empty queue yields.
LEMMA HeadTail ==
    ASSUME NEW S, NEW q \in Seq(S), q # <<>>
    PROVE  Head(q) \in S /\ Tail(q) \in Seq(S)
  OBVIOUS

\* Each step keeps the shape; one case per action.
LEMMA ShapeStep ==
    ASSUME Shape, [Next]_vars
    PROVE  Shape'
<1> USE DEF sess, rxv, txv, app
<1>1. ASSUME NEW p \in Pdus, NEW c \in PeerCommands, NEW s \in InboundSeqs, RxRequest(p, c, s) PROVE Shape'
  <2>1. c \in Requests34
    BY ResponderAssumption
  <2>2. reply' \in Items
    <3>1. Item(p, NoCommand, FALSE) \in Items /\ Item(p, c, FALSE) \in Items
      BY <2>1, ItemType
    <3>2. reply' \in {reply, Item(p, NoCommand, FALSE), Item(p, c, FALSE)}
      BY <1>1 DEF RxRequest
    <3> QED BY <3>1, <3>2 DEF Shape
  <2>3. cmd' \in [Pdus -> PeerCommands \cup {NoCommand}] /\ rxpdu' = p
    BY <1>1 DEF RxRequest, Shape
  <2>4. \A q \in Pdus : cmd[q] = "deliver_sm" => cmd'[q] = "deliver_sm"
    BY <1>1 DEF RxRequest, Shape, NoCommand
  <2> QED BY <1>1, <2>2, <2>3, <2>4 DEF RxRequest, Shape
<1>2. ASSUME NEW ok \in BOOLEAN, RxHandler(ok) PROVE Shape'
  <2>1. rxpdu \in Pdus /\ cmd[rxpdu] \in Requests34 \cup {NoCommand}
    BY <1>2, ResponderAssumption DEF RxHandler, Shape
  <2>2. reply' \in Items
    <3>1. Item(rxpdu, cmd[rxpdu], ok) \in Items
      BY <2>1, ItemType
    <3>2. reply' \in {reply, Item(rxpdu, cmd[rxpdu], ok)}
      BY <1>2 DEF RxHandler
    <3> QED BY <3>1, <3>2 DEF Shape
  <2> QED BY <1>2, <2>1, <2>2 DEF RxHandler, Shape
<1>3. CASE RxSuppress \/ RegisterDeferredReply \/ RxStop
  BY <1>3 DEF RxSuppress, RegisterDeferredReply, RxStop, Shape
<1>4. CASE RxQueue
  <2>1. NoItem \in Items
    BY ItemType DEF NoItem
  <2> QED BY <1>4, <2>1 DEF RxQueue, Shape
<1>5. CASE RxEncoderPanic
  <2>1. reply' \in Items
    BY <1>5, ItemType DEF RxEncoderPanic, Shape
  <2> QED BY <1>5, <2>1 DEF RxEncoderPanic, Shape
<1>6. CASE RxQueueFail
  <2>1. NoItem \in Items
    BY ItemType DEF NoItem
  <2> QED BY <1>6, <2>1 DEF RxQueueFail, Shape
<1>7. CASE TxDequeue
  <2>1. Head(tx) \in Items /\ Tail(tx) \in Seq(Items)
    BY <1>7, HeadTail DEF TxDequeue, Shape
  <2> QED BY <1>7, <2>1 DEF TxDequeue, Shape
<1>8. CASE TxDrain
  <2>1. Head(tx) \in Items /\ Tail(tx) \in Seq(Items)
    BY <1>8, HeadTail DEF TxDrain, Shape
  <2>2. batch' \in Seq(Items) /\ batch' # <<>>
    BY <1>8, <2>1 DEF TxDrain, Shape
  <2> QED BY <1>8, <2>1, <2>2 DEF TxDrain, Shape
<1>9. CASE TxCommit \/ TxStop
  BY <1>9 DEF TxCommit, TxStop, Shape
<1>10. CASE TxWrite
  <2>1. wire' \in Seq(Items) /\ batch' \in Seq(Items)
    BY <1>10 DEF TxWrite, Shape
  <2> QED BY <1>10, <2>1 DEF TxWrite, Shape
<1>11. CASE TxWriteFail
  <2>1. PICK k \in 0..Len(batch) : wire' = wire \o SubSeq(batch, 1, k)
    BY <1>11 DEF TxWriteFail
  <2>2. SubSeq(batch, 1, k) \in Seq(Items)
    BY <2>1 DEF Shape
  <2>3. wire' \in Seq(Items) /\ batch' \in Seq(Items)
    BY <1>11, <2>1, <2>2 DEF TxWriteFail, Shape
  <2> QED BY <1>11, <2>3 DEF TxWriteFail, Shape
<1>12. ASSUME NEW a \in Callers, NEW p \in Pdus, RespondDeferred(a, p) PROVE Shape'
  BY <1>12 DEF RespondDeferred, Shape
<1>13. ASSUME NEW a \in Callers, RespondClaim(a) PROVE Shape'
  BY <1>13 DEF RespondClaim, Shape
<1>14. ASSUME NEW a \in Callers, NEW ok \in BOOLEAN, RespondQueue(a, ok) PROVE Shape'
  <2>1. apdu[a] \in Pdus
    BY <1>14 DEF RespondQueue, Shape
  <2>2. Item(apdu[a], "deliver_sm", ok) \in Items
    BY <2>1, ItemType DEF Requests34, SubmitCommands
  <2>3. tx' \in Seq(Items)
    <3>1. PICK x \in Items : tx' = tx \/ tx' = Append(tx, x)
      BY <1>14, <2>2 DEF RespondQueue
    <3>2. tx \in Seq(Items)
      BY DEF Shape
    <3> QED BY <3>1, <3>2
  <2> QED BY <1>14, <2>3 DEF RespondQueue, Shape
<1>15. ASSUME NEW a \in Callers, RespondSettle(a) PROVE Shape'
  BY <1>15 DEF RespondSettle, Shape
<1>16. CASE \/ \E p \in Pdus : AbandonDeferredResponse(p)
            \/ \E c \in LocalCommands : LocalBegin(c)
            \/ \E ok \in BOOLEAN : LocalComplete(ok)
            \/ LocalCancel \/ Close \/ TermStep
  BY <1>16 DEF AbandonDeferredResponse, LocalBegin, LocalComplete, LocalCancel, Close, TermStep, Shape
<1>17. CASE UNCHANGED vars
  BY <1>17 DEF vars, Shape
<1> QED BY <1>1, <1>2, <1>3, <1>4, <1>5, <1>6, <1>7, <1>8, <1>9, <1>10, <1>11, <1>12, <1>13, <1>14,
           <1>15, <1>16, <1>17 DEF Next, RxHandle, TxLoop, RespondStep

(***************************************************************************)
(* Nothing follows an accepted unbind.  txLoop stops draining behind it,   *)
(* so it is the last of its batch, and stops itself after writing it.      *)
(***************************************************************************)
Final(q) == \A i \in 1..Len(q) : terminatesAfterWrite(q[i]) => i = Len(q)

Ended ==
    /\ Final(batch) /\ UnbindIsLast
    /\ txpc # "stopped" => \A i \in 1..Len(wire) : ~terminatesAfterWrite(wire[i])

\* An item behind a sequence that does not end in an accepted unbind.
LEMMA FinalAppend ==
    ASSUME NEW q \in Seq(Items), NEW x \in Items, q # <<>>, Final(q), ~terminatesAfterWrite(q[Len(q)])
    PROVE  Final(Append(q, x))
<1>1. Len(Append(q, x)) = Len(q) + 1 /\ Len(q) \in Nat
  OBVIOUS
<1>2. \A i \in 1..Len(q) : Append(q, x)[i] = q[i]
  OBVIOUS
<1> QED BY <1>1, <1>2 DEF Final

\* A batch, or the part of it that a failed write let through, behind a wire without
\* accepted unbinds.
LEMMA FinalConcat ==
    ASSUME NEW w \in Seq(Items), NEW q \in Seq(Items), Final(q),
           \A i \in 1..Len(w) : ~terminatesAfterWrite(w[i])
    PROVE  /\ Final(w \o q)
           /\ \A i \in 1..Len(w \o q) :
                 terminatesAfterWrite((w \o q)[i]) => q # <<>> /\ terminatesAfterWrite(q[Len(q)])
<1>1. Len(w) \in Nat /\ Len(q) \in Nat /\ Len(w \o q) = Len(w) + Len(q)
  OBVIOUS
<1>2. \A i \in 1..Len(w) : (w \o q)[i] = w[i]
  OBVIOUS
<1>3. \A i \in (Len(w) + 1)..(Len(w) + Len(q)) : (w \o q)[i] = q[i - Len(w)] /\ i - Len(w) \in 1..Len(q)
  OBVIOUS
<1>4. ASSUME NEW i \in 1..Len(w \o q), terminatesAfterWrite((w \o q)[i])
      PROVE  i = Len(w \o q) /\ q # <<>> /\ terminatesAfterWrite(q[Len(q)])
  <2>1. i \in (Len(w) + 1)..(Len(w) + Len(q))
    BY <1>1, <1>2, <1>4
  <2>2. i - Len(w) \in 1..Len(q) /\ terminatesAfterWrite(q[i - Len(w)])
    BY <1>3, <1>4, <2>1
  <2>3. i - Len(w) = Len(q)
    BY <2>2 DEF Final
  <2> QED BY <1>1, <2>1, <2>2, <2>3
<1> QED BY <1>4 DEF Final

\* A prefix of a batch is final as well.
LEMMA FinalPrefix ==
    ASSUME NEW q \in Seq(Items), Final(q), NEW k \in 0..Len(q)
    PROVE  SubSeq(q, 1, k) \in Seq(Items) /\ Final(SubSeq(q, 1, k))
<1>1. Len(q) \in Nat /\ SubSeq(q, 1, k) \in Seq(Items) /\ Len(SubSeq(q, 1, k)) = k
  OBVIOUS
<1>2. \A i \in 1..k : SubSeq(q, 1, k)[i] = q[i] /\ i \in 1..Len(q)
  OBVIOUS
<1> QED BY <1>1, <1>2 DEF Final

\* Each step keeps Ended; only txLoop touches what it speaks of.
LEMMA EndedStep ==
    ASSUME Shape, Ended, [Next]_vars
    PROVE  Ended'
<1> USE DEF sess, rxv, txv, app
<1>1. ASSUME UNCHANGED txv PROVE Ended'
  BY <1>1 DEF Ended, Final, UnbindIsLast
<1>2. CASE TxDequeue
  <2>1. batch' = <<Head(tx)>> /\ UNCHANGED wire /\ txpc # "stopped"
    BY <1>2 DEF TxDequeue
  <2>2. Len(batch') = 1
    BY <2>1
  <2> QED BY <2>1, <2>2 DEF Ended, Final, UnbindIsLast
<1>3. CASE TxDrain
  <2>1. Head(tx) \in Items
    BY <1>3, HeadTail DEF TxDrain, Shape
  <2>2. Final(batch')
    BY <1>3, <2>1, FinalAppend DEF TxDrain, Shape, Ended
  <2> QED BY <1>3, <2>2 DEF TxDrain, Ended, UnbindIsLast
<1>4. CASE TxCommit \/ TxStop
  BY <1>4 DEF TxCommit, TxStop, Ended, Final, UnbindIsLast
<1>5. CASE TxWrite
  <2>1. /\ txpc = "commit" /\ wire' = wire \o batch /\ batch' = <<>>
        /\ terminatesAfterWrite(batch[Len(batch)]) => txpc' = "stopped"
    BY <1>5 DEF TxWrite
  <2>2. /\ Final(wire')
        /\ \A i \in 1..Len(wire') : terminatesAfterWrite(wire'[i]) => terminatesAfterWrite(batch[Len(batch)])
    BY <2>1, FinalConcat DEF Shape, Ended
  <2>3. Final(batch')
    BY <2>1 DEF Final
  <2> QED BY <2>1, <2>2, <2>3 DEF Ended, Final, UnbindIsLast
<1>6. CASE TxWriteFail
  <2>1. txpc = "commit" /\ batch' = <<>> /\ txpc' = "stopped"
    BY <1>6 DEF TxWriteFail
  <2>2. PICK k \in 0..Len(batch) : wire' = wire \o SubSeq(batch, 1, k)
    BY <1>6 DEF TxWriteFail
  <2>3. SubSeq(batch, 1, k) \in Seq(Items) /\ Final(SubSeq(batch, 1, k))
    BY FinalPrefix DEF Shape, Ended
  <2>4. Final(wire')
    BY <2>1, <2>2, <2>3, FinalConcat DEF Shape, Ended
  <2>5. Final(batch')
    BY <2>1 DEF Final
  <2> QED BY <2>1, <2>4, <2>5 DEF Ended, Final, UnbindIsLast
<1>7. CASE \/ \E p \in Pdus, c \in PeerCommands, s \in InboundSeqs : RxRequest(p, c, s)
           \/ RxHandle \/ RxStop
  <2>1. UNCHANGED txv
    BY <1>7 DEF RxRequest, RxHandle, RxHandler, RxSuppress, RegisterDeferredReply, RxQueue, RxEncoderPanic,
                RxQueueFail, RxStop
  <2> QED BY <1>1, <2>1
<1>8. CASE \/ \E a \in Callers : RespondStep(a) \/ \E p \in Pdus : RespondDeferred(a, p)
           \/ \E p \in Pdus : AbandonDeferredResponse(p)
  <2>1. UNCHANGED txv
    BY <1>8 DEF RespondStep, RespondClaim, RespondQueue, RespondSettle, RespondDeferred, AbandonDeferredResponse
  <2> QED BY <1>1, <2>1
<1>9. CASE \/ \E c \in LocalCommands : LocalBegin(c)
           \/ \E ok \in BOOLEAN : LocalComplete(ok)
           \/ LocalCancel \/ Close \/ TermStep
  <2>1. UNCHANGED txv
    BY <1>9 DEF LocalBegin, LocalComplete, LocalCancel, Close, TermStep
  <2> QED BY <1>1, <2>1
<1>10. CASE UNCHANGED vars
  BY <1>1, <1>10 DEF vars
<1> QED BY <1>2, <1>3, <1>4, <1>5, <1>6, <1>7, <1>8, <1>9, <1>10 DEF Next, TxLoop

(***************************************************************************)
(* The deferred replies.  The counters alone say nothing of who may still  *)
(* change them: a caller between its claim and its settlement owns the     *)
(* busy slot of its number, and no two callers own the same one.           *)
(***************************************************************************)
Number(a) == iseq[apdu[a]]

Holds(a) == apc[a] \in {"queue", "settle"}

Settled(s) == \E a \in Callers : apc[a] = "settle" /\ aok[a] /\ Number(a) = s

Due(s) == IF deferred[s] # "none" /\ ~Settled(s) THEN 1 ELSE 0

Taken == {s \in InboundSeqs : deferred[s] # "none"}

Counters ==
    /\ deferred \in [InboundSeqs -> {"none", "reserved", "busy"}]
    /\ iseq \in [Pdus -> InboundSeqs \cup {0}] /\ (\A p \in Pdus : cmd[p] # NoCommand => iseq[p] \in InboundSeqs)
    /\ aok \in [Callers -> BOOLEAN]
    /\ registered \in [InboundSeqs -> Nat] /\ replied \in [InboundSeqs -> Nat]
    /\ abandoned \in [InboundSeqs -> Nat]

Owned ==
    \A a \in Callers : Holds(a) =>
        /\ deferred[Number(a)] = "busy"
        /\ \A b \in Callers : Holds(b) /\ Number(b) = Number(a) => b = a

Balanced == \A s \in InboundSeqs : registered[s] = replied[s] + abandoned[s] + Due(s)

Room == Cardinality(Taken) <= MaxDeferredResponses

\* terminate has cleared the map, so a slot taken now was taken since.
LateOnly == \A s \in InboundSeqs : deferred[s] # "none" => registered[s] > 0

Ledger ==
    /\ Counters /\ Room
    /\ term # "terminated" => Owned /\ Balanced
    /\ term = "terminated" => LateOnly

KeepsTerm == term' = "terminated" <=> term = "terminated"

deferralv == <<deferred, registered, replied, abandoned, apc, apdu, aok>>

\* A caller that holds a header knows a number the peer used.
LEMMA NumberType ==
    ASSUME Shape, Counters, NEW a \in Callers, apc[a] # "idle"
    PROVE  Number(a) \in InboundSeqs
  BY DEF Shape, Counters, Number, NoCommand

\* The slots taken are finitely many; taking one adds one, and giving up adds none.
LEMMA TakenFinite == IsFiniteSet(Taken) /\ Cardinality(Taken) \in Nat
<1>1. IsFiniteSet(Taken)
  BY ResponderAssumption, FS_Subset DEF Taken
<1> QED BY <1>1, FS_CardinalityType

\* Room is kept by every step that takes no slot.
LEMMA RoomKept ==
    ASSUME Room, Taken' \subseteq Taken
    PROVE  Room'
<1>1. Cardinality(Taken') \in Nat /\ Cardinality(Taken') <= Cardinality(Taken)
  BY TakenFinite, FS_Subset, FS_CardinalityType
<1> QED BY <1>1, TakenFinite, ResponderAssumption DEF Room

\* Steps that leave the slots, the counters and the callers alone.
LEMMA LedgerFrame ==
    ASSUME Shape, Ledger, UNCHANGED <<deferralv, cmd, iseq>>, KeepsTerm
    PROVE  Ledger'
<1>1. Taken' = Taken
  BY DEF deferralv, Taken
<1>2. Room'
  BY <1>1, RoomKept DEF Ledger
<1>3. Counters'
  BY DEF Ledger, Counters, deferralv
<1>4. Owned => Owned'
  BY DEF Owned, Holds, Number, deferralv
<1>5. \A s : Due(s)' = Due(s)
  BY DEF Due, Settled, Number, deferralv
<1>6. Balanced => Balanced'
  BY <1>5 DEF Balanced, deferralv
<1>7. LateOnly => LateOnly'
  BY DEF LateOnly, deferralv
<1> QED BY <1>2, <1>3, <1>4, <1>6, <1>7 DEF Ledger, KeepsTerm

\* A new PDU takes a number; the callers' headers are of PDUs read before.
LEMMA LedgerRequest ==
    ASSUME Shape, Ledger, NEW p \in Pdus, NEW c \in PeerCommands, NEW s \in InboundSeqs, RxRequest(p, c, s)
    PROVE  Ledger'
<1> USE DEF sess, rxv, txv, app
<1>1. /\ cmd[p] = NoCommand /\ cmd' = [cmd EXCEPT ![p] = c] /\ iseq' = [iseq EXCEPT ![p] = s]
      /\ UNCHANGED deferralv /\ term' = term
  BY DEF RxRequest, deferralv
<1>2. \A a \in Callers : apc[a] # "idle" => apdu[a] \in Pdus /\ apdu[a] # p
  BY <1>1 DEF Shape, NoCommand
<1>3. \A a \in Callers : apc[a] # "idle" => Number(a)' = Number(a)
  BY <1>1, <1>2 DEF Number, deferralv, Ledger, Counters
<1>4. Counters'
  BY <1>1 DEF Ledger, Counters, deferralv, Shape
<1>5. Room'
  BY <1>1, RoomKept DEF Ledger, Taken, deferralv
<1>6. Owned => Owned'
  BY <1>1, <1>3 DEF Owned, Holds, deferralv
<1>7. \A t : Settled(t)' <=> Settled(t)
  BY <1>1, <1>3 DEF Settled, deferralv
<1>8. Balanced => Balanced'
  BY <1>1, <1>7 DEF Balanced, Due, deferralv
<1>9. LateOnly => LateOnly'
  BY <1>1 DEF LateOnly, deferralv
<1> QED BY <1>1, <1>4, <1>5, <1>6, <1>8, <1>9 DEF Ledger

\* registerDeferredReply: a free number is taken while there is room.
LEMMA LedgerRegister ==
    ASSUME Shape, Ledger, RegisterDeferredReply
    PROVE  Ledger'
<1> USE DEF sess, rxv, txv, app
<1>1. PICK s \in InboundSeqs : s = iseq[rxpdu]
  BY DEF RegisterDeferredReply, Shape, Ledger, Counters, NoCommand
<1>2. UNCHANGED <<cmd, iseq, replied, abandoned, apc, apdu, aok>>
  BY DEF RegisterDeferredReply
<1>3. CASE UNCHANGED <<deferred, registered>>
  <2>1. KeepsTerm
    BY DEF RegisterDeferredReply, Terminate, KeepsTerm
  <2> QED BY <1>2, <1>3, <2>1, LedgerFrame DEF deferralv
<1>4. CASE /\ deferred[s] = "none" /\ Cardinality(Taken) < MaxDeferredResponses /\ UNCHANGED term
           /\ deferred' = [deferred EXCEPT ![s] = "reserved"]
           /\ registered' = [registered EXCEPT ![s] = @ + 1]
  <2>1. Counters'
    BY <1>1, <1>2, <1>4 DEF Ledger, Counters
  <2>2. Room'
    <3>1. Taken' = Taken \cup {s} /\ s \notin Taken
      BY <1>1, <1>4 DEF Taken, Ledger, Counters
    <3>2. Cardinality(Taken') = Cardinality(Taken) + 1
      BY <3>1, TakenFinite, FS_AddElement
    <3> QED BY <1>4, <3>2, TakenFinite, ResponderAssumption DEF Room
  <2>3. ASSUME Owned, Balanced PROVE Owned' /\ Balanced'
    <3>1. \A a \in Callers : Holds(a) => Number(a) # s
      BY <1>4, <2>3 DEF Owned
    <3>2. \A a \in Callers : Holds(a) => Number(a) \in InboundSeqs
      BY NumberType DEF Holds, Ledger
    <3>3. Owned'
      BY <1>1, <1>2, <1>4, <2>3, <3>1, <3>2 DEF Owned, Holds, Number, Ledger, Counters
    <3>4. \A t : Settled(t)' <=> Settled(t)
      BY <1>2 DEF Settled, Number
    <3>5. ~Settled(s)
      BY <3>1 DEF Settled, Holds
    <3>6. Due(s) = 0 /\ Due(s)' = 1
      BY <1>1, <1>2, <1>4, <3>4, <3>5 DEF Due, Ledger, Counters
    <3>7. \A t \in InboundSeqs : t # s => Due(t)' = Due(t)
      BY <1>1, <1>2, <1>4, <3>4 DEF Due, Ledger, Counters
    <3>8. ASSUME NEW t \in InboundSeqs PROVE (registered[t] = replied[t] + abandoned[t] + Due(t))'
      <4>1. CASE t = s
        BY <1>1, <1>2, <1>4, <2>3, <3>6, <4>1 DEF Balanced, Ledger, Counters
      <4>2. CASE t # s
        BY <1>1, <1>2, <1>4, <2>3, <3>7, <4>2 DEF Balanced, Ledger, Counters
      <4> QED BY <4>1, <4>2
    <3> QED BY <3>3, <3>8 DEF Balanced
  <2>4. LateOnly => LateOnly'
    BY <1>1, <1>4 DEF LateOnly, Ledger, Counters
  <2> QED BY <1>4, <2>1, <2>2, <2>3, <2>4 DEF Ledger
<1> QED BY <1>1, <1>3, <1>4 DEF RegisterDeferredReply, Taken

\* RespondDeferred begins: the caller holds nothing yet.
LEMMA LedgerRespond ==
    ASSUME Shape, Ledger, NEW a \in Callers, NEW p \in Pdus, RespondDeferred(a, p)
    PROVE  Ledger'
<1> USE DEF sess, rxv, txv, app
<1>1. /\ apc[a] = "idle" /\ apc' = [apc EXCEPT ![a] = "claim"] /\ apdu' = [apdu EXCEPT ![a] = p]
      /\ UNCHANGED <<cmd, iseq, deferred, registered, replied, abandoned, aok, term>>
  BY DEF RespondDeferred
<1>2. \A b \in Callers : (Holds(b)' <=> Holds(b)) /\ (Holds(b) => Number(b)' = Number(b))
  BY <1>1 DEF Shape, Holds, Number
<1>3. Counters' /\ Room'
  BY <1>1, RoomKept DEF Ledger, Counters, Taken
<1>4. Owned => Owned'
  BY <1>1, <1>2 DEF Owned
<1>5. \A t : Settled(t)' <=> Settled(t)
  BY <1>1 DEF Settled, Number, Shape
<1>6. Balanced => Balanced'
  BY <1>1, <1>5 DEF Balanced, Due
<1>7. LateOnly => LateOnly'
  BY <1>1 DEF LateOnly
<1> QED BY <1>1, <1>3, <1>4, <1>6, <1>7 DEF Ledger

\* The claim of RespondDeferred: a reserved slot has no other holder.
LEMMA LedgerClaim ==
    ASSUME Shape, Ledger, NEW a \in Callers, RespondClaim(a)
    PROVE  Ledger'
<1> USE DEF sess, rxv, txv, app
<1>1. PICK s \in InboundSeqs : s = Number(a)
  BY NumberType DEF RespondClaim, Ledger
<1>2. apc[a] = "claim" /\ UNCHANGED <<cmd, iseq, registered, replied, abandoned, aok, term>>
  BY DEF RespondClaim
<1>3. CASE /\ UNCHANGED deferred
           /\ apc' = [apc EXCEPT ![a] = "idle"] /\ apdu' = [apdu EXCEPT ![a] = NoPdu]
  <2>1. \A b \in Callers : (Holds(b)' <=> Holds(b)) /\ (Holds(b) => Number(b)' = Number(b))
    BY <1>2, <1>3 DEF Shape, Holds, Number
  <2>2. Counters' /\ Room'
    BY <1>2, <1>3, RoomKept DEF Ledger, Counters, Taken
  <2>3. Owned => Owned'
    BY <1>3, <2>1 DEF Owned
  <2>4. \A t : Settled(t)' <=> Settled(t)
    BY <1>2, <1>3 DEF Settled, Number, Shape
  <2>5. Balanced => Balanced'
    BY <1>2, <1>3, <2>4 DEF Balanced, Due
  <2>6. LateOnly => LateOnly'
    BY <1>2, <1>3 DEF LateOnly
  <2> QED BY <1>2, <2>2, <2>3, <2>5, <2>6 DEF Ledger
<1>4. CASE /\ deferred[s] = "reserved" /\ deferred' = [deferred EXCEPT ![s] = "busy"]
           /\ apc' = [apc EXCEPT ![a] = "queue"] /\ UNCHANGED apdu
  <2>1. Counters'
    BY <1>2, <1>4 DEF Ledger, Counters
  <2>2. Taken' = Taken
    BY <1>4 DEF Taken, Ledger, Counters
  <2>3. \A b \in Callers : Number(b)' = Number(b) /\ (Holds(b)' <=> Holds(b) \/ b = a)
    BY <1>2, <1>4 DEF Number, Holds, Shape
  <2>4. ASSUME Owned PROVE Owned'
    <3>1. \A b \in Callers : Holds(b) => Number(b) # s /\ Number(b) \in InboundSeqs
      BY <1>4, <2>4, NumberType DEF Owned, Holds, Ledger
    <3>2. \A t \in InboundSeqs : deferred'[t] = IF t = s THEN "busy" ELSE deferred[t]
      BY <1>4 DEF Ledger, Counters
    <3> QED BY <1>1, <2>3, <2>4, <3>1, <3>2 DEF Owned
  <2>5. \A t : Settled(t)' <=> Settled(t)
    BY <1>2, <1>4, <2>3 DEF Settled, Shape
  <2>6. \A t \in InboundSeqs : Due(t)' = Due(t)
    BY <1>4, <2>5 DEF Due, Ledger, Counters
  <2>7. Balanced => Balanced'
    BY <1>2, <2>6 DEF Balanced
  <2>8. LateOnly => LateOnly'
    BY <1>2, <1>4 DEF LateOnly, Ledger, Counters
  <2> QED BY <1>2, <2>1, <2>2, <2>4, <2>7, <2>8, RoomKept DEF Ledger
<1> QED BY <1>1, <1>3, <1>4 DEF RespondClaim, Number

\* The response is admitted, or not; the caller is the only holder of its number.
LEMMA LedgerQueue ==
    ASSUME Shape, Ledger, NEW a \in Callers, NEW ok \in BOOLEAN, RespondQueue(a, ok)
    PROVE  Ledger'
<1> USE DEF sess, rxv, txv, app
<1>1. PICK s \in InboundSeqs : s = Number(a)
  BY NumberType DEF RespondQueue, Ledger
<1>2. /\ apc[a] = "queue" /\ apc' = [apc EXCEPT ![a] = "settle"]
      /\ UNCHANGED <<cmd, iseq, deferred, registered, abandoned, apdu, term>>
  BY DEF RespondQueue
<1>3. \/ replied' = [replied EXCEPT ![s] = @ + 1] /\ aok' = [aok EXCEPT ![a] = TRUE]
      \/ replied' = replied /\ aok' = [aok EXCEPT ![a] = FALSE]
  BY <1>1 DEF RespondQueue, Number
<1>4. Counters' /\ Room'
  <2>1. aok' \in [Callers -> BOOLEAN] /\ replied' \in [InboundSeqs -> Nat]
    <3>1. aok \in [Callers -> BOOLEAN] /\ replied \in [InboundSeqs -> Nat]
      BY DEF Ledger, Counters
    <3>2. aok' \in [Callers -> BOOLEAN]
      BY <1>3, <3>1, Zenon
    <3>3. replied' = replied \/ replied' = [replied EXCEPT ![s] = @ + 1]
      BY <1>3
    <3>4. replied' \in [InboundSeqs -> Nat]
      BY <3>1, <3>3
    <3> QED BY <3>2, <3>4
  <2>2. Counters'
    BY <1>2, <2>1 DEF Ledger, Counters
  <2>3. Taken' = Taken
    BY <1>2 DEF Taken
  <2> QED BY <2>2, <2>3, RoomKept DEF Ledger
<1>5. \A b \in Callers : (Holds(b)' <=> Holds(b)) /\ Number(b)' = Number(b)
  BY <1>2 DEF Holds, Number, Shape
<1>6. Owned => Owned'
  BY <1>2, <1>5 DEF Owned
<1>7. ASSUME Owned, Balanced PROVE Balanced'
  <2>1. Holds(a) /\ deferred[s] = "busy" /\ (\A b \in Callers : Holds(b) /\ Number(b) = s => b = a)
    BY <1>1, <1>2, <1>7 DEF Owned, Holds
  <2>2. ~Settled(s)
    BY <1>2, <2>1 DEF Settled, Holds
  <2>3. \A t : t # s => (Settled(t)' <=> Settled(t))
    BY <1>1, <1>2, <1>3, <1>5 DEF Settled, Shape, Ledger, Counters
  <2>4. \A t \in InboundSeqs : t # s => Due(t)' = Due(t)
    BY <1>2, <2>3 DEF Due
  <2>5. Due(s) = 1
    BY <2>1, <2>2 DEF Due
  <2>6. CASE replied' = [replied EXCEPT ![s] = @ + 1] /\ aok' = [aok EXCEPT ![a] = TRUE]
    <3>1. Settled(s)'
      BY <1>1, <1>2, <1>5, <2>6 DEF Settled, Shape, Ledger, Counters
    <3>2. Due(s)' = 0
      BY <3>1 DEF Due
    <3>3. \A t \in InboundSeqs : replied'[t] = IF t = s THEN replied[s] + 1 ELSE replied[t]
      BY <2>6 DEF Ledger, Counters
    <3> QED BY <1>2, <1>7, <2>4, <2>5, <3>2, <3>3 DEF Balanced, Ledger, Counters
  <2>7. CASE replied' = replied /\ aok' = [aok EXCEPT ![a] = FALSE]
    <3>1. ~Settled(s)'
      BY <1>2, <1>5, <2>1, <2>7 DEF Settled, Holds, Shape, Ledger, Counters
    <3>2. Due(s)' = 1
      BY <1>2, <2>1, <3>1 DEF Due
    <3> QED BY <1>2, <1>7, <2>4, <2>5, <2>7, <3>2 DEF Balanced
  <2> QED BY <1>3, <2>6, <2>7
<1>8. LateOnly => LateOnly'
  BY <1>2 DEF LateOnly
<1> QED BY <1>2, <1>4, <1>6, <1>7, <1>8 DEF Ledger

\* The caller settles: the slot goes with an admitted reply and is free for a retry else.
LEMMA LedgerSettle ==
    ASSUME Shape, Ledger, NEW a \in Callers, RespondSettle(a)
    PROVE  Ledger'
<1> USE DEF sess, rxv, txv, app
<1>1. PICK s \in InboundSeqs : s = Number(a)
  BY NumberType DEF RespondSettle, Ledger
<1>2. /\ apc[a] = "settle" /\ apc' = [apc EXCEPT ![a] = "idle"] /\ apdu' = [apdu EXCEPT ![a] = NoPdu]
      /\ aok' = [aok EXCEPT ![a] = FALSE]
      /\ UNCHANGED <<cmd, iseq, registered, replied, abandoned, term>>
  BY DEF RespondSettle
<1>3. deferred' = [deferred EXCEPT ![s] = IF aok[a] THEN "none" ELSE IF @ # "none" THEN "reserved" ELSE "none"]
  BY <1>1 DEF RespondSettle, Number
<1>4. \A t \in InboundSeqs :
        deferred'[t] = IF t # s THEN deferred[t]
                       ELSE IF aok[a] \/ deferred[s] = "none" THEN "none" ELSE "reserved"
  BY <1>3 DEF Ledger, Counters
<1>5. Counters'
  BY <1>2, <1>3 DEF Ledger, Counters
<1>6. Room'
  <2>1. Taken' \subseteq Taken
    BY <1>4 DEF Taken
  <2> QED BY <2>1, RoomKept DEF Ledger
<1>7. \A b \in Callers : (Holds(b)' <=> Holds(b) /\ b # a) /\ (b # a => Number(b)' = Number(b))
  BY <1>2 DEF Holds, Number, Shape
<1>8. ASSUME Owned, Balanced PROVE Owned' /\ Balanced'
  <2>1. Holds(a) /\ deferred[s] = "busy" /\ (\A b \in Callers : Holds(b) /\ Number(b) = s => b = a)
    BY <1>1, <1>2, <1>8 DEF Owned, Holds
  <2>2. \A b \in Callers : Holds(b) => Number(b) \in InboundSeqs
    BY NumberType DEF Holds, Ledger
  <2>3. Owned'
    BY <1>4, <1>7, <1>8, <2>1, <2>2 DEF Owned
  <2>4. \A t : t # s => (Settled(t)' <=> Settled(t))
    BY <1>1, <1>2, <1>7 DEF Settled, Shape, Ledger, Counters
  <2>5. \A t \in InboundSeqs : t # s => Due(t)' = Due(t)
    BY <1>4, <2>4 DEF Due
  <2>6. Settled(s) <=> aok[a]
    BY <1>1, <1>2, <2>1 DEF Settled, Holds
  <2>7. ~Settled(s)'
    BY <1>2, <1>7, <2>1 DEF Settled, Holds, Shape, Ledger, Counters
  <2>8. Due(s)' = Due(s)
    BY <1>4, <2>1, <2>6, <2>7 DEF Due
  <2> QED BY <1>2, <1>8, <2>3, <2>5, <2>8 DEF Balanced
<1>9. LateOnly => LateOnly'
  BY <1>2, <1>4 DEF LateOnly
<1> QED BY <1>2, <1>5, <1>6, <1>8, <1>9 DEF Ledger

\* AbandonDeferredResponse gives up a slot that no caller holds.
LEMMA LedgerAbandon ==
    ASSUME Shape, Ledger, NEW p \in Pdus, AbandonDeferredResponse(p)
    PROVE  Ledger'
<1> USE DEF sess, rxv, txv, app
<1>1. PICK s \in InboundSeqs : s = iseq[p]
  BY DEF AbandonDeferredResponse, Shape, Ledger, Counters, NoCommand
<1>2. /\ deferred[s] = "reserved" /\ deferred' = [deferred EXCEPT ![s] = "none"]
      /\ abandoned' = [abandoned EXCEPT ![s] = @ + 1]
      /\ UNCHANGED <<cmd, iseq, registered, replied, apc, apdu, aok, term>>
  BY <1>1 DEF AbandonDeferredResponse
<1>3. /\ \A t \in InboundSeqs : deferred'[t] = IF t = s THEN "none" ELSE deferred[t]
      /\ \A t \in InboundSeqs : abandoned'[t] = IF t = s THEN abandoned[s] + 1 ELSE abandoned[t]
  BY <1>2 DEF Ledger, Counters
<1>4. Counters'
  BY <1>2 DEF Ledger, Counters
<1>5. Room'
  <2>1. Taken' \subseteq Taken
    BY <1>3 DEF Taken
  <2> QED BY <2>1, RoomKept DEF Ledger
<1>6. ASSUME Owned, Balanced PROVE Owned' /\ Balanced'
  <2>1. \A a \in Callers : Holds(a) => Number(a) # s /\ Number(a) \in InboundSeqs
    BY <1>2, <1>6, NumberType DEF Owned, Holds, Ledger
  <2>2. \A a \in Callers : (Holds(a)' <=> Holds(a)) /\ Number(a)' = Number(a)
    BY <1>2 DEF Holds, Number
  <2>3. Owned'
    BY <1>3, <1>6, <2>1, <2>2 DEF Owned
  <2>4. \A t : Settled(t)' <=> Settled(t)
    BY <1>2, <2>2 DEF Settled
  <2>5. Due(s) = 1 /\ Due(s)' = 0
    BY <1>2, <1>3, <2>1 DEF Due, Settled, Holds
  <2>6. \A t \in InboundSeqs : t # s => Due(t)' = Due(t)
    BY <1>3, <2>4 DEF Due
  <2> QED BY <1>2, <1>3, <1>6, <2>3, <2>5, <2>6 DEF Balanced, Ledger, Counters
<1>7. LateOnly => LateOnly'
  BY <1>2, <1>3 DEF LateOnly
<1> QED BY <1>2, <1>4, <1>5, <1>6, <1>7 DEF Ledger

\* terminate: the accounting goes on until the map is cleared, and starts again from nothing.
LEMMA LedgerTerminate ==
    ASSUME Shape, Ledger, TermStep
    PROVE  Ledger'
<1>1. CASE UNCHANGED <<deferred, registered>> /\ term' # "terminated" /\ term # "terminated"
  <2>1. UNCHANGED <<deferralv, cmd, iseq>> /\ KeepsTerm
    BY <1>1 DEF TermStep, app, deferralv, KeepsTerm
  <2> QED BY <2>1, LedgerFrame
<1>2. CASE /\ deferred' = [s \in InboundSeqs |-> "none"] /\ registered' = [s \in InboundSeqs |-> 0]
           /\ term' = "terminated"
  <2>1. UNCHANGED <<cmd, iseq, app>>
    BY DEF TermStep
  <2>2. Counters'
    BY <1>2, <2>1 DEF Ledger, Counters, app
  <2>3. Taken' \subseteq Taken
    BY <1>2 DEF Taken
  <2>4. LateOnly'
    BY <1>2 DEF LateOnly
  <2> QED BY <1>2, <2>2, <2>3, <2>4, RoomKept DEF Ledger
<1> QED BY <1>1, <1>2 DEF TermStep

\* Each step keeps the ledger.
LEMMA LedgerStep ==
    ASSUME Shape, Ledger, [Next]_vars
    PROVE  Ledger'
<1> USE DEF sess, rxv, txv, app
<1>1. CASE RxSuppress \/ (\E ok \in BOOLEAN : RxHandler(ok)) \/ RxQueue \/ RxEncoderPanic \/ RxQueueFail \/ RxStop
  <2>1. UNCHANGED <<deferralv, cmd, iseq>> /\ KeepsTerm
    BY <1>1 DEF RxSuppress, RxHandler, RxQueue, RxEncoderPanic, RxQueueFail, RxStop, Terminate, deferralv, KeepsTerm
  <2> QED BY <2>1, LedgerFrame
<1>2. CASE TxLoop
  <2>1. UNCHANGED <<deferralv, cmd, iseq>> /\ KeepsTerm
    BY <1>2 DEF TxLoop, TxDequeue, TxDrain, TxCommit, TxWrite, TxWriteFail, TxStop, Terminate, deferralv, KeepsTerm
  <2> QED BY <2>1, LedgerFrame
<1>3. CASE \/ \E c \in LocalCommands : LocalBegin(c)
           \/ \E ok \in BOOLEAN : LocalComplete(ok)
           \/ LocalCancel \/ Close
  <2>1. UNCHANGED <<deferralv, cmd, iseq>> /\ KeepsTerm
    BY <1>3 DEF LocalBegin, LocalComplete, LocalCancel, Close, Terminate, deferralv, KeepsTerm
  <2> QED BY <2>1, LedgerFrame
<1>4. CASE UNCHANGED vars
  <2>1. UNCHANGED <<deferralv, cmd, iseq>> /\ KeepsTerm
    BY <1>4 DEF vars, deferralv, KeepsTerm
  <2> QED BY <2>1, LedgerFrame
<1> QED BY <1>1, <1>2, <1>3, <1>4, LedgerRequest, LedgerRegister, LedgerRespond, LedgerClaim, LedgerQueue,
           LedgerSettle, LedgerAbandon, LedgerTerminate DEF Next, RxHandle, RespondStep

\* The three invariants hold initially.
LEMMA InvInit == Init => Shape /\ Ended /\ Ledger
<1> SUFFICES ASSUME Init PROVE Shape /\ Ended /\ Ledger
  OBVIOUS
<1> USE DEF Init
<1>1. Shape
  <2>1. NoItem \in Items
    BY ItemType DEF NoItem
  <2> QED BY <2>1 DEF Shape
<1>2. Ended
  BY DEF Ended, Final, UnbindIsLast
<1>3. Counters
  BY DEF Counters
<1>4. Room
  <2>1. Taken = {}
    BY DEF Taken
  <2> QED BY <2>1, FS_EmptySet, ResponderAssumption DEF Room
<1>5. Owned
  BY DEF Owned, Holds
<1>6. Balanced
  BY DEF Balanced, Due
<1> QED BY <1>1, <1>2, <1>3, <1>4, <1>5, <1>6 DEF Ledger

\* They hold in every reachable state.
LEMMA Invariant == Spec => [](Shape /\ Ended /\ Ledger)
<1> QED BY InvInit, ShapeStep, EndedStep, LedgerStep, PTL DEF Spec

\* Nothing follows an accepted unbind_resp on the wire, for any queue and batch: draining
\* stops behind it (txItemTerminatesAfterWrite) and txLoop returns after the write, also
\* when the write fails half-way.
THEOREM NothingAfterUnbind == Spec => []UnbindIsLast
<1>1. Ended => UnbindIsLast
  BY DEF Ended
<1> QED BY <1>1, Invariant, PTL

\* "One deferred token can queue at most one reply" (docs/CONCURRENCY.md), for any number of
\* goroutines answering and abandoning: until terminate clears the map every registered
\* request is answered, abandoned or still reserved, exactly one of them; after that no slot
\* of before comes back; and the map keeps to its configured size.
THEOREM DeferredExact == Spec => []DeferredAccounting
<1>1. Ledger => DeferredAccounting
  <2> SUFFICES ASSUME Ledger PROVE DeferredAccounting
    OBVIOUS
  <2>1. Cardinality({s \in InboundSeqs : deferred[s] # "none"}) <= MaxDeferredResponses
    BY DEF Ledger, Room, Taken
  <2>2. term # "terminated" => \A s \in InboundSeqs : registered[s] = replied[s] + abandoned[s] + Due(s)
    BY DEF Ledger, Balanced
  <2>3. term = "terminated" => \A s \in InboundSeqs : deferred[s] # "none" => registered[s] > 0
    BY DEF Ledger, LateOnly
  <2> QED BY <2>1, <2>2, <2>3 DEF DeferredAccounting, Due, Settled, Number
<1> QED BY <1>1, Invariant, PTL
=============================================================================
