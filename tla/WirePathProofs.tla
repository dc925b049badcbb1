--------------------------- MODULE WirePathProofs ---------------------------
(***************************************************************************)
(* That no buffer of the frame pool ever has two owners, for any number of *)
(* senders and buffers, any scripts, queue size, batch size and capacities.*)
(*                                                                         *)
(* BuffersExclusive is not inductive alone: a step that gives a buffer     *)
(* back must know that the buffer is one its actor owned.  Shape says      *)
(* which program counters have a buffer, an item or a call at hand.        *)
(***************************************************************************)
EXTENDS WirePath, SequenceTheorems, TLAPS

\* What each program counter promises about the data its next step uses.
Shape ==
    /\ calls \in [Senders -> Seq(PDUs)]
    /\ pc \in [Senders -> {"idle", "get", "encode", "enqueue", "await"}]
    /\ buf \in [Senders -> Buffers \cup {NoBuffer}]
    /\ pool \in [Buffers -> Nat]
    /\ tx \in Seq(Item) /\ batch \in Seq(Item) /\ flushed \in Seq(Item)
    /\ \A s \in Senders :
          /\ pc[s] # "idle" => calls[s] # <<>>
          /\ pc[s] \in {"encode", "enqueue"} <=> buf[s] # NoBuffer
    /\ txpc \in {"idle", "gather", "write", "after", "failed", "stopped"}
    /\ txpc \in {"gather", "write"} => batch # <<>>
    /\ txpc = "after" => flushed # <<>>

Inv == Shape /\ BuffersExclusive

(***************************************************************************)
(* Lists of items.                                                         *)
(***************************************************************************)
\* Appending an item adds its buffer to the list and nothing else.
LEMMA InAppend ==
    ASSUME NEW items \in Seq(Item), NEW x \in Item, NEW b
    PROVE  In(Append(items, x), b) <=> In(items, b) \/ x.buf = b
<1>1. Len(Append(items, x)) = Len(items) + 1 /\ Append(items, x)[Len(items) + 1] = x
      /\ \A i \in 1 .. Len(items) : Append(items, x)[i] = items[i]
  OBVIOUS
<1>2. DOMAIN items = 1 .. Len(items) /\ DOMAIN Append(items, x) = 1 .. (Len(items) + 1) /\ Len(items) \in Nat
  OBVIOUS
<1> QED BY <1>1, <1>2 DEF In

\* A list's buffers are its head's and its tail's.
LEMMA InTail ==
    ASSUME NEW items \in Seq(Item), items # <<>>, NEW b
    PROVE  In(items, b) <=> Head(items).buf = b \/ In(Tail(items), b)
<1>1. /\ Head(items) = items[1] /\ Len(Tail(items)) = Len(items) - 1
      /\ \A i \in 1 .. Len(items) - 1 : Tail(items)[i] = items[i + 1]
      /\ Len(items) \in Nat \ {0}
  OBVIOUS
<1>2. DOMAIN items = 1 .. Len(items) /\ DOMAIN Tail(items) = 1 .. (Len(items) - 1)
  BY <1>1
<1>3. In(items, b) => Head(items).buf = b \/ In(Tail(items), b)
  <2> SUFFICES ASSUME NEW i \in 1 .. Len(items), items[i].buf = b, i # 1
               PROVE  In(Tail(items), b)
    BY <1>1, <1>2 DEF In
  <2>1. i - 1 \in 1 .. Len(items) - 1 /\ Tail(items)[i - 1] = items[i]
    BY <1>1
  <2> QED BY <2>1, <1>2 DEF In
<1>4. In(Tail(items), b) => In(items, b)
  <2> SUFFICES ASSUME NEW i \in 1 .. Len(items) - 1, Tail(items)[i].buf = b
               PROVE  In(items, b)
    BY <1>2 DEF In
  <2>1. i + 1 \in 1 .. Len(items) /\ items[i + 1].buf = b
    BY <1>1
  <2> QED BY <2>1, <1>2 DEF In
<1>5. Head(items).buf = b => In(items, b)
  BY <1>1, <1>2 DEF In
<1> QED BY <1>3, <1>4, <1>5

\* A buffer that is not in a list may be appended to it.
LEMMA NoneTwiceAppend ==
    ASSUME NEW items \in Seq(Item), NEW x \in Item, NoneTwice(items), ~In(items, x.buf)
    PROVE  NoneTwice(Append(items, x))
<1>1. Len(Append(items, x)) = Len(items) + 1 /\ Append(items, x)[Len(items) + 1] = x
      /\ \A i \in 1 .. Len(items) : Append(items, x)[i] = items[i]
  OBVIOUS
<1>2. DOMAIN items = 1 .. Len(items) /\ DOMAIN Append(items, x) = 1 .. (Len(items) + 1) /\ Len(items) \in Nat
  OBVIOUS
<1>3. \A i \in 1 .. Len(items) : items[i].buf # x.buf
  BY <1>2 DEF In
<1> QED BY <1>1, <1>2, <1>3 DEF NoneTwice

\* The buffer of the head is not in the tail.
LEMMA NoneTwiceTail ==
    ASSUME NEW items \in Seq(Item), items # <<>>, NoneTwice(items)
    PROVE  NoneTwice(Tail(items)) /\ ~In(Tail(items), Head(items).buf)
<1>1. /\ Head(items) = items[1] /\ Len(Tail(items)) = Len(items) - 1
      /\ \A i \in 1 .. Len(items) - 1 : Tail(items)[i] = items[i + 1]
      /\ Len(items) \in Nat \ {0}
  OBVIOUS
<1>2. DOMAIN items = 1 .. Len(items) /\ DOMAIN Tail(items) = 1 .. (Len(items) - 1)
  BY <1>1
<1>3. NoneTwice(Tail(items))
  <2> SUFFICES ASSUME NEW i \in 1 .. Len(items) - 1, NEW j \in 1 .. Len(items) - 1,
                      items[i + 1].buf = items[j + 1].buf
               PROVE  i = j
    BY <1>1, <1>2 DEF NoneTwice
  <2>1. i + 1 \in DOMAIN items /\ j + 1 \in DOMAIN items
    BY <1>1, <1>2
  <2>2. i + 1 = j + 1
    BY <2>1 DEF NoneTwice
  <2> QED BY <2>2
<1>4. ~In(Tail(items), Head(items).buf)
  <2> SUFFICES ASSUME NEW i \in 1 .. Len(items) - 1, items[i + 1].buf = items[1].buf
               PROVE  FALSE
    BY <1>1, <1>2 DEF In
  <2>1. i + 1 \in DOMAIN items /\ 1 \in DOMAIN items /\ i + 1 # 1
    BY <1>1, <1>2
  <2> QED BY <2>1 DEF NoneTwice
<1> QED BY <1>3, <1>4

(***************************************************************************)
(* Shape.                                                                  *)
(***************************************************************************)
LEMMA HeadTail ==
    ASSUME NEW S, NEW q \in Seq(S), q # <<>>
    PROVE  Head(q) \in S /\ Tail(q) \in Seq(S)
  OBVIOUS

\* The first item of a list, its buffer and the rest.
LEMMA HeadItem ==
    ASSUME NEW q \in Seq(Item), q # <<>>
    PROVE  Head(q) \in Item /\ Head(q).buf \in Buffers /\ Tail(q) \in Seq(Item)
<1>1. Head(q) \in Item /\ Tail(q) \in Seq(Item)
  BY HeadTail
<1> QED BY <1>1 DEF Item

\* Giving a free buffer back puts it in the pool at most once and leaves the others alone.
LEMMA PutFree ==
    ASSUME NEW b \in Buffers, pool \in [Buffers -> Nat], pool[b] = 0
    PROVE  /\ put(pool, b) \in [Buffers -> Nat]
           /\ put(pool, b)[b] \in {0, 1}
           /\ \A c \in Buffers \ {b} : put(pool, b)[c] = pool[c]
  BY DEF put

\* Whatever it holds, put yields a pool.
LEMMA PutType ==
    ASSUME NEW b \in Buffers, pool \in [Buffers -> Nat]
    PROVE  put(pool, b) \in [Buffers -> Nat]
  BY DEF put

\* The effect of Return on the sender's part of Shape.
LEMMA ReturnShape ==
    ASSUME Shape, NEW s \in Senders, calls[s] # <<>>, Return(s)
    PROVE  /\ calls' \in [Senders -> Seq(PDUs)]
           /\ pc' \in [Senders -> {"idle", "get", "encode", "enqueue", "await"}]
           /\ buf' \in [Senders -> Buffers \cup {NoBuffer}]
           /\ \A t \in Senders : /\ pc'[t] # "idle" => calls'[t] # <<>>
                                 /\ pc'[t] \in {"encode", "enqueue"} <=> buf'[t] # NoBuffer
<1>1. Tail(calls[s]) \in Seq(PDUs)
  BY HeadTail DEF Shape
<1> QED BY <1>1 DEF Shape, Return

\* Every step keeps Shape.
LEMMA ShapeStep ==
    ASSUME Shape, [Next]_vars
    PROVE  Shape'
<1>0. ASSUME NEW s \in Senders, Begin(s) PROVE Shape'
  <2>1. pc[s] = "idle" /\ calls[s] # <<>> /\ UNCHANGED <<poolv, txv>>
    BY <1>0 DEF Begin
  <2>2. CASE Return(s)
    BY <2>1, <2>2, ReturnShape DEF Shape, txv, poolv
  <2>3. CASE pc' = [pc EXCEPT ![s] = "get"] /\ UNCHANGED <<calls, buf>>
    BY <2>1, <2>3 DEF Shape, txv, poolv
  <2> QED BY <1>0, <2>2, <2>3 DEF Begin
<1>1. ASSUME NEW s \in Senders, TakeBuffer(s) PROVE Shape'
  <2>1. PICK b \in Buffers : get(s, b)
    BY <1>1 DEF TakeBuffer, Fresh
  <2>2. pool' \in [Buffers -> Nat] /\ buf' = [buf EXCEPT ![s] = b]
    BY <2>1 DEF get, Shape
  <2> QED BY <1>1, <2>2, BuffersAssumption DEF TakeBuffer, Shape, txv
<1>2. ASSUME NEW s \in Senders, Encode(s) PROVE Shape'
  <2>1. pc[s] = "encode" /\ buf[s] \in Buffers /\ UNCHANGED txv
    BY <1>2 DEF Encode, Shape
  <2>2. CASE pool' = put(pool, buf[s]) /\ Return(s)
    BY <2>1, <2>2, PutType, ReturnShape DEF Shape, txv
  <2>3. CASE pc' = [pc EXCEPT ![s] = "enqueue"] /\ UNCHANGED <<pool, calls, buf, pending>>
    BY <2>1, <2>3 DEF Shape, txv
  <2> QED BY <1>2, <2>2, <2>3 DEF Encode
<1>3. ASSUME NEW s \in Senders, Enqueue(s) PROVE Shape'
  <2>1. /\ pc[s] = "enqueue" /\ buf[s] \in Buffers /\ Pdu(s) \in PDUs
        /\ tx' = Append(tx, [pdu |-> Pdu(s), buf |-> buf[s]])
        /\ UNCHANGED <<pool, batch, flushed, txpc>>
    BY <1>3, HeadTail DEF Enqueue, Shape, Pdu, poolv
  <2>2. tx' \in Seq(Item)
    BY <2>1 DEF Shape, Item
  <2>3. CASE Return(s)
    BY <2>1, <2>2, <2>3, ReturnShape DEF Shape
  <2>4. CASE pc' = [pc EXCEPT ![s] = "await"] /\ buf' = [buf EXCEPT ![s] = NoBuffer] /\ UNCHANGED calls
    BY <2>1, <2>2, <2>4 DEF Shape
  <2> QED BY <1>3, <2>3, <2>4 DEF Enqueue
<1>4. ASSUME NEW s \in Senders, EnqueueAborted(s) PROVE Shape'
  <2>1. /\ pc[s] = "enqueue" /\ buf[s] \in Buffers
        /\ pool' = put(pool, buf[s]) /\ Return(s) /\ UNCHANGED txv
    BY <1>4 DEF EnqueueAborted, Shape
  <2> QED BY <2>1, PutType, ReturnShape DEF Shape, txv
<1>5. ASSUME NEW s \in Senders, Completed(s) PROVE Shape'
  <2>1. pc[s] = "await" /\ Return(s) /\ UNCHANGED <<poolv, txv>>
    BY <1>5 DEF Completed
  <2> QED BY <2>1, ReturnShape DEF Shape, txv, poolv
<1>6. CASE TxTake
  <2>1. tx # <<>> /\ tx \in Seq(Item) /\ tx' = Tail(tx)
    BY <1>6 DEF TxTake, Shape
  <2>2. Head(tx) \in Item /\ Tail(tx) \in Seq(Item) /\ Head(tx).buf \in Buffers
    BY <2>1, HeadItem
  <2>3. CASE pool' = put(pool, Head(tx).buf) /\ UNCHANGED <<batch, txpc>>
    <3>1. pool' \in [Buffers -> Nat]
      BY <2>2, <2>3, PutType DEF Shape
    <3> QED BY <1>6, <2>1, <2>2, <2>3, <3>1 DEF TxTake, Shape, callv
  <2>4. CASE batch' = Append(batch, Head(tx)) /\ txpc' = "gather" /\ UNCHANGED pool
    <3>1. batch' \in Seq(Item) /\ batch' # <<>>
      BY <2>2, <2>4 DEF Shape
    <3> QED BY <1>6, <2>1, <2>2, <2>4, <3>1 DEF TxTake, Shape, callv
  <2> QED BY <1>6, <2>3, <2>4 DEF TxTake
<1>7. CASE TxClose
  BY <1>7 DEF TxClose, Shape, callv, poolv
<1>8. CASE TxWrite
  <2>1. Head(batch) \in Item /\ Tail(batch) \in Seq(Item)
    BY <1>8, HeadTail DEF TxWrite, Shape
  <2>2. flushed' \in Seq(Item) /\ batch' \in Seq(Item) /\ flushed' # <<>>
    BY <1>8, <2>1 DEF TxWrite, Shape
  <2> QED BY <1>8, <2>2 DEF TxWrite, Shape, callv, poolv
<1>9. CASE TxWriteFails
  BY <1>9 DEF TxWriteFails, Shape, callv, poolv
<1>10. CASE TxGiveBack
  <2>1. ASSUME NEW q \in {flushed, batch}, q # <<>>
        PROVE  Tail(q) \in Seq(Item) /\ put(pool, Head(q).buf) \in [Buffers -> Nat]
    <3>1. q \in Seq(Item)
      BY DEF Shape
    <3>2. Tail(q) \in Seq(Item) /\ Head(q).buf \in Buffers
      BY <2>1, <3>1, HeadItem
    <3> QED BY <3>2, PutType DEF Shape
  <2>2. pool' \in [Buffers -> Nat] /\ batch' \in Seq(Item) /\ flushed' \in Seq(Item)
    BY <1>10, <2>1 DEF TxGiveBack, Shape
  <2> QED BY <1>10, <2>2 DEF TxGiveBack, Shape, callv
<1>11. CASE TxAfter
  <2>1. Tail(flushed) \in Seq(Item) /\ put(pool, Head(flushed).buf) \in [Buffers -> Nat]
    <3>1. flushed \in Seq(Item) /\ flushed # <<>>
      BY <1>11 DEF TxAfter, Shape
    <3>2. Tail(flushed) \in Seq(Item) /\ Head(flushed).buf \in Buffers
      BY <3>1, HeadItem
    <3> QED BY <3>2, PutType DEF Shape
  <2> QED BY <1>11, <2>1 DEF TxAfter, Shape, callv
<1>12. CASE TxStop
  BY <1>12 DEF TxStop, Shape, callv, poolv
<1>13. CASE Terminate
  BY <1>13 DEF Terminate, Shape, callv, poolv
<1>14. CASE processFrame
  BY <1>14 DEF processFrame, Shape, callv, poolv, txv
<1>15. CASE UNCHANGED vars
  BY <1>15 DEF vars, Shape, callv, poolv, txv
<1> QED BY <1>0, <1>1, <1>2, <1>3, <1>4, <1>5, <1>6, <1>7, <1>8, <1>9, <1>10, <1>11, <1>12, <1>13, <1>14, <1>15 DEF Next

(***************************************************************************)
(* Exclusive ownership.                                                    *)
(***************************************************************************)
\* A sender that leaves its call gives up the buffer it holds, if any.
LEMMA GiveUp ==
    ASSUME Inv, NEW s \in Senders, buf' = [buf EXCEPT ![s] = NoBuffer]
    PROVE  /\ \A b \in Buffers : Held(b)' => Held(b) /\ b # buf[s]
           /\ \A t, u \in Senders : buf'[t] = buf'[u] => t = u \/ buf'[t] = NoBuffer
<1>1. \A t \in Senders : buf'[t] = IF t = s THEN NoBuffer ELSE buf[t]
  BY DEF Inv, Shape
<1> QED BY <1>1, BuffersAssumption DEF Held, Inv, BuffersExclusive

\* A step that gives back the buffer of a sender that leaves.
LEMMA SenderPuts ==
    ASSUME Inv, NEW s \in Senders, buf[s] \in Buffers, pool' = put(pool, buf[s]), Return(s),
           UNCHANGED txv
    PROVE  BuffersExclusive'
<1>1. Held(buf[s]) /\ pool[buf[s]] = 0
  BY DEF Held, Used, Inv, BuffersExclusive
<1>2. pool'[buf[s]] \in {0, 1} /\ \A c \in Buffers \ {buf[s]} : pool'[c] = pool[c]
  BY <1>1, PutFree DEF Inv, Shape
<1>3. /\ \A b \in Buffers : Held(b)' => Held(b) /\ b # buf[s]
      /\ \A t, u \in Senders : buf'[t] = buf'[u] => t = u \/ buf'[t] = NoBuffer
  BY GiveUp DEF Return
<1>4. UNCHANGED <<tx, batch, flushed>>
  BY DEF txv
<1> QED BY <1>1, <1>2, <1>3, <1>4 DEF Inv, BuffersExclusive, Used

\* A step that gives back the buffer of the first item of a list.
LEMMA HeadPut ==
    ASSUME Inv, NEW q \in {tx, batch, flushed}, q # <<>>
    PROVE  LET b == Head(q).buf
           IN  /\ b \in Buffers /\ In(q, b) /\ pool[b] = 0
               /\ put(pool, b)[b] \in {0, 1}
               /\ \A c \in Buffers \ {b} : put(pool, b)[c] = pool[c]
               /\ NoneTwice(Tail(q)) /\ ~In(Tail(q), b)
               /\ \A c : In(q, c) <=> c = b \/ In(Tail(q), c)
<1> DEFINE b == Head(q).buf
<1>1. q \in Seq(Item) /\ NoneTwice(q)
  BY DEF Inv, Shape, BuffersExclusive
<1>2. b \in Buffers
  BY <1>1, HeadItem
<1>3. \A c : In(q, c) <=> b = c \/ In(Tail(q), c)
  BY <1>1, InTail
<1>4. pool[b] = 0
  BY <1>2, <1>3 DEF Inv, BuffersExclusive, Used
<1>5. NoneTwice(Tail(q)) /\ ~In(Tail(q), b)
  BY <1>1, NoneTwiceTail
<1>6. put(pool, b)[b] \in {0, 1} /\ \A c \in Buffers \ {b} : put(pool, b)[c] = pool[c]
  BY <1>2, <1>4, PutFree DEF Inv, Shape
<1> QED BY <1>2, <1>3, <1>4, <1>5, <1>6

\* Every step keeps a buffer's owner unique.
LEMMA ExclusiveStep ==
    ASSUME Inv, [Next]_vars
    PROVE  BuffersExclusive'
<1> USE DEF Inv
<1>0. ASSUME NEW s \in Senders, Begin(s) PROVE BuffersExclusive'
  <2>1. UNCHANGED <<pool, tx, batch, flushed>>
    BY <1>0 DEF Begin, poolv, txv
  <2>2. CASE buf' = [buf EXCEPT ![s] = NoBuffer]
    BY <2>1, <2>2, GiveUp DEF BuffersExclusive, Used
  <2>3. CASE UNCHANGED buf
    BY <2>1, <2>3 DEF BuffersExclusive, Used, Held
  <2> QED BY <1>0, <2>2, <2>3 DEF Begin, Return
<1>1. ASSUME NEW s \in Senders, TakeBuffer(s) PROVE BuffersExclusive'
  <2>1. PICK b \in Buffers : get(s, b) /\ (pool[b] > 0 \/ ~Used(b))
    BY <1>1 DEF TakeBuffer, Fresh
  <2>2. ~Used(b)
    BY <2>1 DEF BuffersExclusive
  <2>3. pool'[b] = 0 /\ \A c \in Buffers \ {b} : pool'[c] = pool[c]
    BY <2>1 DEF get, Shape, BuffersExclusive
  <2>4. \A t \in Senders : buf'[t] = IF t = s THEN b ELSE buf[t]
    BY <2>1 DEF get, Shape
  <2>5. \A c \in Buffers : Held(c)' => Held(c) \/ c = b
    BY <2>4 DEF Held
  <2>6. \A t, u \in Senders : buf'[t] = buf'[u] => t = u \/ buf'[t] = NoBuffer
    BY <2>2, <2>4 DEF Held, Used, BuffersExclusive
  <2>7. UNCHANGED <<tx, batch, flushed>>
    BY <1>1 DEF TakeBuffer, txv
  <2> QED BY <2>2, <2>3, <2>5, <2>6, <2>7 DEF BuffersExclusive, Used
<1>2. ASSUME NEW s \in Senders, Encode(s) PROVE BuffersExclusive'
  <2>1. pc[s] = "encode" /\ buf[s] \in Buffers /\ UNCHANGED txv
    BY <1>2 DEF Encode, Shape
  <2>2. CASE pool' = put(pool, buf[s]) /\ Return(s)
    BY <2>1, <2>2, SenderPuts
  <2>3. CASE UNCHANGED <<pool, calls, buf, pending>>
    BY <2>1, <2>3 DEF BuffersExclusive, Used, Held, txv
  <2> QED BY <1>2, <2>2, <2>3 DEF Encode
<1>3. ASSUME NEW s \in Senders, Enqueue(s) PROVE BuffersExclusive'
  <2> DEFINE x == [pdu |-> Pdu(s), buf |-> buf[s]]
  <2>1. buf[s] \in Buffers /\ x \in Item /\ x.buf = buf[s] /\ Held(buf[s])
    BY <1>3, HeadTail DEF Enqueue, Shape, Pdu, Item, Held
  <2>2. tx' = Append(tx, x) /\ UNCHANGED <<pool, batch, flushed>> /\ buf' = [buf EXCEPT ![s] = NoBuffer]
    BY <1>3 DEF Enqueue, Return, poolv
  <2> HIDE DEF x
  <2>3. \A c : In(tx', c) <=> In(tx, c) \/ c = buf[s]
    BY <2>1, <2>2, InAppend DEF Shape
  <2>4. NoneTwice(tx')
    BY <2>1, <2>2, NoneTwiceAppend DEF Shape, BuffersExclusive
  <2>5. /\ \A c \in Buffers : Held(c)' => Held(c) /\ c # buf[s]
        /\ \A t, u \in Senders : buf'[t] = buf'[u] => t = u \/ buf'[t] = NoBuffer
    BY <2>2, GiveUp
  <2> QED BY <2>1, <2>2, <2>3, <2>4, <2>5 DEF BuffersExclusive, Used
<1>4. ASSUME NEW s \in Senders, EnqueueAborted(s) PROVE BuffersExclusive'
  BY <1>4, SenderPuts DEF EnqueueAborted, Shape
<1>5. ASSUME NEW s \in Senders, Completed(s) PROVE BuffersExclusive'
  <2>1. buf' = [buf EXCEPT ![s] = NoBuffer] /\ UNCHANGED <<pool, tx, batch, flushed>>
    BY <1>5 DEF Completed, Return, poolv, txv
  <2> QED BY <2>1, GiveUp DEF BuffersExclusive, Used
<1>6. CASE TxTake
  <2> DEFINE x == Head(tx)
  <2>1. tx # <<>> /\ tx' = Tail(tx) /\ UNCHANGED <<buf, flushed>>
    BY <1>6 DEF TxTake, callv
  <2>2. x \in Item /\ x.buf \in Buffers
    BY <2>1, HeadItem DEF Shape
  <2> HIDE DEF x
  <2>3. /\ In(tx, x.buf) /\ NoneTwice(tx') /\ ~In(tx', x.buf)
        /\ \A c : In(tx, c) <=> c = x.buf \/ In(tx', c)
    BY <2>1, HeadPut DEF x
  <2>4. CASE batch' = Append(batch, x) /\ UNCHANGED pool
    <3>1. \A c : In(batch', c) <=> In(batch, c) \/ c = x.buf
      BY <2>2, <2>4, InAppend DEF Shape
    <3>2. NoneTwice(batch')
      BY <2>2, <2>3, <2>4, NoneTwiceAppend DEF Shape, BuffersExclusive
    <3> QED BY <2>1, <2>2, <2>3, <2>4, <3>1, <3>2 DEF BuffersExclusive, Used, Held
  <2>5. CASE pool' = put(pool, x.buf) /\ UNCHANGED batch
    <3>1. pool'[x.buf] \in {0, 1} /\ \A c \in Buffers \ {x.buf} : pool'[c] = pool[c]
      BY <2>1, <2>5, HeadPut DEF x
    <3> QED BY <2>1, <2>2, <2>3, <2>5, <3>1 DEF BuffersExclusive, Used, Held
  <2> QED BY <1>6, <2>4, <2>5 DEF TxTake, x
<1>7. CASE TxWrite
  <2> DEFINE x == Head(batch)
  <2>1. /\ batch # <<>> /\ batch' = Tail(batch) /\ flushed' = Append(flushed, x)
        /\ UNCHANGED <<buf, tx, pool>>
    BY <1>7 DEF TxWrite, callv, poolv, Shape
  <2>2. x \in Item /\ x.buf \in Buffers
    BY <2>1, HeadItem DEF Shape
  <2> HIDE DEF x
  <2>3. /\ In(batch, x.buf) /\ NoneTwice(batch') /\ ~In(batch', x.buf)
        /\ \A c : In(batch, c) <=> c = x.buf \/ In(batch', c)
    BY <2>1, HeadPut DEF x
  <2>4. \A c : In(flushed', c) <=> In(flushed, c) \/ c = x.buf
    BY <2>1, <2>2, InAppend DEF Shape
  <2>5. NoneTwice(flushed')
    BY <2>1, <2>2, <2>3, NoneTwiceAppend DEF Shape, BuffersExclusive
  <2> QED BY <2>1, <2>2, <2>3, <2>4, <2>5 DEF BuffersExclusive, Used, Held
<1>8. ASSUME flushed # <<>>, pool' = put(pool, Head(flushed).buf), flushed' = Tail(flushed),
             UNCHANGED <<buf, tx, batch>>
      PROVE  BuffersExclusive'
  <2> DEFINE b == Head(flushed).buf
  <2>1. /\ b \in Buffers /\ In(flushed, b) /\ NoneTwice(flushed') /\ ~In(flushed', b)
        /\ pool'[b] \in {0, 1} /\ \A c \in Buffers \ {b} : pool'[c] = pool[c]
        /\ \A c : In(flushed, c) <=> c = b \/ In(flushed', c)
    BY <1>8, HeadPut
  <2> HIDE DEF b
  <2> QED BY <1>8, <2>1 DEF BuffersExclusive, Used, Held
<1>9. ASSUME batch # <<>>, pool' = put(pool, Head(batch).buf), batch' = Tail(batch),
             UNCHANGED <<buf, tx, flushed>>
      PROVE  BuffersExclusive'
  <2> DEFINE b == Head(batch).buf
  <2>1. /\ b \in Buffers /\ In(batch, b) /\ NoneTwice(batch') /\ ~In(batch', b)
        /\ pool'[b] \in {0, 1} /\ \A c \in Buffers \ {b} : pool'[c] = pool[c]
        /\ \A c : In(batch, c) <=> c = b \/ In(batch', c)
    BY <1>9, HeadPut
  <2> HIDE DEF b
  <2> QED BY <1>9, <2>1 DEF BuffersExclusive, Used, Held
<1>10. ASSUME UNCHANGED <<pool, buf, tx, batch, flushed>> PROVE BuffersExclusive'
  BY <1>10 DEF BuffersExclusive, Used, Held
<1>11. CASE TxGiveBack
  BY <1>8, <1>9, <1>10, <1>11 DEF TxGiveBack, callv
<1>12. CASE TxAfter
  BY <1>8, <1>12 DEF TxAfter, callv, Shape
<1>13. CASE TxClose \/ TxWriteFails \/ TxStop \/ Terminate \/ processFrame \/ UNCHANGED vars
  BY <1>10, <1>13 DEF TxClose, TxWriteFails, TxStop, Terminate, processFrame, vars, callv, poolv, txv
<1> QED BY <1>0, <1>1, <1>2, <1>3, <1>4, <1>5, <1>6, <1>7, <1>11, <1>12, <1>13 DEF Next

(***************************************************************************)
(* The theorem.                                                            *)
(***************************************************************************)
\* Nothing is owned at the start.
LEMMA InvInit == Init => Inv
<1> SUFFICES ASSUME Init PROVE Inv
  OBVIOUS
<1>1. Shape
  BY ScriptsAssumption DEF Init, Shape
<1>2. \A b \in Buffers : ~Used(b) /\ ~Held(b) /\ pool[b] = 0
  BY BuffersAssumption DEF Init, Used, Held, In
<1>3. DOMAIN tx = {} /\ DOMAIN batch = {} /\ DOMAIN flushed = {}
  BY DEF Init
<1>4. BuffersExclusive
  <2>1. NoneTwice(tx) /\ NoneTwice(batch) /\ NoneTwice(flushed)
    BY <1>3 DEF NoneTwice
  <2> QED BY <1>2, <1>3, <2>1 DEF Init, In, BuffersExclusive
<1> QED BY <1>1, <1>4 DEF Inv

\* framePool never hands out a buffer whose frame is still in use, and no path of a
\* call (encoding failure, full queue, cancellation, write, write failure, end of the
\* session) gives a buffer back twice: for any senders, buffers, queue and batch size.
THEOREM OneOwnerPerBuffer == Spec => []BuffersExclusive
<1>1. Inv /\ [Next]_vars => Inv'
  BY ShapeStep, ExclusiveStep DEF Inv
<1> QED BY InvInit, <1>1, PTL DEF Spec, Inv

=============================================================================
