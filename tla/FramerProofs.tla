---------------------------- MODULE FramerProofs ----------------------------
(***************************************************************************)
(* The framer's promises for every stream, every way the connection cuts   *)
(* it into reads and every setting of the sizes.                           *)
(*                                                                         *)
(* The properties speak of what has been emitted; the argument is where    *)
(* the framer stands.  Place says that what is buffered, or else the rest  *)
(* of the data, begins exactly where the last frame ended, that a length   *)
(* is expected only if it was read there, and that an incomplete length    *)
(* field or PDU is buffered as such.                                       *)
(***************************************************************************)
EXTENDS Framer, TLAPS

Frames == [start : 0..MaxStream, length : Nat]

\* What Feed keeps between two turns of its loop.
Between ==
    /\ plen = 0 => data = Consumed /\ expected = 0
    /\ plen > 0 => pstart = Consumed /\ pstart + plen = data
    /\ plen > 0 /\ expected = 0 => plen < LengthSize
    /\ expected > 0 => expected = declared[Consumed] /\ validLength(expected) /\ plen < expected

\* About to emit the buffered PDU, or one that lies in the data.
AtEmit == pstart = Consumed /\ expected = declared[Consumed] /\ validLength(expected) /\ data = Consumed + expected

AtEmitData ==
    /\ data = Consumed /\ plen = 0 /\ expected = 0
    /\ validLength(declared[Consumed]) /\ Consumed + declared[Consumed] <= received

Place ==
    /\ data <= received
    /\ pc # "stopped" => verdict = "none"
    /\ pc = "read" => data = received
    /\ pc \in {"read", "feed"} => Between
    /\ pc = "emit" => AtEmit /\ plen = expected
    /\ pc = "emitData" => AtEmitData

\* TypeOK without the conjunct that Place implies.
Types ==
    /\ declared \in [0..MaxStream -> Nat] /\ received \in 0..MaxStream /\ data \in 0..MaxStream
    /\ pstart \in 0..MaxStream /\ plen \in 0..MaxStream /\ expected \in Nat /\ capacity \in Nat
    /\ pc \in {"read", "feed", "emit", "emitData", "stopped"} /\ emitted \in Seq(Frames)
    /\ verdict \in {"none", "eof", "truncated", "length", "fatal", "error", "lost"}

FInv == Types /\ Place /\ FramesTile /\ BufferBounded /\ CleanEnd

\* Feed hands on the frame at the current place: the frames still tile the stream and the
\* place moves to the frame's end.
LEMMA Emitting ==
    ASSUME Types, FramesTile, Consumed \in 0..MaxStream, declared' = declared,
           validLength(declared[Consumed]),
           emitted' = Append(emitted, Frame(Consumed, declared[Consumed]))
    PROVE  FramesTile' /\ Consumed' = Consumed + declared[Consumed] /\ emitted' \in Seq(Frames)
  <1> DEFINE n == Len(emitted)  f == Frame(Consumed, declared[Consumed])
  <1>1. emitted \in Seq(Frames) /\ n \in Nat /\ f \in Frames /\ declared[Consumed] \in Nat
    <2>1. emitted \in Seq(Frames) /\ n \in Nat /\ declared[Consumed] \in Nat
      BY DEF Types
    <2> QED BY <2>1 DEF Frames, Frame
  <1>2. /\ emitted' \in Seq(Frames) /\ Len(emitted') = n + 1 /\ emitted'[n + 1] = f
        /\ \A i \in 1..n : emitted'[i] = emitted[i]
    BY <1>1
  <1>3. f.start = Consumed /\ f.length = declared[Consumed]
    BY DEF Frame
  <1>4. Consumed' = Consumed + declared[Consumed]
    BY <1>1, <1>2, <1>3 DEF Consumed
  <1>5. emitted'[1].start = 0
    <2>1. CASE n = 0
      BY <2>1, <1>1, <1>2, <1>3 DEF Consumed
    <2>2. CASE n # 0
      BY <2>2, <1>1, <1>2 DEF FramesTile
    <2> QED BY <2>1, <2>2
  <1>6. ASSUME NEW i \in 1..(n + 1)
        PROVE  /\ emitted'[i].length = declared[emitted'[i].start] /\ validLength(emitted'[i].length)
               /\ i < n + 1 => emitted'[i + 1].start = emitted'[i].start + emitted'[i].length
    <2>1. CASE i = n + 1
      BY <2>1, <1>1, <1>2, <1>3
    <2>2. CASE i = n
      BY <2>2, <1>1, <1>2, <1>3 DEF FramesTile, Consumed
    <2>3. CASE i < n
      BY <2>3, <1>1, <1>2 DEF FramesTile
    <2> QED BY <2>1, <2>2, <2>3, <1>1
  <1>7. FramesTile'
    BY <1>2, <1>5, <1>6 DEF FramesTile, validLength
  <1> QED BY <1>2, <1>4, <1>7

\* NewFramer: nothing is buffered and nothing was emitted.
LEMMA FInvInit == Init => FInv
  BY FramerAssumption
  DEF Init, FInv, Types, Place, Between, FramesTile, BufferBounded, CleanEnd, Consumed, LengthSize

\* A step that emits nothing keeps the emitted frames and where they end.
LEMMA Keeping ==
    ASSUME FInv, UNCHANGED <<declared, emitted>>
    PROVE  FramesTile' /\ Consumed' = Consumed
  BY DEF FInv, FramesTile, Consumed, validLength

\* Feed fails: the framer is poisoned or left as it is, and rxLoop stops.
LEMMA Stopping ==
    ASSUME FInv, UNCHANGED <<declared, received>>, FramesTile', emitted' \in Seq(Frames),
           data' \in 0..MaxStream, data' <= received,
           pc' = "stopped", verdict' \in {"length", "fatal", "error", "lost"}, pstart' = pstart,
           \/ plen' = 0 /\ expected' = 0 /\ capacity' = 0
           \/ plen' = plen /\ expected' = expected /\ capacity' = capacity
    PROVE  FInv'
  BY FramerAssumption, SMTT(30) DEF FInv, Types, Place, BufferBounded, CleanEnd

\* rxLoop reads, or the connection ends.
LEMMA Reading ==
    ASSUME FInv, (\E n \in 1..ReadBufferSize : Read(n)) \/ ReadEOF \/ ReadError
    PROVE  FInv'
  <1> USE FramerAssumption
  <1>1. CASE \E n \in 1..ReadBufferSize : Read(n)
    <2> PICK n \in 1..ReadBufferSize : Read(n)
      BY <1>1
    <2>1. FramesTile' /\ Consumed' = Consumed
      BY Keeping DEF Read
    <2>2. Types'
      BY DEF FInv, Types, Place, Read, buffer
    <2>3. Place'
      BY <2>1 DEF FInv, Types, Place, Between, Read, buffer, validLength
    <2>4. BufferBounded' /\ CleanEnd'
      BY <2>1 DEF FInv, Place, BufferBounded, CleanEnd, Read, buffer
    <2> QED BY <2>1, <2>2, <2>3, <2>4 DEF FInv
  <1>2. CASE ReadEOF
    <2>1. FramesTile' /\ Consumed' = Consumed
      BY <1>2, Keeping DEF ReadEOF
    <2>2. Types' /\ Place' /\ BufferBounded'
      BY <1>2 DEF FInv, Types, Place, BufferBounded, ReadEOF, Stop, Fail, buffer
    <2>3. CASE plen = 0
      BY <1>2, <2>1, <2>2, <2>3 DEF FInv, Types, Place, Between, CleanEnd, ReadEOF, Stop
    <2>4. CASE plen # 0
      BY <1>2, <2>1, <2>2, <2>4 DEF FInv, Types, Place, Between, CleanEnd, ReadEOF, Stop, Fail
    <2> QED BY <2>3, <2>4
  <1>3. CASE ReadError
    <2>1. FramesTile' /\ Consumed' = Consumed
      BY <1>3, Keeping DEF ReadError
    <2> QED BY <1>3, <2>1 DEF FInv, Types, Place, BufferBounded, CleanEnd, ReadError, Stop, buffer
  <1> QED BY <1>1, <1>2, <1>3

\* Feed's loop completes a length field or a PDU in the buffer.
LEMMA Buffering ==
    ASSUME FInv, FeedReturns \/ FeedLength \/ FeedBody
    PROVE  FInv'
  <1> USE FramerAssumption
  <1>1. FramesTile' /\ Consumed' = Consumed /\ UNCHANGED <<declared, received, emitted>>
    BY Keeping DEF FeedReturns, FeedLength, FeedBody
  <1>2. CASE FeedReturns
    BY <1>1, <1>2 DEF FInv, Types, Place, Between, BufferBounded, CleanEnd, FeedReturns, buffer, Left, validLength
  <1>3. CASE FeedLength
    <2> DEFINE need == least(LengthSize - plen, Left)  n == declared[pstart]
    <2>1. /\ plen \in 1..3 /\ need \in 1..3 /\ plen + need <= 4 /\ data + need <= received
          /\ pstart = Consumed /\ pstart + plen = data /\ n \in Nat /\ pc = "feed" /\ verdict = "none"
      BY <1>3, SMTT(30) DEF FInv, Types, Place, Between, FeedLength, Left, LengthSize, least
    <2>2. /\ data' = data + need /\ pstart' = pstart
          /\ \/ /\ plen + need < 4 /\ plen' = plen + need /\ expected' = 0
                /\ UNCHANGED <<capacity, pc, verdict>>
             \/ plen' = 0 /\ expected' = 0 /\ capacity' = 0 /\ pc' = "stopped" /\ verdict' = "length"
             \/ /\ plen + need = 4 /\ validLength(n) /\ plen' = 4 /\ expected' = n
                /\ capacity' = most(capacity, n) /\ UNCHANGED <<pc, verdict>>
      BY <1>3 DEF FeedLength, LengthSize, Fail, Stop
    <2> HIDE DEF need
    <2>3. CASE pc' = "stopped"
      BY <1>1, <2>1, <2>2, <2>3, Stopping DEF FInv, Types
    <2>4. CASE plen + need < 4 /\ plen' = plen + need /\ expected' = 0 /\ UNCHANGED <<capacity, pc, verdict>>
      BY <1>1, <2>1, <2>2, <2>4 DEF FInv, Types, Place, Between, BufferBounded, CleanEnd, LengthSize
    <2>5. CASE /\ plen + need = 4 /\ validLength(n) /\ plen' = 4 /\ expected' = n
               /\ capacity' = most(capacity, n) /\ UNCHANGED <<pc, verdict>>
      <3>1. capacity' \in Nat /\ capacity' <= MaxPDUSize /\ n > 4
        BY <2>1, <2>5 DEF FInv, Types, BufferBounded, most, validLength, LengthSize
      <3> QED BY <1>1, <2>1, <2>2, <2>5, <3>1, SMTT(30) DEF FInv, Types, Place, Between, BufferBounded, CleanEnd, validLength
    <2> QED BY <2>2, <2>3, <2>4, <2>5
  <1>4. CASE FeedBody
    <2> DEFINE take == least(expected - plen, Left)
    <2>1. /\ take \in Nat /\ take > 0 /\ plen + take <= expected /\ data + take <= received
          /\ plen > 0 /\ pstart = Consumed /\ pstart + plen = data /\ expected = declared[Consumed]
          /\ validLength(expected) /\ verdict = "none" /\ expected > 0
      BY <1>4 DEF FInv, Types, Place, Between, FeedBody, Left, least
    <2>2. /\ data' = data + take /\ plen' = plen + take /\ UNCHANGED <<pstart, expected, capacity, verdict>>
          /\ \/ plen + take < expected /\ pc' = "feed"
             \/ plen + take = expected /\ pc' = "emit"
      BY <1>4, <2>1 DEF FeedBody, FInv, Types
    <2> HIDE DEF take
    <2>3. Types' /\ BufferBounded' /\ CleanEnd'
      BY <1>1, <2>1, <2>2 DEF FInv, Types, BufferBounded, CleanEnd
    <2>4. Place'
      <3>1. data' <= received' /\ verdict' = "none" /\ pstart' = Consumed' /\ expected' = declared'[Consumed']
        BY <1>1, <2>1, <2>2
      <3>2. CASE plen + take < expected /\ pc' = "feed"
        <4>1. Between'
          BY <1>1, <2>1, <2>2, <3>1, <3>2 DEF FInv, Types, Between, validLength
        <4> QED BY <3>1, <3>2, <4>1 DEF Place
      <3>3. CASE plen + take = expected /\ pc' = "emit"
        <4>1. pstart \in Nat /\ plen \in Nat /\ expected \in Nat
          BY DEF FInv, Types
        <4>2. data' = pstart' + expected' /\ plen' = expected'
          BY <2>1, <2>2, <3>3, <4>1
        <4>3. validLength(expected')
          BY <2>1, <2>2
        <4> QED BY <3>1, <3>3, <4>2, <4>3 DEF Place, AtEmit, validLength
      <3> QED BY <2>2, <3>2, <3>3
    <2> QED BY <1>1, <2>3, <2>4 DEF FInv
  <1> QED BY <1>2, <1>3, <1>4

\* Feed's loop looks at data with nothing buffered.
LEMMA Fresh ==
    ASSUME FInv, FeedFresh
    PROVE  FInv'
  <1> USE FramerAssumption
  <1> DEFINE n == declared[data]
  <1>1. FramesTile' /\ Consumed' = Consumed /\ UNCHANGED <<declared, received, emitted>>
    BY Keeping DEF FeedFresh
  <1>2. /\ data = Consumed /\ plen = 0 /\ expected = 0 /\ n \in Nat /\ Left \in Nat /\ Left > 0
        /\ data + Left = received /\ pc = "feed" /\ verdict = "none"
    BY DEF FInv, Types, Place, Between, FeedFresh, Left
  <1>3. \/ /\ Left < 4 /\ pstart' = data /\ plen' = Left /\ capacity' = most(capacity, Left) /\ data' = received
           /\ UNCHANGED <<expected, pc, verdict>>
        \/ /\ plen' = 0 /\ expected' = 0 /\ capacity' = 0 /\ pstart' = pstart /\ data' = data
           /\ pc' = "stopped" /\ verdict' = "length"
        \/ /\ validLength(n) /\ Left < n /\ pstart' = data /\ plen' = Left /\ expected' = n
           /\ capacity' = most(capacity, n) /\ data' = received /\ UNCHANGED <<pc, verdict>>
        \/ /\ validLength(n) /\ Left >= n /\ pc' = "emitData"
           /\ UNCHANGED <<data, pstart, plen, expected, capacity, verdict>>
    BY DEF FeedFresh, LengthSize, Fail, Stop, buffer
  <1>4. CASE pc' = "stopped"
    BY <1>1, <1>2, <1>3, <1>4, Stopping DEF FInv, Types, Place
  <1>5. CASE /\ Left < 4 /\ pstart' = data /\ plen' = Left /\ capacity' = most(capacity, Left) /\ data' = received
             /\ UNCHANGED <<expected, pc, verdict>>
    <2>1. capacity' \in Nat /\ capacity' <= MaxPDUSize
      BY <1>2, <1>5 DEF FInv, Types, BufferBounded, most, LengthSize
    <2> QED BY <1>1, <1>2, <1>5, <2>1 DEF FInv, Types, Place, Between, BufferBounded, CleanEnd, LengthSize
  <1>6. CASE /\ validLength(n) /\ Left < n /\ pstart' = data /\ plen' = Left /\ expected' = n
             /\ capacity' = most(capacity, n) /\ data' = received /\ UNCHANGED <<pc, verdict>>
    <2>1. capacity' \in Nat /\ capacity' <= MaxPDUSize /\ n > 4
      BY <1>2, <1>6 DEF FInv, Types, BufferBounded, most, validLength, LengthSize
    <2> QED BY <1>1, <1>2, <1>6, <2>1 DEF FInv, Types, Place, Between, BufferBounded, CleanEnd, validLength
  <1>7. CASE /\ validLength(n) /\ Left >= n /\ pc' = "emitData"
             /\ UNCHANGED <<data, pstart, plen, expected, capacity, verdict>>
    BY <1>1, <1>2, <1>7, SMTT(30) DEF FInv, Types, Place, AtEmitData, BufferBounded, CleanEnd, validLength
  <1> QED BY <1>3, <1>4, <1>5, <1>6, <1>7

\* A PDU is handed to processFrame.
LEMMA Handing ==
    ASSUME FInv, EmitPending \/ EmitData
    PROVE  FInv'
  <1> USE FramerAssumption
  <1> DEFINE n == declared[Consumed]
  <1>1. CASE EmitPending
    <2>1. /\ pstart = Consumed /\ expected = n /\ validLength(n) /\ data = Consumed + n /\ plen = n
          /\ verdict = "none" /\ Consumed \in 0..MaxStream /\ n \in Nat /\ n > 0
      <3>1. AtEmit /\ plen = expected /\ verdict = "none"
        BY <1>1 DEF FInv, Place, EmitPending
      <3>2. expected \in Nat /\ pstart \in 0..MaxStream /\ (validLength(expected) => expected > 0)
        BY DEF FInv, Types, validLength, LengthSize
      <3> QED BY <3>1, <3>2 DEF AtEmit
    <2>2. UNCHANGED <<declared, received, data, pstart>> /\ emitted' = Append(emitted, Frame(Consumed, n))
      BY <1>1, <2>1 DEF EmitPending, Fail, Stop, buffer
    <2>3. FramesTile' /\ Consumed' = Consumed + n /\ emitted' \in Seq(Frames)
      BY <2>1, <2>2, Emitting DEF FInv
    <2>4. \/ /\ pc' = "feed" /\ plen' = 0 /\ expected' = 0 /\ verdict' = verdict
             /\ capacity' = IF capacity > Threshold THEN 0 ELSE capacity
          \/ /\ pc' = "stopped" /\ verdict' \in {"fatal", "error"}
             /\ \/ plen' = 0 /\ expected' = 0 /\ capacity' = 0
                \/ plen' = plen /\ expected' = expected /\ capacity' = capacity
      BY <1>1 DEF EmitPending, Fail, Stop, buffer
    <2>5. CASE pc' = "stopped"
      BY <2>2, <2>3, <2>4, <2>5, Stopping, SMTT(30) DEF FInv, Types, Place
    <2>6. CASE /\ pc' = "feed" /\ plen' = 0 /\ expected' = 0 /\ verdict' = verdict
               /\ capacity' = IF capacity > Threshold THEN 0 ELSE capacity
      <3>1. capacity' \in Nat /\ capacity' <= Threshold /\ capacity' <= MaxPDUSize
        BY <2>6 DEF FInv, Types, BufferBounded
      <3> QED BY <2>1, <2>2, <2>3, <2>6, <3>1, SMTT(30) DEF FInv, Types, Place, Between, BufferBounded, CleanEnd
    <2> QED BY <2>4, <2>5, <2>6
  <1>2. CASE EmitData
    <2>1. /\ data = Consumed /\ plen = 0 /\ expected = 0 /\ validLength(n) /\ Consumed + n <= received
          /\ verdict = "none" /\ Consumed \in 0..MaxStream /\ n \in Nat /\ n > 0
      BY <1>2 DEF FInv, Types, Place, AtEmitData, EmitData, validLength, LengthSize
    <2>2. UNCHANGED <<declared, received, pstart>> /\ emitted' = Append(emitted, Frame(Consumed, n))
      BY <1>2, <2>1 DEF EmitData, Fail, Stop, buffer
    <2>3. FramesTile' /\ Consumed' = Consumed + n /\ emitted' \in Seq(Frames)
      BY <2>1, <2>2, Emitting DEF FInv
    <2>4. \/ pc' = "feed" /\ data' = data + n /\ UNCHANGED <<plen, expected, capacity, verdict>>
          \/ /\ pc' = "stopped" /\ verdict' \in {"fatal", "error"} /\ data' = data
             /\ \/ plen' = 0 /\ expected' = 0 /\ capacity' = 0
                \/ plen' = plen /\ expected' = expected /\ capacity' = capacity
      BY <1>2, <2>1 DEF EmitData, Fail, Stop, buffer
    <2>5. CASE pc' = "stopped"
      BY <2>2, <2>3, <2>4, <2>5, Stopping, SMTT(30) DEF FInv, Types, Place
    <2>6. CASE pc' = "feed" /\ data' = data + n /\ UNCHANGED <<plen, expected, capacity, verdict>>
      BY <2>1, <2>2, <2>3, <2>6, SMTT(30) DEF FInv, Types, Place, Between, BufferBounded, CleanEnd
    <2> QED BY <2>4, <2>5, <2>6
  <1> QED BY <1>1, <1>2

\* FInv is inductive, so it holds in every reachable state of the receive loop.
THEOREM FramerInvariant == Spec => []FInv
  <1>1. FInv /\ [Next]_vars => FInv'
    <2> SUFFICES ASSUME FInv, [Next]_vars PROVE FInv'
      OBVIOUS
    <2>1. CASE Next
      BY <2>1, Reading, Buffering, Fresh, Handing DEF Next
    <2>2. CASE UNCHANGED vars
      <3>1. FramesTile' /\ Consumed' = Consumed
        BY <2>2, Keeping DEF vars
      <3> QED BY <2>2, <3>1
        DEF FInv, Types, Place, Between, AtEmit, AtEmitData, BufferBounded, CleanEnd, vars, buffer, validLength
    <2> QED BY <2>1, <2>2
  <1> QED BY FInvInit, <1>1, PTL DEF Spec

\* Every variable of the receive loop keeps its type (TypeOK).
THEOREM FramerTypes == Spec => []TypeOK
  <1>1. FInv => TypeOK
    BY DEF FInv, Types, TypeOK, Place, Between, Frames
  <1> QED BY <1>1, FramerInvariant, PTL

\* Wherever the connection cuts the stream, the frames handed to processFrame are its PDUs,
\* without a gap, an overlap or a wrong length (FramesTile).
THEOREM FramesAreThePDUs == Spec => []FramesTile
  <1>1. FInv => FramesTile
    BY DEF FInv
  <1> QED BY <1>1, FramerInvariant, PTL

\* Feed returns only when no complete PDU and no illegal length is left (NothingHeldBack).
THEOREM FeedIsComplete == Spec => []NothingHeldBack
  <1>1. FInv => NothingHeldBack
    BY FramerAssumption, SMTT(30) DEF FInv, Types, Place, Between, NothingHeldBack, LengthSize, validLength
  <1> QED BY <1>1, FramerInvariant, PTL

\* The buffer stays within MaxPDUSize, and within the threshold between PDUs (BufferBounded).
THEOREM BufferStaysBounded == Spec => []BufferBounded
  <1>1. FInv => BufferBounded
    BY DEF FInv
  <1> QED BY <1>1, FramerInvariant, PTL

\* rxLoop reports a clean end exactly when the stream ended between two PDUs (CleanEnd).
THEOREM EndIsJudgedRight == Spec => []CleanEnd
  <1>1. FInv => CleanEnd
    BY DEF FInv
  <1> QED BY <1>1, FramerInvariant, PTL
=============================================================================
