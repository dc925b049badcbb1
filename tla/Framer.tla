------------------------------- MODULE Framer -------------------------------
(***************************************************************************)
(* The receive side of the byte stream: codec.Framer as rxLoop drives it.  *)
(*                                                                         *)
(* An octet is its position in the stream and a slice is an interval of    *)
(* positions.  declared[p] is the number that the four octets from         *)
(* position p on spell, whether or not a PDU starts there: a framer that   *)
(* loses its place reads a wrong length.  One turn of Feed's loop is a     *)
(* step.                                                                   *)
(***************************************************************************)
EXTENDS Naturals, Sequences

CONSTANTS
    Streams,        \* the streams a peer may send
    HeaderSize,     \* 16 in the code
    MaxPDUSize,     \* of NewFramer
    ReadBufferSize, \* octets of one Read
    Threshold,      \* framerShrinkThreshold
    MaxStream       \* bound: octets of a stream

LengthSize == 4

ASSUME FramerAssumption ==
    /\ MaxStream \in Nat /\ ReadBufferSize \in Nat \ {0} /\ Threshold \in Nat /\ Threshold >= LengthSize
    /\ HeaderSize \in Nat /\ HeaderSize > LengthSize /\ MaxPDUSize \in Nat /\ MaxPDUSize >= HeaderSize
    /\ Streams \subseteq [0..MaxStream -> Nat]

VARIABLES
    declared,               \* the stream (never changes)
    received,               \* octets read from the connection
    data,                   \* Feed's data: from this position to received
    pstart, plen,           \* pending: its first position and its length
    expected, capacity,     \* Framer.expected; cap(pending)
    pc,                     \* rxLoop: "read", "feed", "emit" (from pending), "emitData", "stopped"
    emitted,                \* the frames handed to processFrame (history)
    verdict                 \* how rxLoop ended

buffer == <<pstart, plen, expected, capacity>>
vars == <<declared, received, data, buffer, pc, emitted, verdict>>

Init ==
    /\ declared \in Streams /\ received = 0 /\ data = 0
    /\ pstart = 0 /\ plen = 0 /\ expected = 0 /\ capacity = 0
    /\ pc = "read" /\ emitted = <<>> /\ verdict = "none"

Stop(v) == pc' = "stopped" /\ verdict' = v

least(a, b) == IF a < b THEN a ELSE b

most(a, b) == IF a > b THEN a ELSE b

Left == received - data

Frame(p, n) == [start |-> p, length |-> n]

\* fail: pending is dropped and the framer stays failed; rxLoop terminates the session.
Fail(v) == Stop(v) /\ plen' = 0 /\ expected' = 0 /\ capacity' = 0 /\ UNCHANGED pstart

\* validateLength
validLength(n) == n >= HeaderSize /\ n <= MaxPDUSize

-----------------------------------------------------------------------------
\* conn.Read returns n octets.
Read(n) ==
    /\ pc = "read" /\ received + n <= MaxStream
    /\ received' = received + n /\ data' = received /\ pc' = "feed"
    /\ UNCHANGED <<declared, buffer, emitted, verdict>>

\* Mutant: a partial PDU at the end of the stream is a clean end.
MutReadEOF == pc = "read" /\ Stop("eof") /\ UNCHANGED <<declared, received, data, buffer, emitted>>

\* The stream ends; Finalize.
ReadEOF ==
    /\ pc = "read"
    /\ IF plen = 0 THEN Stop("eof") /\ UNCHANGED buffer ELSE Fail("truncated")
    /\ UNCHANGED <<declared, received, data, emitted>>

\* Any other read error.
ReadError == pc = "read" /\ Stop("lost") /\ UNCHANGED <<declared, received, data, buffer, emitted>>

FeedReturns ==
    /\ pc = "feed" /\ Left = 0 /\ pc' = "read"
    /\ UNCHANGED <<declared, received, data, buffer, emitted, verdict>>

\* Mutant: the length is taken from the new data instead of the start of the PDU.
MutFeedLength ==
    LET need == least(LengthSize - plen, Left) n == declared[data] IN
    /\ pc = "feed" /\ Left > 0 /\ plen > 0 /\ expected = 0 /\ data' = data + need
    /\ \/ plen + need < LengthSize /\ plen' = plen + need /\ UNCHANGED <<pstart, expected, capacity, pc, verdict>>
       \/ plen + need = LengthSize /\ ~validLength(n) /\ Fail("length")
       \/ /\ plen + need = LengthSize /\ validLength(n)
          /\ plen' = LengthSize /\ expected' = n /\ capacity' = most(capacity, n)
          /\ UNCHANGED <<pstart, pc, verdict>>
    /\ UNCHANGED <<declared, received, emitted>>

\* The length field was cut by a read: complete it, then look at it.
FeedLength ==
    LET need == least(LengthSize - plen, Left) n == declared[pstart] IN
    /\ pc = "feed" /\ Left > 0 /\ plen > 0 /\ expected = 0 /\ data' = data + need
    /\ \/ plen + need < LengthSize /\ plen' = plen + need /\ UNCHANGED <<pstart, expected, capacity, pc, verdict>>
       \/ plen + need = LengthSize /\ ~validLength(n) /\ Fail("length")
       \/ /\ plen + need = LengthSize /\ validLength(n)
          /\ plen' = LengthSize /\ expected' = n /\ capacity' = most(capacity, n)
          /\ UNCHANGED <<pstart, pc, verdict>>
    /\ UNCHANGED <<declared, received, emitted>>

\* The PDU was cut by a read: complete it.
FeedBody ==
    LET take == least(expected - plen, Left) IN
    /\ pc = "feed" /\ Left > 0 /\ plen > 0 /\ expected > 0
    /\ data' = data + take /\ plen' = plen + take
    /\ pc' = IF plen + take < expected THEN "feed" ELSE "emit"
    /\ UNCHANGED <<declared, received, pstart, expected, capacity, emitted, verdict>>

\* Mutant: a large buffer is kept.
MutEmitPendingKeeps ==
    /\ pc = "emit" /\ emitted' = Append(emitted, Frame(pstart, expected))
    /\ \/ pc' = "feed" /\ plen' = 0 /\ expected' = 0 /\ UNCHANGED <<pstart, capacity, verdict>>
       \/ Fail("fatal")
       \/ Stop("error") /\ UNCHANGED buffer
    /\ UNCHANGED <<declared, received, data>>

\* The buffered PDU goes to processFrame, which accepts it, finds it corrupt (the framer
\* is poisoned) or fails otherwise.
EmitPending ==
    /\ pc = "emit" /\ emitted' = Append(emitted, Frame(pstart, expected))
    /\ \/ /\ pc' = "feed" /\ plen' = 0 /\ expected' = 0
          /\ capacity' = IF capacity > Threshold THEN 0 ELSE capacity
          /\ UNCHANGED <<pstart, verdict>>
       \/ Fail("fatal")
       \/ Stop("error") /\ UNCHANGED buffer
    /\ UNCHANGED <<declared, received, data>>

\* Mutant: a PDU that ends with the data is taken for an incomplete one.
MutFeedFresh ==
    LET n == declared[data] IN
    /\ pc = "feed" /\ Left > 0 /\ plen = 0
    /\ \/ /\ Left < LengthSize
          /\ pstart' = data /\ plen' = Left /\ capacity' = most(capacity, Left) /\ data' = received
          /\ UNCHANGED <<expected, pc, verdict>>
       \/ Left >= LengthSize /\ ~validLength(n) /\ Fail("length") /\ UNCHANGED data
       \/ /\ Left >= LengthSize /\ validLength(n) /\ Left <= n
          /\ pstart' = data /\ plen' = Left /\ expected' = n /\ capacity' = most(capacity, n)
          /\ data' = received /\ UNCHANGED <<pc, verdict>>
       \/ Left >= LengthSize /\ validLength(n) /\ Left > n /\ pc' = "emitData" /\ UNCHANGED <<data, buffer, verdict>>
    /\ UNCHANGED <<declared, received, emitted>>

\* Nothing is buffered: the PDU starts with the data, which is kept if it is too short.
FeedFresh ==
    LET n == declared[data] IN
    /\ pc = "feed" /\ Left > 0 /\ plen = 0
    /\ \/ /\ Left < LengthSize
          /\ pstart' = data /\ plen' = Left /\ capacity' = most(capacity, Left) /\ data' = received
          /\ UNCHANGED <<expected, pc, verdict>>
       \/ Left >= LengthSize /\ ~validLength(n) /\ Fail("length") /\ UNCHANGED data
       \/ /\ Left >= LengthSize /\ validLength(n) /\ Left < n
          /\ pstart' = data /\ plen' = Left /\ expected' = n /\ capacity' = most(capacity, n)
          /\ data' = received /\ UNCHANGED <<pc, verdict>>
       \/ Left >= LengthSize /\ validLength(n) /\ Left >= n /\ pc' = "emitData" /\ UNCHANGED <<data, buffer, verdict>>
    /\ UNCHANGED <<declared, received, emitted>>

\* A complete PDU in the data goes to processFrame without a copy.
EmitData ==
    LET n == declared[data] IN
    /\ pc = "emitData" /\ emitted' = Append(emitted, Frame(data, n))
    /\ \/ pc' = "feed" /\ data' = data + n /\ UNCHANGED <<buffer, verdict>>
       \/ Fail("fatal") /\ UNCHANGED data
       \/ Stop("error") /\ UNCHANGED <<data, buffer>>
    /\ UNCHANGED <<declared, received>>

-----------------------------------------------------------------------------
Next ==
    \/ \E n \in 1..ReadBufferSize : Read(n)
    \/ ReadEOF \/ ReadError \/ FeedReturns \/ FeedLength \/ FeedBody \/ EmitPending \/ FeedFresh \/ EmitData

Spec == Init /\ [][Next]_vars

-----------------------------------------------------------------------------
(***************************************************************************)
(*                               Properties                                *)
(***************************************************************************)

\* Every variable has its type; pending is what lies before data, and a length is expected
\* only of a PDU that has begun.
TypeOK ==
    /\ declared \in [0..MaxStream -> Nat] /\ received \in 0..MaxStream /\ data \in 0..MaxStream
    /\ pstart \in 0..MaxStream /\ plen \in 0..MaxStream /\ expected \in Nat /\ capacity \in Nat
    /\ pc \in {"read", "feed", "emit", "emitData", "stopped"}
    /\ pc \in {"read", "feed"} => IF plen > 0 THEN pstart + plen = data ELSE expected = 0
    /\ emitted \in Seq([start : 0..MaxStream, length : Nat])
    /\ verdict \in {"none", "eof", "truncated", "length", "fatal", "error", "lost"}

\* Where the octets end that have been emitted.
Consumed == IF emitted = <<>> THEN 0 ELSE emitted[Len(emitted)].start + emitted[Len(emitted)].length

\* However the stream is cut into reads, the frames handed on are the PDUs of the stream:
\* they start at its first octet, each has the length its own header declares, and the
\* next begins where it ends.
FramesTile ==
    /\ emitted # <<>> => emitted[1].start = 0
    /\ \A i \in 1..Len(emitted) :
          /\ emitted[i].length = declared[emitted[i].start] /\ validLength(emitted[i].length)
          /\ i < Len(emitted) => emitted[i + 1].start = emitted[i].start + emitted[i].length

\* When Feed has returned, no complete PDU and no bad length is held back: the octets
\* received but not emitted are less than a length field or less than a legal PDU.
NothingHeldBack ==
    pc = "read" =>
        LET rest == received - Consumed IN
        rest < LengthSize \/ (validLength(declared[Consumed]) /\ rest < declared[Consumed])

\* The reassembly buffer never outgrows the maximum PDU, and between PDUs it is at most
\* the threshold: a peer that sends one large PDU and idles pins no memory.
BufferBounded == capacity <= MaxPDUSize /\ (plen = 0 => capacity <= Threshold)

\* The session ends with a clean EOF exactly when the stream ended between two PDUs.
CleanEnd ==
    /\ verdict = "eof" => received = Consumed
    /\ verdict = "truncated" => received > Consumed
=============================================================================
