------------------------------ MODULE WirePath ------------------------------
(***************************************************************************)
(* The way of a PDU from a caller to the other peer's caller or handler:   *)
(* request, SendOneWay and queueResponse take a buffer from the session's  *)
(* pool, encode the PDU into it and queue it; txLoop writes the buffers of *)
(* a batch and gives them back; the peer decodes the frames out of a read  *)
(* buffer that the next frame overwrites, and copies what a response       *)
(* borrows from it (ownDecodedPDU).                                        *)
(*                                                                         *)
(* A script fixes what is sent: the PDUs each goroutine sends in order,    *)
(* the registries of the two sessions, octets another implementation has   *)
(* put on the wire, and whether calls may be cancelled and the session may *)
(* be lost.  State machine, window and deadlines are left to RequestPath.  *)
(***************************************************************************)
EXTENDS Codec

CONSTANTS Senders,                  \* goroutines that send
          Buffers,                  \* buffers that can exist at one time
          Registries,               \* frozen registries, by name
          Scripts,                  \* the scripts a behaviour may follow
          QueueSize,                \* Config.TXQueueSize
          TXBatchItems,             \* Config.TXBatchItems
          defaultFramePoolCapacity, \* 256 in pool.go
          maxPooledFrameCapacity    \* 65536 in pool.go

VARIABLES script,   \* the script of this behaviour
          calls,    \* per sender: the PDUs it has still to send, the first one in progress
          pc,       \* per sender: "idle", "get", "encode", "enqueue" or "await"
          buf,      \* per sender: the buffer it holds
          pending,  \* sequence numbers in the pending table
          pool,     \* per buffer: how often it is in the pool
          mem,      \* per buffer: its octets
          cap,      \* per buffer: its capacity
          tx,       \* the TX queue
          batch,    \* items txLoop has taken and not written yet
          flushed,  \* items it has written and not given back yet
          txpc,     \* "idle", "gather", "write", "after", "failed" or "stopped"
          done,     \* the session has ended
          wire,     \* octets written and not read yet
          written,  \* history: the PDUs written, in order
          traced,   \* history: the frames tracePacket was shown
          got,      \* history: what the peer made of each frame
          reading   \* the peer's receive loop is running

callv == <<calls, pc, buf, pending>>
poolv == <<pool, mem, cap>>
txv == <<tx, batch, flushed, txpc, done>>
peerv == <<wire, got, reading>>
vars == <<script, callv, poolv, txv, peerv, written, traced>>

NoBuffer == "none"

\* The PDUs that occur in a script, and what a queue item is made of.
PDUs == UNION {UNION {Range(sc.calls[s]) : s \in Senders} : sc \in Scripts}
Item == [pdu : PDUs, buf : Buffers]

ASSUME ScriptsAssumption == \A sc \in Scripts : sc.calls \in [Senders -> Seq(PDUs)]
ASSUME BuffersAssumption == NoBuffer \notin Buffers

\* The registries of the sending session and of the peer.
local == Registries[script.local]
remote == Registries[script.remote]

Pdu(s) == Head(calls[s])

\* A buffer is known to the pool, to a sender, to the queue or to txLoop, or free.
In(items, b) == \E i \in DOMAIN items : items[i].buf = b
Held(b) == \E s \in Senders : buf[s] = b
Used(b) == Held(b) \/ In(tx, b) \/ In(batch, b) \/ In(flushed, b)
Fresh == {b \in Buffers : pool[b] = 0 /\ ~Used(b)}

\* framePool.put: an oversized buffer is left to the garbage collector.
put(p, b) == IF cap[b] > maxPooledFrameCapacity THEN p ELSE [p EXCEPT ![b] = @ + 1]

\* The sender is done with its present call.
Return(s) ==
    /\ calls' = [calls EXCEPT ![s] = Tail(@)]
    /\ pc' = [pc EXCEPT ![s] = "idle"]
    /\ buf' = [buf EXCEPT ![s] = NoBuffer]
    /\ pending' = pending \ {Pdu(s).h.seq}

(***************************************************************************)
(* The senders.                                                            *)
(***************************************************************************)
\* framePool.get hands out a pooled buffer or a new one, of at least hint octets.
get(s, b) ==
    LET name == ResolveCommand(local, Pdu(s).h.id).def.name
        hint == EncodedPDUSizeHint(name, Pdu(s).body)
        old == IF pool[b] > 0 THEN cap[b] ELSE defaultFramePoolCapacity
    IN  /\ pool' = [pool EXCEPT ![b] = IF @ > 0 THEN @ - 1 ELSE 0]
        /\ cap' = [cap EXCEPT ![b] = IF hint > old THEN hint ELSE old]
        /\ mem' = [mem EXCEPT ![b] = <<>>]
        /\ buf' = [buf EXCEPT ![s] = b]

\* request and SendOneWay look whether the session has ended, once, at the start;
\* queueResponse does not.  A request enters the pending table before it is encoded.
Begin(s) ==
    /\ pc[s] = "idle" /\ calls[s] # <<>>
    /\ IF done /\ Pdu(s).kind # "response" THEN Return(s)
       ELSE /\ pc' = [pc EXCEPT ![s] = "get"]
            /\ pending' = IF Pdu(s).kind = "request" THEN pending \cup {Pdu(s).h.seq} ELSE pending
            /\ UNCHANGED <<calls, buf>>
    /\ UNCHANGED <<script, poolv, txv, peerv, written, traced>>

\* The buffer is one of the pool, or a new one.
TakeBuffer(s) ==
    /\ pc[s] = "get"
    /\ \/ \E b \in {x \in Buffers : pool[x] > 0} : get(s, b)
       \/ Fresh # {} /\ get(s, CHOOSE b \in Fresh : TRUE)
    /\ pc' = [pc EXCEPT ![s] = "encode"]
    /\ UNCHANGED <<script, calls, pending, txv, peerv, written, traced>>

Encode(s) ==
    LET b == buf[s]
        r == EncodePDU(<<>>, Pdu(s).h, Pdu(s).body, local)
    IN  /\ pc[s] = "encode"
        /\ IF r.ok
           THEN /\ mem' = [mem EXCEPT ![b] = r.out]
                /\ cap' = [cap EXCEPT ![b] = IF Len(r.out) > @ THEN Len(r.out) ELSE @]
                /\ pc' = [pc EXCEPT ![s] = "enqueue"]
                /\ UNCHANGED <<pool, calls, buf, pending>>
           ELSE /\ pool' = put(pool, b)
                /\ Return(s)
                /\ UNCHANGED <<mem, cap>>
        /\ UNCHANGED <<script, txv, peerv, written, traced>>

\* A response needs no further attention; request and SendOneWay wait.
Enqueue(s) ==
    /\ pc[s] = "enqueue" /\ Len(tx) < QueueSize
    /\ tx' = Append(tx, [pdu |-> Pdu(s), buf |-> buf[s]])
    /\ IF Pdu(s).kind = "response" THEN Return(s)
       ELSE /\ pc' = [pc EXCEPT ![s] = "await"]
            /\ buf' = [buf EXCEPT ![s] = NoBuffer]
            /\ UNCHANGED <<calls, pending>>
    /\ UNCHANGED <<script, poolv, batch, flushed, txpc, done, peerv, written, traced>>

\* The caller's context, or the session, ends while the queue is full.
EnqueueAborted(s) ==
    /\ pc[s] = "enqueue"
    /\ done \/ (script.faults /\ Pdu(s).kind # "response")
    /\ pool' = put(pool, buf[s])
    /\ Return(s)
    /\ UNCHANGED <<script, mem, cap, txv, peerv, written, traced>>

\* Mutant: a cancelled request gives back the buffer txLoop still has.
MutCompleted(s) ==
    /\ pc[s] = "await"
    /\ \E i \in DOMAIN tx : tx[i].pdu = Pdu(s) /\ pool' = put(pool, tx[i].buf)
    /\ script.faults /\ Pdu(s).kind = "request"
    /\ Return(s)
    /\ UNCHANGED <<script, mem, cap, txv, peerv, written, traced>>

\* A request completes by its response, a timeout, its context or the session's
\* end, which may be while its frame is still queued; a one-way call returns when
\* txLoop has dealt with its item.
Completed(s) ==
    /\ pc[s] = "await"
    /\ \/ done
       \/ script.faults /\ Pdu(s).kind = "request"
       \/ /\ ~\E item \in Range(tx \o batch) : item.pdu = Pdu(s)
          /\ Pdu(s).kind = "request" \/ ~\E item \in Range(flushed) : item.pdu = Pdu(s)
    /\ Return(s)
    /\ UNCHANGED <<script, poolv, txv, peerv, written, traced>>

(***************************************************************************)
(* txLoop.                                                                 *)
(***************************************************************************)
\* txItemActive: a request that is no longer pending is not written.
txItemActive(item) == item.pdu.kind = "request" => item.pdu.h.seq \in pending

txItemTerminatesAfterWrite(item) ==
    item.pdu.kind = "response" /\ item.pdu.h.id = <<128, 0, 0, 6>> /\ item.pdu.h.status = StatusOK

\* One item leaves the queue for the batch, or is dropped and its buffer given back.
TxTake ==
    /\ txpc \in {"idle", "gather"} /\ tx # <<>>
    /\ txpc = "gather" => Len(batch) < TXBatchItems /\ ~txItemTerminatesAfterWrite(Last(batch))
    /\ tx' = Tail(tx)
    /\ IF txItemActive(Head(tx))
       THEN batch' = Append(batch, Head(tx)) /\ txpc' = "gather" /\ UNCHANGED pool
       ELSE pool' = put(pool, Head(tx).buf) /\ UNCHANGED <<batch, txpc>>
    /\ UNCHANGED <<script, callv, mem, cap, flushed, done, peerv, written, traced>>

\* The batch is closed: it is full, nothing more is queued, or it has enough octets.
TxClose ==
    /\ txpc = "gather"
    /\ txpc' = "write"
    /\ UNCHANGED <<script, callv, poolv, tx, batch, flushed, done, peerv, written, traced>>

\* The write reads the frames of the batch from their buffers one after the other.
TxWrite ==
    /\ txpc = "write"
    /\ wire' = wire \o mem[Head(batch).buf]
    /\ written' = Append(written, Head(batch).pdu)
    /\ flushed' = Append(flushed, Head(batch))
    /\ batch' = Tail(batch)
    /\ txpc' = IF Tail(batch) = <<>> THEN "after" ELSE "write"
    /\ UNCHANGED <<script, callv, poolv, tx, done, got, reading, traced>>

\* The write fails before the frame of the first item left is complete.
TxWriteFails ==
    /\ txpc = "write" /\ script.faults
    /\ txpc' = "failed"
    /\ UNCHANGED <<script, callv, poolv, tx, batch, flushed, done, peerv, written, traced>>

\* Every buffer of the batch is given back, and the session ends.
TxGiveBack ==
    /\ txpc = "failed"
    /\ \/ /\ flushed # <<>>
          /\ pool' = put(pool, Head(flushed).buf) /\ flushed' = Tail(flushed)
          /\ UNCHANGED <<batch, txpc, done>>
       \/ /\ flushed = <<>> /\ batch # <<>>
          /\ pool' = put(pool, Head(batch).buf) /\ batch' = Tail(batch)
          /\ UNCHANGED <<flushed, txpc, done>>
       \/ /\ flushed = <<>> /\ batch = <<>>
          /\ txpc' = "stopped" /\ done' = TRUE
          /\ UNCHANGED <<pool, batch, flushed>>
    /\ UNCHANGED <<script, callv, mem, cap, tx, peerv, written, traced>>

\* After the write each item is traced, and then its buffer is given back.
TxAfter ==
    LET item == Head(flushed)
    IN  /\ txpc = "after"
        /\ traced' = Append(traced, mem[item.buf])
        /\ pool' = put(pool, item.buf)
        /\ flushed' = Tail(flushed)
        /\ IF txItemTerminatesAfterWrite(item) THEN txpc' = "stopped" /\ done' = TRUE
           ELSE /\ txpc' = IF Tail(flushed) = <<>> THEN "idle" ELSE "after"
                /\ UNCHANGED done
        /\ UNCHANGED <<script, callv, mem, cap, tx, batch, peerv, written>>

TxStop ==
    /\ txpc = "idle" /\ done
    /\ txpc' = "stopped"
    /\ UNCHANGED <<script, callv, poolv, tx, batch, flushed, done, peerv, written, traced>>

\* terminate, for any other reason.
Terminate ==
    /\ script.faults /\ ~done
    /\ done' = TRUE
    /\ UNCHANGED <<script, callv, poolv, tx, batch, flushed, txpc, peerv, written, traced>>

(***************************************************************************)
(* The peer's receive loop.                                                *)
(***************************************************************************)
\* The fields ownDecodedPDU copies out of the read buffer, by body type.
ownDecodedPDU ==
    LET named(field) == {field, "Optional"} IN
    [BindResponse |-> named("SystemID"), SubmitSMResp |-> named("MessageID"),
     DeliverSMResp |-> named("MessageID"), DataSMResp |-> named("MessageID"),
     SubmitMultiResp |-> named("MessageID") \cup {"Unsuccessful"},
     QuerySMResp |-> named("MessageID") \cup {"FinalDate"},
     BroadcastSMResp |-> named("MessageID"), QueryBroadcastSMResp |-> named("MessageID"),
     OptionalResponse |-> {"Optional"}, RawBody |-> {"Octets"}]

\* Fields that are no slices: they never refer to the buffer.
ByValue == {"MessageState", "ErrorCode"}

Kept(type) == ByValue \cup (IF type \in DOMAIN ownDecodedPDU THEN ownDecodedPDU[type] ELSE {})

\* What is left of an earlier result once the read buffer is used again: a handler has
\* returned by then, a caller still holds the body of its response.  A field that was
\* not copied has lost its value, which is written as the empty one.
AfterReuse(g) ==
    IF ~IsResponse(g.h.id) THEN g
    ELSE [g EXCEPT !.body.val = [n \in DOMAIN @ |-> IF n \in Kept(g.body.type) THEN @[n] ELSE <<>>]]

\* processFrame: a fatal error ends the session; any other rejects the one PDU.
processFrame ==
    LET frame == SubSeq(wire, 1, commandLength(wire))
        r == DecodePDU(frame, remote)
    IN  /\ reading /\ wire # <<>>
        /\ wire' = SubSeq(wire, Len(frame) + 1, Len(wire))
        /\ got' = Append([i \in DOMAIN got |-> AfterReuse(got[i])],
                         [h |-> DecodeHeader(frame), frame |-> frame, err |-> r.err, body |-> r.body])
        /\ reading' = (r.err # "fatal")
        /\ UNCHANGED <<script, callv, poolv, txv, written, traced>>

Init ==
    /\ script \in Scripts
    /\ calls = script.calls
    /\ pc = [s \in Senders |-> "idle"]
    /\ buf = [s \in Senders |-> NoBuffer]
    /\ pending = {}
    /\ pool = [b \in Buffers |-> 0]
    /\ mem = [b \in Buffers |-> <<>>]
    /\ cap = [b \in Buffers |-> 0]
    /\ tx = <<>> /\ batch = <<>> /\ flushed = <<>> /\ txpc = "idle" /\ done = FALSE
    /\ wire = script.foreign
    /\ written = <<>> /\ traced = <<>> /\ got = <<>> /\ reading = TRUE

Next ==
    \/ \E s \in Senders : Begin(s) \/ TakeBuffer(s) \/ Encode(s)
                         \/ Enqueue(s) \/ EnqueueAborted(s) \/ Completed(s)
    \/ TxTake \/ TxClose \/ TxWrite \/ TxWriteFails \/ TxGiveBack \/ TxAfter \/ TxStop
    \/ Terminate
    \/ processFrame

Spec == Init /\ [][Next]_vars

(***************************************************************************)
(* Properties                                                              *)
(***************************************************************************)
\* What the peer must make of a PDU: a body reaches it as it was sent, except that
\* an error response carries its TLVs only, an absent body is the zero value of its
\* type, and a command the peer's registry has no codec for arrives as raw octets.
Arrives(pdu) ==
    LET found == ResolveCommand(remote, pdu.h.id)
        d == found.def.decode
        tlvs == optionalParametersOf(pdu.body)
        absent == [err |-> "", body |-> IF d.status = "any" THEN EmptyBody ELSE [type |-> d.type, val |-> zeroBody(d)]]
        octets == EncodePDU(<<>>, pdu.h, pdu.body, local).out
    IN  CASE found.refused -> DecodeError("unknown")
          [] d = NoCodec -> [err |-> "", body |-> RawBody(SubSeq(octets, HeaderSize + 1, Len(octets)))]
          [] d = Panics -> DecodeError("semantic")
          [] IsResponse(pdu.h.id) /\ (pdu.h.status # StatusOK \/ pdu.body.type \in {"EmptyBody", "OptionalResponse"}) ->
                IF tlvs = <<>> THEN absent ELSE [err |-> "", body |-> OptionalResponse(tlvs)]
          [] OTHER -> [err |-> "", body |-> pdu.body]

\* The bodies EncodePDU accepts and DecodePDU refuses: a success response without its
\* mandatory fields, and a bind response with a malformed sc_interface_version.
Readable(pdu) ==
    LET d == ResolveCommand(remote, pdu.h.id).def.decode
    IN  \/ d \in {NoCodec, Panics} \/ pdu.h.status # StatusOK \/ d.status \in {"request", "any"}
        \/ /\ pdu.body.type = d.type
           /\ d.type = "BindResponse" =>
                 \A i \in DOMAIN pdu.body.val["Optional"] :
                     pdu.body.val["Optional"][i].tag = TLVTagSCInterfaceVersion =>
                         Len(pdu.body.val["Optional"][i].value) = 1
        \/ d.status = "lenient" /\ optionalParametersOf(pdu.body) = <<>>

\* A frame never outgrows the buffer its size hint asked for, and fills it unless the
\* mandatory fields of an error response were left out.
FitsHint(pdu, frame) ==
    LET hint == EncodedPDUSizeHint(ResolveCommand(local, pdu.h.id).def.name, pdu.body)
    IN  hint = 0 \/ Len(frame) = hint \/ (pdu.h.status # StatusOK /\ Len(frame) < hint)

\* Every PDU written reaches the peer's caller or handler once, in the order of the
\* writes and with the value it was sent with, whoever used its buffers before, between
\* or after, and stays so; and tracePacket is shown the frames that were written.
DeliveredAsSent ==
    script.foreign = <<>> =>
        /\ Len(got) <= Len(written)
        /\ \A i \in DOMAIN got : Readable(written[i]) =>
               [err |-> got[i].err, body |-> got[i].body] = Arrives(written[i])
        /\ \A i \in DOMAIN traced :
               /\ traced[i] = EncodePDU(<<>>, written[i].h, written[i].body, local).out
               /\ FitsHint(written[i], traced[i])

\* Within a list of items no buffer occurs twice.
NoneTwice(items) == \A i, j \in DOMAIN items : items[i].buf = items[j].buf => i = j

\* A buffer has one owner at a time: it is in the pool once, or held by one sender, or
\* belongs to one item of the queue or of the batch.  So no buffer is given back twice,
\* and none is taken from the pool while the frame in it is still to be written.
BuffersExclusive ==
    /\ \A b \in Buffers :
          /\ pool[b] = 0 \/ (pool[b] = 1 /\ ~Used(b))
          /\ Held(b) => ~In(tx, b) /\ ~In(batch, b) /\ ~In(flushed, b)
          /\ In(tx, b) => ~In(batch, b) /\ ~In(flushed, b)
          /\ In(batch, b) => ~In(flushed, b)
    /\ \A s, t \in Senders : buf[s] = buf[t] => s = t \/ buf[s] = NoBuffer
    /\ NoneTwice(tx) /\ NoneTwice(batch) /\ NoneTwice(flushed)

\* Whatever DecodePDU accepts, from any peer, EncodePDU writes back octet for octet: no
\* octet of a frame is ignored and none is read in two ways.  The exception the decoder
\* makes is a header-only deliver_sm_resp.
Canonical ==
    \A i \in DOMAIN got :
        (/\ got[i].err = ""
         /\ ~(got[i].body.type = "DeliverSMResp" /\ Len(got[i].frame) = HeaderSize)) =>
            EncodePDU(<<>>, got[i].h, got[i].body, remote) = [ok |-> TRUE, out |-> got[i].frame]
=============================================================================
