---------------------------- MODULE Segmentation ----------------------------
(***************************************************************************)
(* Long messages (message/message.go, message/udh16_unpacked.go, with the  *)
(* text representations of encoding/): a sender splits messages into parts *)
(* in one of three ways, the parts arrive lost, repeated, reordered and    *)
(* mixed with those of another message, and the receiver joins what it has.*)
(*                                                                         *)
(* A text is a sequence of character classes: "plain" is one septet, "ext" *)
(* an escape pair, "wide" a BMP character outside GSM 03.38, "astral" a    *)
(* surrogate pair; a sequence of "byte" is a binary payload.  Data is kept *)
(* in units (septets, UTF-16 code units, octets), user data in octets.     *)
(***************************************************************************)
EXTENDS Naturals, Sequences, SequencesExt, TLC

CONSTANTS
    NotSent, Failed,                        \* nothing yet; any error return
    GSM7Single, GSM7Multi8, GSM7Multi16,    \* septets: 160, 153, 152
    UCS2Single, UCS2Multi8, UCS2Multi16,    \* code units: 70, 67, 66
    BinSingle, BinMulti8, BinMulti16,       \* octets: 140, 134, 133
    MaxParts,                               \* 255
    Messages, Texts,                        \* bound: the texts the messages may have
    Refs,                                   \* the reference the sender gives each message
    MaxInbox                                \* bound: parts the receiver collects

ASSUME SegmentationAssumption ==
    /\ GSM7Multi16 >= 2 /\ UCS2Multi16 >= 2 /\ BinMulti16 >= 1 /\ MaxParts \in 1..255 /\ MaxInbox \in Nat
    /\ GSM7Multi16 <= GSM7Multi8 /\ GSM7Multi8 <= GSM7Single
    /\ Refs \in [Messages -> Nat] /\ \A m, n \in Messages : Refs[m] = Refs[n] => m = n

VARIABLES mode, surrogates, text, parts, inbox, result
vars == <<mode, surrogates, text, parts, inbox, result>>

Modes == {"UDH8", "UDH16", "SAR"}

-----------------------------------------------------------------------------
\* encoding/gsm7.go and encoding/unicode.go

ESC == 27

Septets == [plain |-> <<97>>, ext |-> <<ESC, 101>>]
Units16 == [plain |-> <<97>>, ext |-> <<8364>>, wide |-> <<1576>>, astral |-> <<55357, 56832>>]
High(u) == u \in 55296..56319
Low(u) == u \in 56320..57343

Coded(t, table) == FlattenSeq([i \in DOMAIN t |-> table[t[i]]])

\* SelectText; a binary payload is its own representation.
SelectText(t) ==
    LET chars == {t[i] : i \in DOMAIN t} IN
    IF "byte" \in chars THEN [kind |-> "binary", data |-> [i \in DOMAIN t |-> 200]]
    ELSE IF chars \subseteq {"plain", "ext"} THEN [kind |-> "gsm7", data |-> Coded(t, Septets)]
    ELSE IF "astral" \notin chars THEN [kind |-> "ucs2", data |-> Coded(t, Units16)]
    ELSE IF ~surrogates THEN [kind |-> "failed", data |-> <<>>]
    ELSE [kind |-> "utf16", data |-> Coded(t, Units16)]

RECURSIVE DecodeGSM7(_)
DecodeGSM7(d) ==
    IF d = <<>> THEN <<>>
    ELSE IF d[1] # ESC THEN <<"plain">> \o DecodeGSM7(Tail(d))
    ELSE IF Len(d) < 2 \/ d[2] # 101 THEN <<"invalid">>
    ELSE <<"ext">> \o DecodeGSM7(SubSeq(d, 3, Len(d)))

RECURSIVE DecodeUTF16BE(_)
DecodeUTF16BE(d) ==
    IF d = <<>> THEN <<>>
    ELSE IF High(d[1]) /\ Len(d) > 1 /\ Low(d[2]) THEN <<"astral">> \o DecodeUTF16BE(SubSeq(d, 3, Len(d)))
    ELSE IF High(d[1]) \/ Low(d[1]) THEN <<"invalid">>
    ELSE <<CHOOSE c \in {"plain", "ext", "wide"} : Units16[c] = <<d[1]>> >> \o DecodeUTF16BE(Tail(d))

\* DecodeUCS2 refuses every surrogate.
Decode(kind, d) ==
    LET t == CASE kind = "gsm7" -> DecodeGSM7(d)
               [] kind = "binary" -> [i \in DOMAIN d |-> "byte"]
               [] kind = "ucs2" /\ (\E i \in DOMAIN d : High(d[i]) \/ Low(d[i])) -> <<"invalid">>
               [] OTHER -> DecodeUTF16BE(d)
    IN IF Contains(t, "invalid") THEN Failed ELSE t

bit(x, i) == (x \div 2^i) % 2

PackSeptetsWithFill(s, fill) ==
    LET at(pos) == IF pos < fill \/ pos >= fill + 7 * Len(s) THEN 0
                   ELSE bit(s[((pos - fill) \div 7) + 1], (pos - fill) % 7)
    IN [k \in 1..((fill + 7 * Len(s) + 7) \div 8) |->
            FoldLeft(LAMBDA sum, b : sum + 2^b * at(8 * (k - 1) + b), 0, <<0, 1, 2, 3, 4, 5, 6, 7>>)]

UnpackSeptets(d, count, fill) ==
    LET at(pos) == bit(d[(pos \div 8) + 1], pos % 8)
    IN IF fill + 7 * count > 8 * Len(d) THEN <<>>
       ELSE [k \in 1..count |->
                FoldLeft(LAMBDA sum, b : sum + 2^b * at(fill + 7 * (k - 1) + b), 0, <<0, 1, 2, 3, 4, 5, 6>>)]

-----------------------------------------------------------------------------
\* Splitting

\* Mutant: an escape may end a part.
RECURSIVE MutSplitGSM7(_, _)
MutSplitGSM7(d, max) ==
    IF d = <<>> THEN <<>>
    ELSE LET n == IF Len(d) < max THEN Len(d) ELSE max
         IN <<SubSeq(d, 1, n)>> \o MutSplitGSM7(SubSeq(d, n + 1, Len(d)), max)

RECURSIVE splitGSM7(_, _)
splitGSM7(d, max) ==
    IF d = <<>> \/ max < 2 THEN <<>>
    ELSE LET k == IF Len(d) < max THEN Len(d) ELSE max
             n == IF k < Len(d) /\ d[k] = ESC THEN k - 1 ELSE k
         IN <<SubSeq(d, 1, n)>> \o splitGSM7(SubSeq(d, n + 1, Len(d)), max)

RECURSIVE splitBytes(_, _)
splitBytes(d, max) ==
    IF d = <<>> THEN <<>>
    ELSE LET n == IF Len(d) < max THEN Len(d) ELSE max
         IN <<SubSeq(d, 1, n)>> \o splitBytes(SubSeq(d, n + 1, Len(d)), max)

\* A character that does not fit opens the next part.  SelectText's data is well formed.
splitUTF16(d, max) ==
    FoldLeft(LAMBDA ps, u : IF ps = <<>> \/ (~Low(u) /\ Len(Last(ps)) + (IF High(u) THEN 2 ELSE 1) > max)
                            THEN Append(ps, <<u>>) ELSE Append(Front(ps), Append(Last(ps), u)), <<>>, d)

Split(kind, d, gsm7, ucs2, bin) ==
    CASE kind = "gsm7" -> splitGSM7(d, gsm7)
      [] kind = "ucs2" -> splitBytes(d, ucs2)       \* splitFixedUnits
      [] kind = "utf16" -> splitUTF16(d, ucs2)
      [] kind = "binary" -> splitBytes(d, bin)

-----------------------------------------------------------------------------
\* User data headers and SAR parameters

GSM7UDHFillBits(octets) == (7 - ((octets * 8) % 7)) % 7

BuildConcatUDH8(ref, total, seq) == <<5, 0, 3, ref, total, seq>>
BuildConcatUDH16(ref, total, seq) == <<6, 8, 4, ref \div 256, ref % 256, total, seq>>

\* The first information element that concatenates; the others are skipped.
RECURSIVE ConcatIE(_, _)
ConcatIE(h, off) ==
    IF off + 1 > Len(h) \/ off + 1 + h[off + 1] > Len(h) THEN Failed
    ELSE IF h[off] = 0 THEN (IF h[off + 1] = 3 THEN <<h[off + 2], h[off + 3], h[off + 4]>> ELSE Failed)
    ELSE IF h[off] = 8
         THEN (IF h[off + 1] = 4 THEN <<256 * h[off + 2] + h[off + 3], h[off + 4], h[off + 5]>> ELSE Failed)
    ELSE ConcatIE(h, off + 2 + h[off + 1])

ParseConcatUDH(d) ==
    IF d = <<>> \/ d[1] + 1 > Len(d) \/ d[1] + 1 < 6 THEN Failed
    ELSE ConcatIE(SubSeq(d, 1, d[1] + 1), 2)

\* Mutant: total and position are exchanged.
MutParseSAR(sar) == IF Len(sar) # 3 \/ sar[2] = 0 THEN Failed ELSE <<sar[1], sar[3], sar[2]>>

\* SARTLVs are the three parameters; an absent one is not in the sequence.
ParseSAR(sar) == IF Len(sar) # 3 \/ sar[2] = 0 \/ sar[3] = 0 \/ sar[3] > sar[2] THEN Failed ELSE sar

-----------------------------------------------------------------------------
\* The Segment functions: sequences of parts, or Failed.

Octets(kind, d) ==
    IF kind \in {"ucs2", "utf16"} THEN FlattenSeq([i \in DOMAIN d |-> <<d[i] \div 256, d[i] % 256>>]) ELSE d

Part(ref, total, seq, e, chunk, udh, sar, content) ==
    [ref |-> ref, total |-> total, seq |-> seq, kind |-> e.kind, units |-> Len(chunk), data |-> chunk,
     udhi |-> udh # <<>>, wire |-> udh \o content, sar |-> sar]

Single(e, content) == <<Part(0, 1, 1, e, e.data, <<>>, <<>>, content)>>

Counted(ps) == IF Len(ps) \notin 1..MaxParts THEN Failed ELSE ps

Packed(e, d, udh) ==
    IF e.kind = "gsm7" THEN PackSeptetsWithFill(d, GSM7UDHFillBits(Len(udh))) ELSE Octets(e.kind, d)

SingleLimit(kind) ==
    CASE kind = "gsm7" -> GSM7Single [] kind = "binary" -> BinSingle [] OTHER -> UCS2Single

\* SegmentTextUDH, SegmentBinaryUDH, makeUDHSegments
SegmentUDH8(e, ref) ==
    LET chunks == Split(e.kind, e.data, GSM7Multi8, UCS2Multi8, BinMulti8)
        P(i) == LET udh == BuildConcatUDH8(ref, Len(chunks), i)
                IN Part(ref, Len(chunks), i, e, chunks[i], udh, <<>>, Packed(e, chunks[i], udh))
    IN IF Len(e.data) <= SingleLimit(e.kind) THEN Single(e, Packed(e, e.data, <<>>)) ELSE Counted([i \in DOMAIN chunks |-> P(i)])

\* SegmentTextUDH16Unpacked, SegmentBinaryUDH16, makeUDH16UnpackedSegments
SegmentUDH16(e, ref) ==
    LET chunks == Split(e.kind, e.data, GSM7Multi16, UCS2Multi16, BinMulti16)
        P(i) == Part(ref, Len(chunks), i, e, chunks[i], BuildConcatUDH16(ref, Len(chunks), i), <<>>,
                     Octets(e.kind, chunks[i]))
    IN IF Len(e.data) <= SingleLimit(e.kind) THEN Single(e, Octets(e.kind, e.data)) ELSE Counted([i \in DOMAIN chunks |-> P(i)])

\* SegmentTextSAR, SegmentBinarySAR
SegmentSAR(e, ref) ==
    LET chunks == Split(e.kind, e.data, GSM7Single, UCS2Single, BinSingle)
        P(i) == Part(ref, Len(chunks), i, e, chunks[i], <<>>, <<ref, Len(chunks), i>>, Packed(e, chunks[i], <<>>))
    IN IF Len(chunks) <= 1 THEN SegmentUDH8(e, ref % 256) ELSE Counted([i \in DOMAIN chunks |-> P(i)])

Segment(t, ref) ==
    LET e == SelectText(t) IN
    CASE e.kind = "failed" -> Failed
      [] mode = "UDH8" -> SegmentUDH8(e, ref % 256)
      [] mode = "UDH16" -> SegmentUDH16(e, ref)
      [] mode = "SAR" -> SegmentSAR(e, ref)

-----------------------------------------------------------------------------
\* Joining

\* What a receiver makes of a part on the wire with the library's parsers, given its coding
\* and its unit count.
Received(p) ==
    LET concat == IF p.udhi THEN ParseConcatUDH(p.wire) ELSE IF p.sar # <<>> THEN ParseSAR(p.sar) ELSE <<0, 1, 1>>
        header == IF p.udhi THEN p.wire[1] + 1 ELSE 0
        content == SubSeq(p.wire, header + 1, Len(p.wire))
        data == IF p.kind = "gsm7" /\ mode # "UDH16"
                THEN UnpackSeptets(content, p.units, GSM7UDHFillBits(header))
                ELSE IF p.kind \in {"ucs2", "utf16"}
                THEN [i \in 1..(Len(content) \div 2) |-> 256 * content[2 * i - 1] + content[2 * i]]
                ELSE content
    IN [ref |-> concat[1], total |-> concat[2], seq |-> concat[3], kind |-> p.kind, data |-> data]

\* Mutant: the total is only compared with the number of parts.
MutReassemble(segments) ==
    LET sorted == SortSeq(segments, LAMBDA a, b : a.seq < b.seq)
    IN IF segments = <<>> \/ sorted[1].total # Len(sorted) THEN Failed
       ELSE FlattenSeq([i \in DOMAIN sorted |-> sorted[i].data])

Reassemble(segments) ==
    LET sorted == SortSeq(segments, LAMBDA a, b : a.seq < b.seq)
    IN IF /\ segments # <<>>
          /\ sorted[1].total = Len(sorted)
          /\ \A i \in DOMAIN sorted :
                /\ sorted[i].ref = sorted[1].ref /\ sorted[i].kind = sorted[1].kind
                /\ sorted[i].total = sorted[1].total /\ sorted[i].seq = i
       THEN FlattenSeq([i \in DOMAIN sorted |-> sorted[i].data])
       ELSE Failed

\* DecodeTextSegments; a binary payload is Reassemble's.
DecodeSegments(segments) ==
    LET d == Reassemble(segments) IN IF d = Failed THEN Failed ELSE Decode(segments[1].kind, d)

-----------------------------------------------------------------------------
Init ==
    /\ mode \in Modes /\ surrogates \in BOOLEAN /\ text \in Texts
    /\ parts = [m \in Messages |-> NotSent] /\ inbox = <<>> /\ result = NotSent

Submit(m) ==
    /\ parts[m] = NotSent /\ parts' = [parts EXCEPT ![m] = Segment(text[m], Refs[m])]
    /\ UNCHANGED <<mode, surrogates, text, inbox, result>>

\* The network loses, repeats and reorders parts.
Deliver(m) ==
    /\ parts[m] \notin {NotSent, Failed} /\ result = NotSent /\ Len(inbox) < MaxInbox
    /\ \E i \in DOMAIN parts[m] : inbox' = Append(inbox, Received(parts[m][i]))
    /\ UNCHANGED <<mode, surrogates, text, parts, result>>

Join ==
    /\ result = NotSent /\ result' = DecodeSegments(inbox)
    /\ UNCHANGED <<mode, surrogates, text, parts, inbox>>

Next == Join \/ \E m \in Messages : Submit(m) \/ Deliver(m)

Spec == Init /\ [][Next]_vars

-----------------------------------------------------------------------------
(***************************************************************************)
(*                               Properties                                *)
(***************************************************************************)

Sent == {m \in Messages : parts[m] \notin {NotSent, Failed}}

Encoded(m) == SelectText(text[m])

Limit(kind, n) ==
    IF n = 1 \/ mode = "SAR" THEN SingleLimit(kind)
    ELSE CASE kind = "gsm7" -> (IF mode = "UDH8" THEN GSM7Multi8 ELSE GSM7Multi16)
           [] kind = "binary" -> (IF mode = "UDH8" THEN BinMulti8 ELSE BinMulti16)
           [] OTHER -> (IF mode = "UDH8" THEN UCS2Multi8 ELSE UCS2Multi16)

\* Parts have the shape of the Segment type, and their wire form is octets.
TypeOK ==
    /\ \A m \in Sent : \A i \in DOMAIN parts[m] : LET p == parts[m][i] IN
        /\ p.seq \in 1..p.total /\ p.total \in 1..MaxParts /\ \A k \in DOMAIN p.wire : p.wire[k] \in 0..255
    /\ Len(inbox) <= MaxInbox

\* "GSM7 escape pairs and UTF-16 surrogate pairs are never split across part boundaries" and
\* Split "never silently truncates text or generates more than 255 parts": the parts are
\* numbered, none is longer than its limit, each is a text of its own, and together they are
\* the message.
PartsWhole ==
    /\ TypeOK
    /\ \A m \in Sent : LET ps == parts[m] IN
        /\ FlattenSeq([i \in DOMAIN ps |-> ps[i].data]) = Encoded(m).data
        /\ \A i \in DOMAIN ps :
              /\ Len(ps[i].data) <= Limit(ps[i].kind, Len(ps)) /\ ps[i].total = Len(ps) /\ ps[i].seq = i
              /\ Decode(ps[i].kind, ps[i].data) # Failed

\* What a receiver joins from the parts it happens to hold is a message that was sent, never
\* a mixture, a fragment or a text with a wrong bit, through packing, header and parsing.
JoinedWasSent == result \in {NotSent, Failed} \/ \E m \in Sent : result = text[m]

\* A receiver that holds the parts of one message, in any order, can join them.
CompleteSetJoins ==
    result = Failed =>
        \A m \in Sent : ~(/\ Len(inbox) = Len(parts[m])
                          /\ {inbox[i] : i \in DOMAIN inbox} = {Received(parts[m][i]) : i \in DOMAIN parts[m]})
=============================================================================
