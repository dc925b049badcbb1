------------------------------- MODULE Codec -------------------------------
(***************************************************************************)
(* The PDU codec (package codec): the typed encoders and decoders of every *)
(* SMPP 3.4 and 5.0 command, EncodePDU, DecodePDU, the registry they look  *)
(* a command up in, and the size hints computed beside the encoders.       *)
(*                                                                         *)
(* An octet is a number in 0..255 and a uint32 is its four octets.  A body *)
(* is a record [type, val]: the Go type it has and a function from field   *)
(* names to values (octets of a string, an octet, or a list).  A command's *)
(* encoder and its decoder are two lists of steps, each written down from  *)
(* its own Go function, so that nothing here makes them agree: that they   *)
(* do is what WirePath checks.  encodeFields and decodeFields run a list.  *)
(***************************************************************************)
EXTENDS Integers, Sequences, SequencesExt, TLC

HeaderSize == 16
TLVHeaderSize == 4
StatusOK == <<0, 0, 0, 0>>

\* binary.BigEndian.PutUint32 of a small number, and its inverse.
Uint32(n) == <<0, 0, n \div 256, n % 256>>
Uint16At(src, i) == 256 * src[i] + src[i + 1]

IsResponse(id) == id[1] >= 128

EmptyBody == [type |-> "EmptyBody", val |-> <<>>]
OptionalResponse(tlvs) == [type |-> "OptionalResponse", val |-> "Optional" :> tlvs]
RawBody(octets) == [type |-> "RawBody", val |-> "Octets" :> octets]

(***************************************************************************)
(* Steps of an encoder or of a decoder.                                    *)
(***************************************************************************)
CString(name, max) == [do |-> "cstring", name |-> name, max |-> max]
U8(name) == [do |-> "uint8", name |-> name]
U32(name) == [do |-> "uint32", name |-> name]
ShortMessage == [do |-> "message", name |-> "ShortMessage"]
Destinations == [do |-> "destinations", name |-> "Destinations"]
Unsuccessful == [do |-> "unsuccessful", name |-> "Unsuccessful"]
Optional == [do |-> "optional", name |-> "Optional"]
RequireDone == [do |-> "done"]
NoConflict == [do |-> "conflict"]
OneOctetVersion == [do |-> "version"]
ShortEnough == [do |-> "short"]
SomeDestinations == [do |-> "some"]
FewUnsuccessful == [do |-> "few"]

maxSystemIDLen == 16
maxPasswordLen == 9
maxSystemTypeLen == 13
maxAddressRangeLen == 41
maxServiceTypeLen == 6
maxAddressLen == 21
maxTimeFieldLen == 17
maxMessageIDLen == 65
maxShortMessageLength == 254
maxDataAddressLen == 65
maxDLNameLen == 21
MaxUint16 == 65535

TLVTagSCInterfaceVersion == 528
TLVTagMessagePayload == 1060

hasNonEmptyMessagePayload(tlvs) ==
    \E i \in DOMAIN tlvs : tlvs[i].tag = TLVTagMessagePayload /\ tlvs[i].value # <<>>

conflicting(v) == hasNonEmptyMessagePayload(v["Optional"]) /\ v["ShortMessage"] # <<>>

DestinationSME == 1
DestinationDistributionList == 2

(***************************************************************************)
(* Decoding.  A reader is [rest, val, err]: what is left of the body, the  *)
(* fields read so far, and "" or the kind of the error that stopped it: a  *)
(* "fatal" error ends the session, a "semantic" one rejects the PDU.       *)
(***************************************************************************)
Reader(src) == [rest |-> src, val |-> <<>>, err |-> ""]
Failed(r, kind) == [r EXCEPT !.err = kind]
Took(r, name, value, n) ==
    [r EXCEPT !.rest = SubSeq(@, n + 1, Len(@)), !.val = (name :> value) @@ @]

ReadCString(r, f) ==
    LET limit == IF f.max < Len(r.rest) THEN f.max ELSE Len(r.rest)
        idx == SelectInSeq(SubSeq(r.rest, 1, limit), LAMBDA octet : octet = 0)
    IN  IF idx = 0 THEN Failed(r, "fatal") ELSE Took(r, f.name, SubSeq(r.rest, 1, idx - 1), idx)

ReadUint8(r, f) ==
    IF r.rest = <<>> THEN Failed(r, "fatal") ELSE Took(r, f.name, r.rest[1], 1)

ReadUint32(r, f) ==
    IF Len(r.rest) < 4 THEN Failed(r, "fatal") ELSE Took(r, f.name, SubSeq(r.rest, 1, 4), 4)

readOne(r, f) ==
    CASE r.err # "" -> r
      [] f.do = "cstring" -> ReadCString(r, f)
      [] f.do = "uint8" -> ReadUint8(r, f)
      [] OTHER -> ReadUint32(r, f)

\* Mutant: fewer octets than a TLV header are ignored.
MutScanTLVs(src) ==
    LET visit(r, i) ==
          CASE r.err # "" \/ Len(r.rest) < TLVHeaderSize -> r
            [] Uint16At(r.rest, 3) > Len(r.rest) - TLVHeaderSize -> Failed(r, "fatal")
            [] OTHER -> LET n == TLVHeaderSize + Uint16At(r.rest, 3)
                        IN  [r EXCEPT !.rest = SubSeq(@, n + 1, Len(@)),
                                      !.val = Append(@, [tag |-> Uint16At(r.rest, 1),
                                                         value |-> SubSeq(r.rest, TLVHeaderSize + 1, n)])]
    IN  FoldLeft(visit, Reader(src), [i \in 1 .. Len(src) |-> i])

\* ScanTLVs: every TLV takes at least its header, which bounds the loop.
ScanTLVs(src) ==
    LET visit(r, i) ==
          CASE r.err # "" \/ r.rest = <<>> -> r
            [] Len(r.rest) < TLVHeaderSize -> Failed(r, "fatal")
            [] Uint16At(r.rest, 3) > Len(r.rest) - TLVHeaderSize -> Failed(r, "fatal")
            [] OTHER -> LET n == TLVHeaderSize + Uint16At(r.rest, 3)
                        IN  [r EXCEPT !.rest = SubSeq(@, n + 1, Len(@)),
                                      !.val = Append(@, [tag |-> Uint16At(r.rest, 1),
                                                         value |-> SubSeq(r.rest, TLVHeaderSize + 1, n)])]
    IN  FoldLeft(visit, Reader(src), [i \in 1 .. Len(src) |-> i])

readOptional(r) ==
    LET scan == ScanTLVs(r.rest)
    IN  IF scan.err # "" THEN Failed(r, scan.err) ELSE Took(r, "Optional", scan.val, Len(r.rest))

readDestination(r) ==
    LET flag == ReadUint8(r, U8("Flag"))
    IN  CASE flag.err # "" -> flag
          [] flag.val["Flag"] = DestinationSME ->
                FoldLeft(readOne, flag, <<U8("TON"), U8("NPI"), CString("Address", maxAddressLen)>>)
          [] flag.val["Flag"] = DestinationDistributionList -> ReadCString(flag, CString("Address", maxDLNameLen))
          [] OTHER -> Failed(flag, "fatal")

readUnsuccessful(r) ==
    FoldLeft(readOne, r, <<U8("DestAddrTON"), U8("DestAddrNPI"),
                           CString("DestinationAddr", maxAddressLen), U32("ErrorStatusCode")>>)

\* The loops of decodeSubmitMulti and decodeSubmitMultiResp: one element, read
\* after the ones before it, and the list of count elements they leave.  Sixteen
\* at a time, the recursion stays shallow enough for a list of 255.
Steps(step(_), list, n) ==
    LET after[i \in 0 .. n] == IF i = 0 THEN list ELSE step(after[i - 1])
    IN  IF list.err # "" THEN list ELSE after[n]

Repeat(step(_), list, count) ==
    LET after[k \in 0 .. count \div 16] ==
          IF k = 0 THEN Steps(step, list, count % 16) ELSE Steps(step, after[k - 1], 16)
    IN  after[count \div 16]

Extended(list, e) == [rest |-> e.rest, val |-> Append(list.val, e.val), err |-> e.err]
nextDestination(list) == IF list.err # "" THEN list ELSE Extended(list, readDestination(Reader(list.rest)))
nextUnsuccessful(list) == IF list.err # "" THEN list ELSE Extended(list, readUnsuccessful(Reader(list.rest)))

AfterCount(r) == Reader(SubSeq(r.rest, 2, Len(r.rest)))
TookList(r, name, list) ==
    IF list.err # "" THEN Failed(r, list.err) ELSE Took(r, name, list.val, Len(r.rest) - Len(list.rest))

readDestinations(r) == TookList(r, "Destinations", Repeat(nextDestination, AfterCount(r), r.rest[1]))
readUnsuccessfuls(r) == TookList(r, "Unsuccessful", Repeat(nextUnsuccessful, AfterCount(r), r.rest[1]))

readMessage(r) ==
    CASE r.rest = <<>> -> Failed(r, "fatal")
      [] r.rest[1] = 255 -> Failed(r, "semantic")
      [] r.rest[1] > Len(r.rest) - 1 -> Failed(r, "fatal")
      [] OTHER -> Took(r, "ShortMessage", SubSeq(r.rest, 2, 1 + r.rest[1]), 1 + r.rest[1])

decodeStep(r, f) ==
    CASE r.err # "" -> r
      [] f.do \in {"cstring", "uint8"} -> readOne(r, f)
      [] f.do = "message" -> readMessage(r)
      [] f.do = "destinations" ->
            CASE r.rest = <<>> -> Failed(r, "fatal")
              [] r.rest[1] \in {0, 255} -> Failed(r, "semantic")
              [] OTHER -> readDestinations(r)
      [] f.do = "unsuccessful" ->
            IF r.rest = <<>> THEN Failed(r, "fatal")
            ELSE readUnsuccessfuls(r)
      [] f.do = "optional" -> readOptional(r)
      [] f.do = "done" -> IF r.rest # <<>> THEN Failed(r, "semantic") ELSE r
      [] f.do = "conflict" -> IF conflicting(r.val) THEN Failed(r, "semantic") ELSE r
      [] f.do = "version" ->
            IF \E i \in DOMAIN r.val["Optional"] :
                   /\ r.val["Optional"][i].tag = TLVTagSCInterfaceVersion
                   /\ Len(r.val["Optional"][i].value) # 1
            THEN Failed(r, "semantic") ELSE r

decodeFields(fields, body) == FoldLeft(decodeStep, Reader(body), fields)

(***************************************************************************)
(* Encoding.  The octets written so far, and whether every step succeeded. *)
(***************************************************************************)
Wrote(w, octets) == [w EXCEPT !.out = @ \o octets]
Refused(w) == [w EXCEPT !.ok = FALSE]
Written == [ok |-> TRUE, out |-> <<>>]

AppendCString(w, value, max) ==
    IF ~w.ok \/ 0 \in Range(value) \/ Len(value) + 1 > max THEN Refused(w) ELSE Wrote(w, Append(value, 0))

AppendTLV(w, tlv) ==
    IF Len(tlv.value) > MaxUint16 THEN Refused(w)
    ELSE Wrote(w, <<tlv.tag \div 256, tlv.tag % 256, Len(tlv.value) \div 256, Len(tlv.value) % 256>> \o tlv.value)

appendOptional(w, tlvs) == FoldLeft(AppendTLV, w, tlvs)

appendDestination(w, d) ==
    CASE ~w.ok -> w
      [] d["Flag"] = DestinationSME ->
            AppendCString(Wrote(w, <<d["Flag"], d["TON"], d["NPI"]>>), d["Address"], maxAddressLen)
      [] d["Flag"] = DestinationDistributionList ->
            AppendCString(Wrote(w, <<d["Flag"]>>), d["Address"], maxDLNameLen)
      [] OTHER -> Refused(w)

appendUnsuccessful(w, u) ==
    LET named == AppendCString(Wrote(w, <<u["DestAddrTON"], u["DestAddrNPI"]>>), u["DestinationAddr"], maxAddressLen)
    IN  CASE ~w.ok -> w
          [] named.ok -> Wrote(named, u["ErrorStatusCode"])
          [] OTHER -> named

\* byte(len(list)): one octet, whatever the length.
countOctet(list) == <<Len(list) % 256>>

\* The loops of encodeSubmitMulti and encodeSubmitMultiResp, sixteen elements at a time.
AppendSome(append(_, _), w, list, from, n) ==
    LET after[i \in 0 .. n] == IF i = 0 THEN w ELSE append(after[i - 1], list[from + i])
    IN  IF ~w.ok THEN w ELSE after[n]

AppendAll(append(_, _), w, list) ==
    LET first == Len(list) % 16
        after[k \in 0 .. Len(list) \div 16] ==
          IF k = 0 THEN AppendSome(append, Wrote(w, countOctet(list)), list, 0, first)
          ELSE AppendSome(append, after[k - 1], list, first + 16 * (k - 1), 16)
    IN  after[Len(list) \div 16]

encodeStep(w, f, v) ==
    CASE ~w.ok -> w
      [] f.do = "cstring" -> AppendCString(w, v[f.name], f.max)
      [] f.do = "uint8" -> Wrote(w, <<v[f.name]>>)
      [] f.do = "message" -> Wrote(w, countOctet(v[f.name]) \o v[f.name])
      [] f.do = "destinations" -> AppendAll(appendDestination, w, v[f.name])
      [] f.do = "unsuccessful" -> AppendAll(appendUnsuccessful, w, v[f.name])
      [] f.do = "optional" -> appendOptional(w, v["Optional"])
      [] f.do = "conflict" -> IF conflicting(v) THEN Refused(w) ELSE w
      [] f.do = "short" -> IF Len(v["ShortMessage"]) > maxShortMessageLength THEN Refused(w) ELSE w
      [] f.do = "some" -> IF Len(v["Destinations"]) \in 1 .. 254 THEN w ELSE Refused(w)
      [] f.do = "few" -> IF Len(v["Unsuccessful"]) > 255 THEN Refused(w) ELSE w

encodeFields(fields, v) == FoldLeft(LAMBDA w, f : encodeStep(w, f, v), Written, fields)

(***************************************************************************)
(* The command-specific encoders and decoders.  A decoder tests the header *)
(* status first: a request must have status zero, and a response with any  *)
(* other status carries TLVs only.  An encoder also accepts an EmptyBody   *)
(* or an OptionalResponse where its type switch does.                      *)
(***************************************************************************)
RequestDecoder(type, fields) == [status |-> "request", type |-> type, fields |-> fields]
ResponseDecoder(type, fields) == [status |-> "response", type |-> type, fields |-> fields]
RequestEncoder(type, fields) == [type |-> type, empty |-> "refused", tlvs |-> FALSE, fields |-> fields]
ResponseEncoder(type, fields) == [type |-> type, empty |-> "nothing", tlvs |-> TRUE, fields |-> fields]

decodeBindRequest == RequestDecoder("BindRequest",
    <<CString("SystemID", maxSystemIDLen), CString("Password", maxPasswordLen),
      CString("SystemType", maxSystemTypeLen), U8("InterfaceVersion"), U8("AddressTON"), U8("AddressNPI"),
      CString("AddressRange", maxAddressRangeLen), RequireDone>>)

encodeBindRequest == RequestEncoder("BindRequest",
    <<CString("SystemID", maxSystemIDLen), CString("Password", maxPasswordLen),
      CString("SystemType", maxSystemTypeLen), U8("InterfaceVersion"), U8("AddressTON"), U8("AddressNPI"),
      CString("AddressRange", maxAddressRangeLen)>>)

decodeBindResponse == ResponseDecoder("BindResponse",
    <<CString("SystemID", maxSystemIDLen), Optional, OneOctetVersion>>)

encodeBindResponse == ResponseEncoder("BindResponse", <<CString("SystemID", maxSystemIDLen), Optional>>)

decodeRequestEmpty == RequestDecoder("EmptyBody", <<RequireDone>>)
decodeResponseEmpty == [status |-> "any", type |-> "EmptyBody", fields |-> <<Optional>>]
encodeEmpty == [type |-> "EmptyBody", empty |-> "nothing", tlvs |-> FALSE, fields |-> <<>>]
encodeResponseEmpty == [type |-> "EmptyBody", empty |-> "nothing", tlvs |-> TRUE, fields |-> <<>>]

decodeShortMessageBody ==
    <<CString("ServiceType", maxServiceTypeLen), U8("SourceAddrTON"), U8("SourceAddrNPI"),
      CString("SourceAddr", maxAddressLen), U8("DestAddrTON"), U8("DestAddrNPI"),
      CString("DestinationAddr", maxAddressLen), U8("ESMClass"), U8("ProtocolID"), U8("PriorityFlag"),
      CString("ScheduleDeliveryTime", maxTimeFieldLen), CString("ValidityPeriod", maxTimeFieldLen),
      U8("RegisteredDelivery"), U8("ReplaceIfPresentFlag"), U8("DataCoding"), U8("SMDefaultMsgID"),
      ShortMessage, Optional, NoConflict>>

appendShortMessageBody ==
    <<ShortEnough, NoConflict, CString("ServiceType", maxServiceTypeLen), U8("SourceAddrTON"),
      U8("SourceAddrNPI"), CString("SourceAddr", maxAddressLen), U8("DestAddrTON"), U8("DestAddrNPI"),
      CString("DestinationAddr", maxAddressLen), U8("ESMClass"), U8("ProtocolID"), U8("PriorityFlag"),
      CString("ScheduleDeliveryTime", maxTimeFieldLen), CString("ValidityPeriod", maxTimeFieldLen),
      U8("RegisteredDelivery"), U8("ReplaceIfPresentFlag"), U8("DataCoding"), U8("SMDefaultMsgID"),
      ShortMessage, Optional>>

decodeSubmitSM == RequestDecoder("SubmitSM", decodeShortMessageBody)
encodeSubmitSM == RequestEncoder("SubmitSM", appendShortMessageBody)
decodeDeliverSM == RequestDecoder("DeliverSM", decodeShortMessageBody)
encodeDeliverSM == RequestEncoder("DeliverSM", appendShortMessageBody)

decodeSubmitSMResp == ResponseDecoder("SubmitSMResp", <<CString("MessageID", maxMessageIDLen), Optional>>)
encodeSubmitSMResp == ResponseEncoder("SubmitSMResp", <<CString("MessageID", maxMessageIDLen), Optional>>)

\* A header-only success is accepted, and an EmptyBody is written as an empty message_id.
decodeDeliverSMResp ==
    [status |-> "lenient", type |-> "DeliverSMResp", fields |-> <<CString("MessageID", maxMessageIDLen), Optional>>]
encodeDeliverSMResp ==
    [type |-> "DeliverSMResp", empty |-> "zero", tlvs |-> TRUE,
     fields |-> <<CString("MessageID", maxMessageIDLen), Optional>>]

decodeDataSM == RequestDecoder("DataSM",
    <<CString("ServiceType", maxServiceTypeLen), U8("SourceAddrTON"), U8("SourceAddrNPI"),
      CString("SourceAddr", maxDataAddressLen), U8("DestAddrTON"), U8("DestAddrNPI"),
      CString("DestinationAddr", maxDataAddressLen), U8("ESMClass"), U8("RegisteredDelivery"),
      U8("DataCoding"), Optional>>)

encodeDataSM == RequestEncoder("DataSM",
    <<CString("ServiceType", maxServiceTypeLen), U8("SourceAddrTON"), U8("SourceAddrNPI"),
      CString("SourceAddr", maxDataAddressLen), U8("DestAddrTON"), U8("DestAddrNPI"),
      CString("DestinationAddr", maxDataAddressLen), U8("ESMClass"), U8("RegisteredDelivery"),
      U8("DataCoding"), Optional>>)

decodeDataSMResp == ResponseDecoder("DataSMResp", <<CString("MessageID", maxMessageIDLen), Optional>>)
encodeDataSMResp == ResponseEncoder("DataSMResp", <<CString("MessageID", maxMessageIDLen), Optional>>)

decodeQuerySM == RequestDecoder("QuerySM",
    <<CString("MessageID", maxMessageIDLen), U8("SourceAddrTON"), U8("SourceAddrNPI"),
      CString("SourceAddr", maxAddressLen), RequireDone>>)

encodeQuerySM == RequestEncoder("QuerySM",
    <<CString("MessageID", maxMessageIDLen), U8("SourceAddrTON"), U8("SourceAddrNPI"),
      CString("SourceAddr", maxAddressLen)>>)

decodeQuerySMResp == ResponseDecoder("QuerySMResp",
    <<CString("MessageID", maxMessageIDLen), CString("FinalDate", maxTimeFieldLen),
      U8("MessageState"), U8("ErrorCode"), Optional>>)

encodeQuerySMResp == ResponseEncoder("QuerySMResp",
    <<CString("MessageID", maxMessageIDLen), CString("FinalDate", maxTimeFieldLen),
      U8("MessageState"), U8("ErrorCode"), Optional>>)

decodeCancelSM == RequestDecoder("CancelSM",
    <<CString("ServiceType", maxServiceTypeLen), CString("MessageID", maxMessageIDLen),
      U8("SourceAddrTON"), U8("SourceAddrNPI"), CString("SourceAddr", maxAddressLen),
      U8("DestAddrTON"), U8("DestAddrNPI"), CString("DestinationAddr", maxAddressLen), RequireDone>>)

encodeCancelSM == RequestEncoder("CancelSM",
    <<CString("ServiceType", maxServiceTypeLen), CString("MessageID", maxMessageIDLen),
      U8("SourceAddrTON"), U8("SourceAddrNPI"), CString("SourceAddr", maxAddressLen),
      U8("DestAddrTON"), U8("DestAddrNPI"), CString("DestinationAddr", maxAddressLen)>>)

decodeReplaceSM == RequestDecoder("ReplaceSM",
    <<CString("MessageID", maxMessageIDLen), U8("SourceAddrTON"), U8("SourceAddrNPI"),
      CString("SourceAddr", maxAddressLen), CString("ScheduleDeliveryTime", maxTimeFieldLen),
      CString("ValidityPeriod", maxTimeFieldLen), U8("RegisteredDelivery"), U8("SMDefaultMsgID"),
      ShortMessage, RequireDone>>)

encodeReplaceSM == RequestEncoder("ReplaceSM",
    <<ShortEnough, CString("MessageID", maxMessageIDLen), U8("SourceAddrTON"), U8("SourceAddrNPI"),
      CString("SourceAddr", maxAddressLen), CString("ScheduleDeliveryTime", maxTimeFieldLen),
      CString("ValidityPeriod", maxTimeFieldLen), U8("RegisteredDelivery"), U8("SMDefaultMsgID"),
      ShortMessage>>)

decodeAlertNotification == RequestDecoder("AlertNotification",
    <<U8("SourceAddrTON"), U8("SourceAddrNPI"), CString("SourceAddr", maxDataAddressLen),
      U8("ESMEAddrTON"), U8("ESMEAddrNPI"), CString("ESMEAddr", maxDataAddressLen), Optional>>)

encodeAlertNotification == RequestEncoder("AlertNotification",
    <<U8("SourceAddrTON"), U8("SourceAddrNPI"), CString("SourceAddr", maxDataAddressLen),
      U8("ESMEAddrTON"), U8("ESMEAddrNPI"), CString("ESMEAddr", maxDataAddressLen), Optional>>)

decodeOutbind == RequestDecoder("Outbind",
    <<CString("SystemID", maxSystemIDLen), CString("Password", maxPasswordLen), RequireDone>>)
encodeOutbind == RequestEncoder("Outbind",
    <<CString("SystemID", maxSystemIDLen), CString("Password", maxPasswordLen)>>)

decodeSubmitMulti == RequestDecoder("SubmitMulti",
    <<CString("ServiceType", maxServiceTypeLen), U8("SourceAddrTON"), U8("SourceAddrNPI"),
      CString("SourceAddr", maxAddressLen), Destinations, U8("ESMClass"), U8("ProtocolID"),
      U8("PriorityFlag"), CString("ScheduleDeliveryTime", maxTimeFieldLen),
      CString("ValidityPeriod", maxTimeFieldLen), U8("RegisteredDelivery"), U8("ReplaceIfPresentFlag"),
      U8("DataCoding"), U8("SMDefaultMsgID"), ShortMessage, Optional, NoConflict>>)

encodeSubmitMulti == RequestEncoder("SubmitMulti",
    <<SomeDestinations, ShortEnough, NoConflict, CString("ServiceType", maxServiceTypeLen),
      U8("SourceAddrTON"), U8("SourceAddrNPI"), CString("SourceAddr", maxAddressLen), Destinations,
      U8("ESMClass"), U8("ProtocolID"), U8("PriorityFlag"),
      CString("ScheduleDeliveryTime", maxTimeFieldLen), CString("ValidityPeriod", maxTimeFieldLen),
      U8("RegisteredDelivery"), U8("ReplaceIfPresentFlag"), U8("DataCoding"), U8("SMDefaultMsgID"),
      ShortMessage, Optional>>)

decodeSubmitMultiResp == ResponseDecoder("SubmitMultiResp",
    <<CString("MessageID", maxMessageIDLen), Unsuccessful, Optional>>)
encodeSubmitMultiResp == ResponseEncoder("SubmitMultiResp",
    <<FewUnsuccessful, CString("MessageID", maxMessageIDLen), Unsuccessful, Optional>>)

decodeBroadcastSM == RequestDecoder("BroadcastSM",
    <<CString("ServiceType", maxServiceTypeLen), U8("SourceAddrTON"), U8("SourceAddrNPI"),
      CString("SourceAddr", maxAddressLen), CString("MessageID", maxMessageIDLen), U8("PriorityFlag"),
      CString("ScheduleDeliveryTime", maxTimeFieldLen), CString("ValidityPeriod", maxTimeFieldLen),
      U8("ReplaceIfPresentFlag"), U8("DataCoding"), U8("SMDefaultMsgID"), Optional>>)

encodeBroadcastSM == RequestEncoder("BroadcastSM",
    <<CString("ServiceType", maxServiceTypeLen), U8("SourceAddrTON"), U8("SourceAddrNPI"),
      CString("SourceAddr", maxAddressLen), CString("MessageID", maxMessageIDLen), U8("PriorityFlag"),
      CString("ScheduleDeliveryTime", maxTimeFieldLen), CString("ValidityPeriod", maxTimeFieldLen),
      U8("ReplaceIfPresentFlag"), U8("DataCoding"), U8("SMDefaultMsgID"), Optional>>)

decodeBroadcastSMResp == ResponseDecoder("BroadcastSMResp", <<CString("MessageID", maxMessageIDLen), Optional>>)
encodeBroadcastSMResp == ResponseEncoder("BroadcastSMResp", <<CString("MessageID", maxMessageIDLen), Optional>>)

decodeQueryBroadcastSM == RequestDecoder("QueryBroadcastSM",
    <<CString("MessageID", maxMessageIDLen), U8("SourceAddrTON"), U8("SourceAddrNPI"),
      CString("SourceAddr", maxAddressLen), Optional>>)

encodeQueryBroadcastSM == RequestEncoder("QueryBroadcastSM",
    <<CString("MessageID", maxMessageIDLen), U8("SourceAddrTON"), U8("SourceAddrNPI"),
      CString("SourceAddr", maxAddressLen), Optional>>)

decodeQueryBroadcastSMResp ==
    ResponseDecoder("QueryBroadcastSMResp", <<CString("MessageID", maxMessageIDLen), Optional>>)
encodeQueryBroadcastSMResp ==
    ResponseEncoder("QueryBroadcastSMResp", <<CString("MessageID", maxMessageIDLen), Optional>>)

decodeCancelBroadcastSM == RequestDecoder("CancelBroadcastSM",
    <<CString("ServiceType", maxServiceTypeLen), CString("MessageID", maxMessageIDLen),
      U8("SourceAddrTON"), U8("SourceAddrNPI"), CString("SourceAddr", maxAddressLen), Optional>>)

encodeCancelBroadcastSM == RequestEncoder("CancelBroadcastSM",
    <<CString("ServiceType", maxServiceTypeLen), CString("MessageID", maxMessageIDLen),
      U8("SourceAddrTON"), U8("SourceAddrNPI"), CString("SourceAddr", maxAddressLen), Optional>>)

(***************************************************************************)
(* The registry.  A builder collects definitions, one per command_id, and  *)
(* Freeze makes the snapshot every lookup uses.  NoCodec is the nil Decode *)
(* or Encode of a definition.  Panics is a vendor's function that panics.  *)
(***************************************************************************)
NoCodec == [type |-> "none"]
Panics == [type |-> "panics"]

Definition(id, name, decode, encode) == [id |-> id, name |-> name, decode |-> decode, encode |-> encode]
Request(n, name, decode, encode) == Definition(<<0, 0, n \div 256, n % 256>>, name, decode, encode)
Response(n, name, decode, encode) == Definition(<<128, 0, n \div 256, n % 256>>, name, decode, encode)

NewRegistryBuilder(mode) == [mode |-> mode, frozen |-> FALSE, commands |-> <<>>]

RegisterCommand(b, def) ==
    IF b.frozen \/ def.id \in DOMAIN b.commands THEN b
    ELSE [b EXCEPT !.commands = (def.id :> def) @@ @]

Freeze(b) == [b EXCEPT !.frozen = TRUE]

registerSMPP34Commands(b) == FoldLeft(RegisterCommand, b,
    <<Response(0, "generic_nack", decodeResponseEmpty, encodeResponseEmpty),
      Request(1, "bind_receiver", decodeBindRequest, encodeBindRequest),
      Response(1, "bind_receiver_resp", decodeBindResponse, encodeBindResponse),
      Request(2, "bind_transmitter", decodeBindRequest, encodeBindRequest),
      Response(2, "bind_transmitter_resp", decodeBindResponse, encodeBindResponse),
      Request(3, "query_sm", decodeQuerySM, encodeQuerySM),
      Response(3, "query_sm_resp", decodeQuerySMResp, encodeQuerySMResp),
      Request(4, "submit_sm", decodeSubmitSM, encodeSubmitSM),
      Response(4, "submit_sm_resp", decodeSubmitSMResp, encodeSubmitSMResp),
      Request(5, "deliver_sm", decodeDeliverSM, encodeDeliverSM),
      Response(5, "deliver_sm_resp", decodeDeliverSMResp, encodeDeliverSMResp),
      Request(6, "unbind", decodeRequestEmpty, encodeEmpty),
      Response(6, "unbind_resp", decodeResponseEmpty, encodeResponseEmpty),
      Request(7, "replace_sm", decodeReplaceSM, encodeReplaceSM),
      Response(7, "replace_sm_resp", decodeResponseEmpty, encodeResponseEmpty),
      Request(8, "cancel_sm", decodeCancelSM, encodeCancelSM),
      Response(8, "cancel_sm_resp", decodeResponseEmpty, encodeResponseEmpty),
      Request(9, "bind_transceiver", decodeBindRequest, encodeBindRequest),
      Response(9, "bind_transceiver_resp", decodeBindResponse, encodeBindResponse),
      Request(11, "outbind", decodeOutbind, encodeOutbind),
      Request(21, "enquire_link", decodeRequestEmpty, encodeEmpty),
      Response(21, "enquire_link_resp", decodeResponseEmpty, encodeResponseEmpty),
      Request(33, "submit_multi", decodeSubmitMulti, encodeSubmitMulti),
      Response(33, "submit_multi_resp", decodeSubmitMultiResp, encodeSubmitMultiResp),
      Request(258, "alert_notification", decodeAlertNotification, encodeAlertNotification),
      Request(259, "data_sm", decodeDataSM, encodeDataSM),
      Response(259, "data_sm_resp", decodeDataSMResp, encodeDataSMResp)>>)

registerSMPP50Commands(b) == FoldLeft(RegisterCommand, b,
    <<Request(273, "broadcast_sm", decodeBroadcastSM, encodeBroadcastSM),
      Response(273, "broadcast_sm_resp", decodeBroadcastSMResp, encodeBroadcastSMResp),
      Request(274, "query_broadcast_sm", decodeQueryBroadcastSM, encodeQueryBroadcastSM),
      Response(274, "query_broadcast_sm_resp", decodeQueryBroadcastSMResp, encodeQueryBroadcastSMResp),
      Request(275, "cancel_broadcast_sm", decodeCancelBroadcastSM, encodeCancelBroadcastSM),
      Response(275, "cancel_broadcast_sm_resp", decodeResponseEmpty, encodeResponseEmpty)>>)

NewSMPP34RegistryBuilder(mode) == registerSMPP34Commands(NewRegistryBuilder(mode))
NewSMPP50RegistryBuilder(mode) == registerSMPP50Commands(NewSMPP34RegistryBuilder(mode))

Unresolved == [name |-> "", decode |-> NoCodec, encode |-> NoCodec]

\* The definition to use, and whether a strict registry refuses the command.
ResolveCommand(registry, id) ==
    IF id \in DOMAIN registry.commands THEN [def |-> registry.commands[id], refused |-> FALSE]
    ELSE [def |-> Unresolved, refused |-> registry.mode = "strict"]

(***************************************************************************)
(* Bodies, through the recover of decodeBody and encodeBody.               *)
(***************************************************************************)
Decoded(type, val) == [err |-> "", body |-> [type |-> type, val |-> val]]
DecodeError(kind) == [err |-> kind, body |-> EmptyBody]

\* The zero value of a body type, from the fields its decoder fills.
zeroBody(d) ==
    LET named == SelectSeq(d.fields, LAMBDA f : "name" \in DOMAIN f)
        zero(f) == IF f.do = "uint8" THEN 0 ELSE <<>>
    IN  [n \in {named[i].name : i \in DOMAIN named} |->
            zero(named[CHOOSE i \in DOMAIN named : named[i].name = n])]

decodeErrorResponseOptional(d, body) ==
    IF body = <<>> THEN Decoded(d.type, zeroBody(d))
    ELSE LET scan == ScanTLVs(body)
         IN  IF scan.err # "" THEN DecodeError(scan.err)
             ELSE Decoded("OptionalResponse", "Optional" :> scan.val)

decodeBody(d, status, body) ==
    LET all == decodeFields(d.fields, body)
        typed == IF all.err # "" THEN DecodeError(all.err) ELSE Decoded(d.type, all.val)
    IN  CASE d.type = "panics" -> DecodeError("semantic")
          [] d.status = "request" -> IF status # StatusOK THEN DecodeError("semantic") ELSE typed
          [] d.status = "any" ->
                CASE body = <<>> -> Decoded("EmptyBody", <<>>)
                  [] all.err # "" -> DecodeError(all.err)
                  [] OTHER -> Decoded("OptionalResponse", all.val)
          [] status # StatusOK -> decodeErrorResponseOptional(d, body)
          [] d.status = "lenient" /\ body = <<>> -> Decoded(d.type, zeroBody(d))
          [] OTHER -> typed

encodeBody(e, body) ==
    CASE e.type = "panics" -> Refused(Written)
      [] body.type = "EmptyBody" /\ e.empty = "nothing" -> Written
      [] body.type = "EmptyBody" /\ e.empty = "zero" -> encodeFields(e.fields, zeroBody(e))
      [] body.type = "OptionalResponse" /\ e.tlvs -> appendOptional(Written, body.val["Optional"])
      [] body.type = e.type /\ body.type # "EmptyBody" -> encodeFields(e.fields, body.val)
      [] OTHER -> Refused(Written)

optionalParametersOf(body) == IF "Optional" \in DOMAIN body.val THEN body.val["Optional"] ELSE <<>>

\* Mutant: an error response is written with its mandatory fields.
MutAppendErrorResponseBody(e, body) == encodeBody(e, body)

appendErrorResponseBody(e, body) ==
    LET checked == encodeBody(e, body)
    IN  IF checked.ok THEN appendOptional(Written, optionalParametersOf(body)) ELSE checked

(***************************************************************************)
(* Whole PDUs.  A header is [id, status, seq]: command_length is computed  *)
(* by EncodePDU and compared with the frame by DecodePDU.                  *)
(***************************************************************************)
EncodeHeader(h, length) == Uint32(length) \o h.id \o h.status \o h.seq

DecodeHeader(frame) ==
    [id |-> SubSeq(frame, 5, 8), status |-> SubSeq(frame, 9, 12), seq |-> SubSeq(frame, 13, 16)]

commandLength(frame) == Uint16At(frame, 3)

\* EncodePDU appends to dst, or returns it as it was.
EncodePDU(dst, h, body, registry) ==
    LET found == ResolveCommand(registry, h.id)
        e == found.def.encode
        w == CASE found.refused -> Refused(Written)
               [] e = NoCodec -> IF body.type = "RawBody" THEN Wrote(Written, body.val["Octets"])
                                 ELSE Refused(Written)
               [] IsResponse(h.id) /\ h.status # StatusOK -> appendErrorResponseBody(e, body)
               [] OTHER -> encodeBody(e, body)
    IN  IF w.ok THEN [ok |-> TRUE, out |-> dst \o EncodeHeader(h, HeaderSize + Len(w.out)) \o w.out]
        ELSE [ok |-> FALSE, out |-> dst]

DecodePDU(frame, registry) ==
    LET h == DecodeHeader(frame)
        body == SubSeq(frame, HeaderSize + 1, Len(frame))
        found == ResolveCommand(registry, h.id)
        d == found.def.decode
    IN  CASE Len(frame) < HeaderSize \/ commandLength(frame) < HeaderSize -> DecodeError("fatal")
          [] Len(frame) < commandLength(frame) -> DecodeError("fatal")
          [] Len(frame) > commandLength(frame) -> DecodeError("semantic")
          [] found.refused -> DecodeError("unknown")
          [] d = NoCodec -> [err |-> "", body |-> RawBody(body)]
          [] OTHER -> decodeBody(d, h.status, body)

(***************************************************************************)
(* Size hints: per command, a constant and the fields whose length counts. *)
(***************************************************************************)
SizeOf(type, fixed, strings, tlvs) == [type |-> type, fixed |-> fixed, strings |-> strings, tlvs |-> tlvs]

submitSMBodySize == <<"ServiceType", "SourceAddr", "DestinationAddr", "ScheduleDeliveryTime",
                      "ValidityPeriod", "ShortMessage">>
bindRequestBodySize == <<"SystemID", "Password", "SystemType", "AddressRange">>
dataSMBodySize == <<"ServiceType", "SourceAddr", "DestinationAddr">>
broadcastSMBodySize == <<"ServiceType", "SourceAddr", "MessageID", "ScheduleDeliveryTime", "ValidityPeriod">>
queryBroadcastSMBodySize == <<"MessageID", "SourceAddr">>
cancelBroadcastSMBodySize == <<"ServiceType", "MessageID", "SourceAddr">>

\* One row per case of encodedBodySizeHint.
sizeHints34 ==
    [submit_sm |-> SizeOf("SubmitSM", 17, submitSMBodySize, TRUE),
     deliver_sm |-> SizeOf("DeliverSM", 17, submitSMBodySize, TRUE),
     submit_sm_resp |-> SizeOf("SubmitSMResp", 1, <<"MessageID">>, TRUE),
     deliver_sm_resp |-> SizeOf("DeliverSMResp", 1, <<"MessageID">>, TRUE),
     bind_receiver |-> SizeOf("BindRequest", 7, bindRequestBodySize, FALSE),
     bind_transmitter |-> SizeOf("BindRequest", 7, bindRequestBodySize, FALSE),
     bind_transceiver |-> SizeOf("BindRequest", 7, bindRequestBodySize, FALSE),
     bind_receiver_resp |-> SizeOf("BindResponse", 1, <<"SystemID">>, TRUE),
     bind_transmitter_resp |-> SizeOf("BindResponse", 1, <<"SystemID">>, TRUE),
     bind_transceiver_resp |-> SizeOf("BindResponse", 1, <<"SystemID">>, TRUE),
     data_sm |-> SizeOf("DataSM", 10, dataSMBodySize, TRUE),
     data_sm_resp |-> SizeOf("DataSMResp", 1, <<"MessageID">>, TRUE)]

sizeHints50 ==
    [broadcast_sm |-> SizeOf("BroadcastSM", 11, broadcastSMBodySize, TRUE),
     broadcast_sm_resp |-> SizeOf("BroadcastSMResp", 1, <<"MessageID">>, TRUE),
     query_broadcast_sm |-> SizeOf("QueryBroadcastSM", 4, queryBroadcastSMBodySize, TRUE),
     query_broadcast_sm_resp |-> SizeOf("QueryBroadcastSMResp", 1, <<"MessageID">>, TRUE),
     cancel_broadcast_sm |-> SizeOf("CancelBroadcastSM", 5, cancelBroadcastSMBodySize, TRUE)]

sizeHints == sizeHints34 @@ sizeHints50

optionalParametersSize(tlvs) == FoldLeft(LAMBDA n, tlv : n + TLVHeaderSize + Len(tlv.value), 0, tlvs)

encodedBodySize(row, v) ==
    row.fixed + FoldLeft(LAMBDA n, name : n + Len(v[name]), 0, row.strings)
              + (IF row.tlvs THEN optionalParametersSize(v["Optional"]) ELSE 0)

\* The hint for a whole frame, or 0 where there is none.
EncodedPDUSizeHint(name, body) ==
    LET row == sizeHints[name]
        shorthand == row.fixed = 1   \* the response cases
    IN  CASE name \notin DOMAIN sizeHints -> 0
          [] body.type = row.type -> HeaderSize + encodedBodySize(row, body.val)
          [] body.type = "EmptyBody" /\ shorthand ->
                HeaderSize + (IF name = "deliver_sm_resp" THEN 1 ELSE 0)
          [] body.type = "OptionalResponse" /\ shorthand ->
                HeaderSize + optionalParametersSize(body.val["Optional"])
          [] OTHER -> 0
=============================================================================
