---------------------------- MODULE MCWirePath ----------------------------
(***************************************************************************)
(* Scripts for WirePath: every command with its fields varied one at a     *)
(* time, PDUs between sessions with different registries, bodies cut or    *)
(* extended by another implementation, and a script with every fault.      *)
(***************************************************************************)
EXTENDS WirePath

CONSTANTS s1, s2

Vendor == Request(1024, "vendor", Panics, Panics)
VendorRaw == Request(1025, "vendor_raw", NoCodec, NoCodec)
Compatible == Freeze(RegisterCommand(RegisterCommand(NewSMPP50RegistryBuilder("compatible"), Vendor), VendorRaw))
Strict == Freeze(NewSMPP50RegistryBuilder("strict"))
Compatible34 == Freeze(NewSMPP34RegistryBuilder("compatible"))
Strict34 == Freeze(NewSMPP34RegistryBuilder("strict"))

MCRegistries == [compatible |-> Compatible, strict |-> Strict, compatible34 |-> Compatible34, strict34 |-> Strict34]

Failure == <<0, 0, 0, 8>>
Str(n) == [i \in 1 .. n |-> 65]
Many(n, entry) == [i \in 1 .. n |-> entry]
Tlv(tag, value) == [tag |-> tag, value |-> value]
TlvLists == {<<Tlv(5122, <<7>>)>>, <<Tlv(5122, <<>>), Tlv(5122, <<0, 1>>)>>, <<Tlv(TLVTagMessagePayload, <<1>>)>>,
             <<Tlv(TLVTagMessagePayload, <<>>)>>, <<Tlv(TLVTagSCInterfaceVersion, <<52>>)>>,
             <<Tlv(TLVTagSCInterfaceVersion, <<5, 2>>)>>}

Sme(addr) == ("Flag" :> 1) @@ ("TON" :> 1) @@ ("NPI" :> 2) @@ ("Address" :> addr)
List(name) == ("Flag" :> 2) @@ ("Address" :> name)
Failing(addr) == ("DestAddrTON" :> 1) @@ ("DestAddrNPI" :> 2) @@ ("DestinationAddr" :> addr)
                    @@ ("ErrorStatusCode" :> <<0, 0, 1, 2>>)

\* A plain value for each field, and the values it is varied over.
Plain(f) ==
    CASE f.do = "cstring" -> Str(1)
      [] f.do = "uint8" -> 3
      [] f.do = "destinations" -> <<Sme(Str(1))>>
      [] OTHER -> <<>>

Varied(f) ==
    CASE f.do = "cstring" -> {<<>>, Str(f.max - 1), Str(f.max), <<65, 0>>}
      [] f.do = "uint8" -> {0, 255}
      [] f.do = "message" -> {Str(1), <<0, 0>>, Str(254), Str(255)}
      [] f.do = "destinations" -> {<<>>, <<List(Str(20)), Sme(<<>>)>>, <<List(Str(21))>>, <<[Sme(Str(1)) EXCEPT !["Flag"] = 3]>>,
                                   Many(254, List(<<>>)), Many(255, List(<<>>))}
      [] f.do = "unsuccessful" -> {<<Failing(Str(1)), Failing(Str(20))>>, <<Failing(Str(21))>>,
                                   Many(255, Failing(<<>>)), Many(256, Failing(<<>>))}
      [] OTHER -> TlvLists

Named(e) == {f \in Range(e.fields) : "name" \in DOMAIN f}
PlainValue(e) == [n \in {f.name : f \in Named(e)} |-> Plain(CHOOSE f \in Named(e) : f.name = n)]
Typed(e) == {[type |-> e.type, val |-> PlainValue(e)]}
                \cup {[type |-> e.type, val |-> [PlainValue(e) EXCEPT ![f.name] = v]] : <<f, v>> \in
                        UNION {{f} \X Varied(f) : f \in Named(e)}}
\* Both a message and a payload.
Both(e) == IF {"ShortMessage", "Optional"} \subseteq DOMAIN PlainValue(e)
           THEN {[type |-> e.type, val |-> [PlainValue(e) EXCEPT !["ShortMessage"] = Str(1), !["Optional"] = t]] : t \in TlvLists}
           ELSE {}

Bodies(def) ==
    LET e == def.encode
        typed == IF e.fields = <<>> THEN {} ELSE Typed(e) \cup Both(e)
    IN  typed \cup {EmptyBody, OptionalResponse(<<>>)} \cup {OptionalResponse(t) : t \in TlvLists}

OneWay == {<<0, 0, 0, 11>>, <<0, 0, 1, 2>>}
KindOf(id) == IF IsResponse(id) THEN "response" ELSE IF id \in OneWay THEN "oneway" ELSE "request"

Send(n, id, status, body) ==
    [h |-> [id |-> id, status |-> status, seq |-> <<0, 0, 0, n>>], body |-> body, kind |-> KindOf(id)]

Statuses(id) == IF IsResponse(id) THEN {StatusOK, Failure} ELSE {StatusOK}

Standard == {Compatible.commands[id] : id \in DOMAIN Compatible.commands} \ {Vendor, VendorRaw}

Samples == UNION {{Send(1, def.id, status, body) : status \in Statuses(def.id), body \in Bodies(def)} : def \in Standard}

PlainBody(def) == IF def.encode.fields = <<>> THEN EmptyBody
                  ELSE [type |-> def.encode.type, val |-> PlainValue(def.encode)]
Plains == {Send(1, def.id, StatusOK, PlainBody(def)) : def \in Standard}
Odd == {Send(1, <<0, 0, 4, n>>, StatusOK, body) : n \in {0, 1, 2}, body \in {EmptyBody, RawBody(<<1, 0>>)}}

Reply == Send(2, <<128, 0, 0, 4>>, StatusOK,
              [type |-> "SubmitSMResp", val |-> ("MessageID" :> <<66, 67>>) @@ ("Optional" :> <<Tlv(5122, <<9, 9>>)>>)])
Submit(n, text) == Send(n, <<0, 0, 0, 4>>, StatusOK,
              [type |-> "SubmitSM", val |-> [PlainValue(encodeSubmitSM) EXCEPT !["ShortMessage"] = text]])
Alert == Send(5, <<0, 0, 1, 2>>, StatusOK, [type |-> "AlertNotification", val |-> PlainValue(encodeAlertNotification)])

Script(calls1, calls2, from, to, foreign, faults) ==
    [calls |-> (s1 :> calls1) @@ (s2 :> calls2), local |-> from, remote |-> to,
     foreign |-> foreign, faults |-> faults]

\* Bodies of another implementation: a good one cut anywhere or extended, and short ones.
Carried(def) ==
    LET good == EncodePDU(<<>>, [id |-> def.id, status |-> StatusOK, seq |-> <<0, 0, 0, 1>>], PlainBody(def), Compatible).out
        body == SubSeq(good, HeaderSize + 1, Len(good)) \o <<20, 2, 0, 1, 7>>
    IN  {SubSeq(body, 1, n) : n \in 0 .. Len(body)} \cup {body \o <<0>>, body \o <<20, 2, 0, 0>>}
            \cup UNION {[1 .. n -> {0, 1, 2}] : n \in 0 .. 3}

ForeignFrames ==
    UNION {{EncodeHeader([id |-> def.id, status |-> status, seq |-> <<255, 0, 0, 1>>], HeaderSize + Len(body)) \o body :
                status \in {StatusOK, Failure}, body \in Carried(def)} : def \in Standard}

\* A response is followed by another one that reuses the buffers it travelled in.
Follow(p) == IF IsResponse(p.h.id) THEN <<Reply>> ELSE <<>>

MCScripts ==
    {Script(<<p>>, Follow(p), "compatible", "compatible", <<>>, FALSE) : p \in Samples \cup Odd}
        \cup {Script(<<p>>, <<Reply>>, "compatible", remoteName, <<>>, FALSE) :
                 p \in Plains \cup Odd, remoteName \in {"strict", "compatible34", "strict34"}}
        \cup {Script(<<p>>, <<Reply>>, "strict34", "compatible", <<>>, FALSE) : p \in Plains}
        \cup {Script(<<>>, <<>>, "compatible", "compatible", frame, FALSE) : frame \in ForeignFrames}
        \cup {Script(<<Submit(1, Str(40)), Submit(3, Str(255))>>, <<Reply, Alert>>, "compatible", "compatible", <<>>, TRUE)}
=============================================================================
