------------------------------ MODULE MCRegistry -------------------------------
EXTENDS ProtocolPages

(* A small contract in the shape of the one in validator.test.ts: two      *)
(* domain files, one core error, every kind of reference once.             *)

Method(id, name, bit, request, response, capabilities, events, errors) ==
  [id |-> id, name |-> name, domain |-> name[1], bit |-> bit, status |-> "stable",
   request |-> request, response |-> response, capabilities |-> capabilities,
   events |-> events, errors |-> errors, described |-> TRUE]

Field(id, name, type) ==
  [id |-> id, fieldId |-> None, name |-> name, type |-> type, schema |-> None,
   itemType |-> None, itemSchema |-> None, repeated |-> FALSE, derivedFrom |-> None]

Schema(name, fields) == [name |-> name, type |-> "object", kind |-> None, fields |-> fields]

Success == <<"SUCCESS">>
Algorithm == <<"audio", "algorithm">>
Changed == <<"audio", "changed">>

SetConfig == Method(2306, <<"audio", "setConfig">>, 0, "SetRequest", "SetResponse",
                    {Algorithm}, {Changed}, {Success})
GetConfig == Method(2305, <<"audio", "getConfig">>, 1, None, "SetResponse", {}, {}, {})
GetInfo == Method(513, <<"device", "getInfo">>, 0, "Nothing", "SetResponse", {}, {}, {Success})

ChangedEvent ==
  [id |-> 2305, name |-> Changed, domain |-> "audio", bit |-> 0, status |-> "stable",
   payload |-> "SetRequest", capabilities |-> {Algorithm}]

Error(id, name, domain) ==
  [id |-> id, name |-> name, domain |-> domain, status |-> "stable", category |-> None]

AlgorithmCapability ==
  [id |-> 2305, name |-> Algorithm, domain |-> "audio", status |-> "stable",
   schema |-> "SetRequest"]

Legacy == [protocol |-> "axdp_hid", command |-> 66, name |-> <<"SetNoiseLevel">>,
           method |-> 2306, statuses |-> {Success}]

Transport(name, frame) ==
  [name |-> name, frameProfile |-> frame, control |-> frame # "none", stream |-> frame # "none",
   encodings |-> IF frame = "none" THEN <<"JSON">> ELSE <<"JSON", "CBOR", "MSGPACK", "JSON_BINARY">>]

Meta ==
  [s \in {"protocol", "overview", "architecture", "wire", "control", "stream",
          "compatibility", "frameProfiles", "transports", "keys"} |->
     CASE s = "wire" -> [byteOrder |-> "big-endian", byteOrderAlias |-> "network",
                         crcByteOrder |-> "big-endian", integersBigEndian |-> TRUE]
       [] s = "control" -> [required |-> RequiredOpcodes, optional |-> LaterOpcodes,
                            reserved |-> {}]
       [] s = "stream" -> [header |-> [size |-> 16, fields |->
                             << <<"streamId", "uint32">>, <<"seqId", "uint32">>,
                                <<"cursor", "uint64">> >>]]
       [] s = "frameProfiles" -> <<[name |-> "STANDARD_FRAME"]>>
       [] s = "transports" -> << Transport("AXTP-USB-HID", "STANDARD_FRAME"),
                                 Transport("AXTP-TCP", "STANDARD_FRAME"),
                                 Transport("AXTP-WS-JSON", "none"),
                                 Transport("AXTP-WS-CLOUD-REVERSE", "none") >>
       [] s = "keys" -> {}
       [] OTHER -> s]

Audio ==
  [domain |-> "audio", directory |-> "audio",
   methods |-> <<SetConfig, GetConfig>>, events |-> <<ChangedEvent>>,
   errors |-> <<Error(2305, <<"AUDIO_BUSY">>, "audio")>>,
   capabilities |-> <<AlgorithmCapability>>,
   schemas |-> << Schema("SetRequest", <<Field(1, <<"level">>, "uint8")>>),
                  Schema("SetResponse", <<Field(1, <<"state">>, "enum"),
                                          Field(2, <<"level">>, "uint8")>>) >>,
   legacy |-> <<Legacy>>, profiles |-> <<>>]

Device ==
  [domain |-> None, directory |-> "device",
   methods |-> <<GetInfo>>, events |-> <<>>, errors |-> <<>>, capabilities |-> <<>>,
   schemas |-> <<Schema("Nothing", <<>>)>>, legacy |-> <<>>, profiles |-> <<>>]

CoreFiles ==
  [f \in RequiredFiles \cup OptionalFiles |->
     CASE f = "protocol_meta" -> Meta
       [] f = "mvp_profile" -> [methods |-> {<<"audio", "setConfig">>}, events |-> {},
                                errors |-> {Success}, capabilities |-> {}]
       [] f = "error_code" -> <<Error(0, Success, "common")>>
       [] f \in {"stream_profile", "device_schema", "domain_registry", "legacy_mapping"} -> None
       [] OTHER -> <<>>]

MCBase == {[core |-> CoreFiles, domains |-> <<Audio, Device>>, oldDomains |-> FALSE,
            docs |-> DocFacts]}

Common == [status |-> {None, "reserved"}, domain |-> {None, "audio", "vendor"}]

(* 2308 + IntSize is cut to 2308, a byte of audio; 28673 is a vendor's.    *)
MCChanges ==
  [methods |-> [id |-> {None, 2306, 2307, 514, 2561, 28673, 2308 + IntSize},
                name |-> {<<>>, <<"audio", "setConfig">>, <<"vendor", "x">>},
                bit |-> {None, 0, 1}, request |-> {"Nothing", "Missing"},
                capabilities |-> {{Algorithm}, {<<"no", "such">>}}] @@ Common,
   events |-> [id |-> {2306, 2561, 514}, bit |-> {1}, payload |-> {None, "Nothing"}] @@ Common,
   errors |-> [id |-> {0, 513, 28673}, category |-> {"audio", "common"}] @@ Common,
   capabilities |-> [id |-> {513, 1}, schema |-> {None, "Nothing"}] @@ Common,
   schemas |-> [name |-> {"Empty", "SetRequest"}, kind |-> {"alias"}, type |-> {None},
                fields |-> { <<>>,
                             <<Field(1, <<>>, "uint8"), Field(1, <<"b">>, "uint8")>>,
                             <<[Field(1, <<"items">>, "array") EXCEPT !.itemType = "SetResponse"]>>,
                             <<[Field(None, <<"a">>, "string") EXCEPT !.fieldId = 1]>>,
                             <<[Field(1, <<"a">>, "Nothing") EXCEPT !.schema = "Nothing"]>> }],
   legacy |-> [name |-> {None}, method |-> {513, 1}, statuses |-> {{<<"NO_SUCH">>}}]]

MCAdditions ==
  [methods |-> {[SetConfig EXCEPT !.name = <<"audio", "duplicate">>],
                Method(2307, <<"audio", "reset">>, 2, "SetRequest", None, {}, {}, {}),
                Method(2561, <<"video", "start">>, 0, None, None, {}, {}, {})},
   events |-> {[ChangedEvent EXCEPT !.id = 2562, !.name = <<"audio", "late">>, !.bit = 1],
               [ChangedEvent EXCEPT !.id = 2561, !.name = <<"video", "e">>, !.domain = "video"]},
   errors |-> {Error(2562, <<"VIDEO">>, "video")},
   capabilities |-> {[AlgorithmCapability EXCEPT !.name = <<"audio", "again">>]},
   schemas |-> {Schema("Empty", <<Field(1, <<"x">>, "bool")>>),
                Schema("CapabilitySupportedMethodsResponse",
                       <<[Field(1, <<"methodMasks">>, "bytes") EXCEPT
                            !.derivedFrom = "methods[].bitOffset"]>>),
                Schema("CapabilitySupportedMethodsResponse",
                       <<Field(1, <<"methodMasks">>, "bytes")>>)},
   legacy |-> {[Legacy EXCEPT !.name = <<"Other">>]}]

MCMetaChanges ==
  [wire |-> {None, [Meta["wire"] EXCEPT !.byteOrder = "little-endian"],
             [Meta["wire"] EXCEPT !.crcByteOrder = "little-endian"]},
   control |-> {[Meta["control"] EXCEPT !.required = @ \cup {"ACK"}],
                [Meta["control"] EXCEPT !.optional = {"READY"}],
                [Meta["control"] EXCEPT !.reserved = {"RESUME"}]},
   stream |-> {[header |-> None],
               [header |-> [size |-> 16, fields |-> << <<"streamId", "uint32">> >>]],
               [header |-> [Meta["stream"].header EXCEPT !.fields[2] = <<"seq", "uint32">>]]},
   transports |-> {<<Transport("AXTP-USB-HID", "COMPACT_FRAME")>>,
                   [Meta["transports"] EXCEPT ![3].stream = TRUE]},
   keys |-> {{"requests"}}]

MCDomainMaps ==
  { <<[highByte |-> 9, domain |-> "audio"], [highByte |-> 10, domain |-> "audio"],
      [highByte |-> 2, domain |-> "device"]>>,
    <<[highByte |-> 9, domain |-> "audio"], [highByte |-> 9, domain |-> "video"]>> }
================================================================================
