----------------------------- MODULE ProtocolRules -----------------------------
(***************************************************************************)
(* From an accepted registry to the Protocol IR: what the builder makes of *)
(* it (protocolBuilder.ts, read back by protocolLoader.ts), what the IR    *)
(* checks accept (protocolValidator.ts) and what the documents must say    *)
(* (protocolDocsValidator.ts).                                             *)
(*                                                                         *)
(* The IR is a record like the registry. Lists that are only asked whether *)
(* they have a member are sets. Versions, examples, severities, layouts    *)
(* and the texts of descriptions are left out: no check reads them.        *)
(***************************************************************************)
EXTENDS SpecRules

Or(value, default) == IF value = None THEN default ELSE value

-----------------------------------------------------------------------------
(* The builder.                                                            *)

ProtocolStatus(status) == IF status = "mvp" THEN "stable" ELSE status

EmptySchemaNames(schemas) == {s.name : s \in {t \in ToSet(schemas) : t.fields = <<>>}}

(* No schema, or one without fields, is the schema Empty.                  *)
SchemaRefAsNamed(name, empty) == IF name = None THEN "Empty" ELSE name

SchemaRef(name, empty) == IF name \in empty \cup {None} THEN "Empty" ELSE name

(* array: is only written for arrays and repeated fields, and falls back   *)
(* from the item type to the item schema to the schema.                    *)
BuildField(field) ==
  LET isArray == field.type = "array" \/ field.repeated
      itemSchema == Or(field.itemSchema, field.schema)
  IN [id |-> field.id, name |-> field.name, type |-> field.type, schema |-> field.schema,
      itemType |-> IF isArray THEN Or(field.itemType, itemSchema) ELSE None,
      itemSchema |-> IF isArray THEN itemSchema ELSE None,
      derivedFrom |-> field.derivedFrom]

(* An object by the names of the schemas: Empty is there from the start,   *)
(* schemas without fields are skipped, and of several with one name the    *)
(* last stays.                                                             *)
BuildSchemas(schemas) ==
  LET filled == {i \in DOMAIN schemas : schemas[i].fields # <<>>}
      Latest(name) == CHOOSE i \in filled :
                        /\ schemas[i].name = name
                        /\ \A j \in filled : schemas[j].name = name => j <= i
  IN [name \in {"Empty"} \cup {schemas[i].name : i \in filled} |->
        IF \E i \in filled : schemas[i].name = name
        THEN [name |-> name, kind |-> schemas[Latest(name)].kind,
              fields |-> [i \in DOMAIN schemas[Latest(name)].fields |->
                            BuildField(schemas[Latest(name)].fields[i])]]
        ELSE [name |-> name, kind |-> "object", fields |-> <<>>]]

MethodToProtocol(method, empty) ==
  [id |-> method.id, name |-> method.name, domain |-> method.domain, bit |-> method.bit,
   status |-> ProtocolStatus(method.status), described |-> method.described,
   request |-> SchemaRef(method.request, empty), response |-> SchemaRef(method.response, empty),
   events |-> method.events, errors |-> method.errors, capabilities |-> method.capabilities]

EventToProtocol(event, empty) ==
  [id |-> event.id, name |-> event.name, domain |-> event.domain, bit |-> event.bit,
   status |-> ProtocolStatus(event.status), payload |-> SchemaRef(event.payload, empty),
   capabilities |-> event.capabilities]

(* A loaded error always has a domain, so no category is made up from the  *)
(* code.                                                                   *)
ErrorToProtocol(error) ==
  [name |-> error.name, id |-> error.id, status |-> ProtocolStatus(error.status),
   category |-> Or(error.category, error.domain)]

(* A capability's schema keeps its name, also when the schema is dropped.  *)
CapabilityToProtocol(capability) ==
  [id |-> capability.id, name |-> capability.name, domain |-> capability.domain,
   status |-> ProtocolStatus(capability.status), schema |-> capability.schema]

DefaultProfiles(mvp) ==
  LET profile == [name |-> "AXTP-MVP", methods |-> mvp.methods, events |-> mvp.events,
                  errors |-> mvp.errors, types |-> {},
                  transports |-> {"AXTP-USB-HID", "AXTP-TCP", "AXTP-WS-JSON",
                                  "AXTP-WS-CLOUD-REVERSE"},
                  frameProfile |-> None, frameProfiles |-> {"STANDARD_FRAME"}, keys |-> {}]
  IN << profile,
        [profile EXCEPT !.name = "AXTP-MVP-HID", !.transports = {"AXTP-USB-HID"},
                        !.frameProfile = "STANDARD_FRAME", !.frameProfiles = {}] >>

(* The loader refuses a definition in which one of these is no object.     *)
Sections == {"protocol", "overview", "architecture", "wire", "control", "stream",
             "compatibility"}

Buildable(spec) ==
  /\ SourceDomainsAccepted(spec)
  /\ \A s \in Sections : spec.meta[s] # None
  /\ spec.meta["stream"].header # None

Build(spec) ==
  LET empty == EmptySchemaNames(spec.schemas)
  IN [wire |-> spec.meta["wire"], control |-> spec.meta["control"],
      header |-> spec.meta["stream"].header,
      frameProfiles |-> spec.meta["frameProfiles"], transports |-> spec.meta["transports"],
      keys |-> spec.meta["keys"],
      schemas |-> BuildSchemas(spec.schemas),
      methods |-> [i \in DOMAIN spec.methods |-> MethodToProtocol(spec.methods[i], empty)],
      events |-> [i \in DOMAIN spec.events |-> EventToProtocol(spec.events[i], empty)],
      errors |-> [i \in DOMAIN spec.errors |-> ErrorToProtocol(spec.errors[i])],
      capabilities |-> [i \in DOMAIN spec.capabilities |->
                          CapabilityToProtocol(spec.capabilities[i])],
      profiles |-> DefaultProfiles(spec.mvp) \o spec.profiles]

-----------------------------------------------------------------------------
(* The checks of the IR: identifiers.                                      *)

(* Methods and events say whose a byte is; an error only says so for bytes *)
(* that are still free, and the first error with the byte decides.         *)
ProtocolDomains(model) ==
  LET taken == DomainPairs(model.methods) \cup DomainPairs(model.events)
      First(i) == \A j \in 1 .. (i - 1) :
                    HighByte(model.errors[j].id) # HighByte(model.errors[i].id)
  IN taken \cup {<<HighByte(model.errors[i].id), model.errors[i].category>> :
                   i \in {j \in DOMAIN model.errors :
                            /\ IsRegistryHighByte(HighByte(model.errors[j].id))
                            /\ ~HasDomain(taken, HighByte(model.errors[j].id))
                            /\ First(j)}}

(* assertUnique by name and by id. An empty name is once more no name.     *)
UniqueInProtocol(items) ==
  ~Repeats(items, Column(items, "id")) /\ ~Repeats(items, Column(items, "name"))

(* Unlike in the registry, a bit is seen whatever the name.                *)
ProtocolBits(items) ==
  /\ \A i, j \in DOMAIN items :
       items[i].domain = items[j].domain /\ items[i].bit = items[j].bit => i = j
  /\ \A i \in DOMAIN items : items[i].bit >= 0
  /\ BitsContiguous(items)

DomainIdAlignmentOfEvents(model) ==
  \A e \in ToSet(model.events) :
    LET own == {m \in ToSet(model.methods) : m.domain = e.domain}
    IN own = {} \/ \E m \in own : HighByte(e.id) = HighByte(m.id)

DomainIdAlignment(model) ==
  \A m \in ToSet(model.methods) :
    /\ \A n \in ToSet(model.methods) : n.domain = m.domain => HighByte(n.id) = HighByte(m.id)
    /\ \A e \in ToSet(model.events) : e.domain = m.domain => HighByte(e.id) = HighByte(m.id)

AllowedErrorCategories(code, domains) ==
  LET b == HighByte(code)
  IN IF code <= 255 THEN {"common", "frame", "control", "rpc"}
     ELSE IF HasDomain(domains, b) THEN {DomainOf(domains, b)}
     ELSE IF b \in VendorBytes THEN {"vendor"}
     ELSE IF b = LegacyByte THEN {"legacy"}
     ELSE {}

ErrorRanges(model) ==
  \A e \in ToSet(model.errors) :
    e.category \in AllowedErrorCategories(e.id, ProtocolDomains(model))

-----------------------------------------------------------------------------
(* Schemas and references.                                                 *)

SchemaKinds == {"object", "enum", "bitmap", "alias", "bytes"}

ProtocolFieldKnown(field, schemas) ==
  /\ field.id \in 1 .. 255
  /\ field.type \in Builtins \cup schemas
  /\ KnownSchema(field.schema, schemas)
  /\ KnownSchema(field.itemSchema, schemas)
  /\ KnownItemType(field.itemType, schemas)

SchemaDefinitions(schemas) ==
  \A s \in ToSet(schemas) :
    /\ s.kind \in SchemaKinds
    /\ s.kind = "object" =>
         /\ UniqueIds(s.fields)
         /\ \A f \in ToSet(s.fields) : ProtocolFieldKnown(f, Names(schemas))

EmptySchemaUsage(model) ==
  LET bare == {s.name : s \in {t \in ToSet(model.schemas) : t.fields = <<>>}} \ {"Empty"}
  IN /\ \E s \in ToSet(model.schemas) :
          s.name = "Empty" /\ s.kind = "object" /\ s.fields = <<>>
     /\ \A m \in ToSet(model.methods) : m.request \notin bare /\ m.response \notin bare

DomainName(item) == (IF item.name = <<>> THEN "" ELSE item.name[1]) = item.domain

MethodReferences(model) ==
  LET types == Names(model.schemas)
  IN \A m \in ToSet(model.methods) :
       /\ DomainName(m)
       /\ m.described
       /\ m.request \in types /\ m.response \in types
       /\ m.events \subseteq Names(model.events)
       /\ m.errors \subseteq Names(model.errors)
       /\ m.capabilities \subseteq Names(model.capabilities)

EventReferences(model) ==
  \A e \in ToSet(model.events) :
    /\ DomainName(e)
    /\ e.payload \in Names(model.schemas)
    /\ e.capabilities \subseteq Names(model.capabilities)

CapabilityReferences(model) ==
  \A c \in ToSet(model.capabilities) :
    DomainName(c) /\ KnownSchema(c.schema, Names(model.schemas))

(* The method masks, when the capability response is there at all.         *)
MethodMasks(model) ==
  \A s \in ToSet(model.schemas) :
    s.name = "CapabilitySupportedMethodsResponse" =>
      LET masks == {i \in DOMAIN s.fields : s.fields[i].name = <<"methodMasks">>}
      IN masks # {} /\ s.fields[CHOOSE i \in masks : \A j \in masks : i <= j].derivedFrom
                         = "methods[].bitOffset"

-----------------------------------------------------------------------------
(* Wire, control, transports and profiles.                                 *)

(* The names in use that begin with COMPACT_, or contain HID-64.           *)
CompactNames == {"COMPACT_FRAME"}
Hid64Names == {"AXTP-HID-64"}

WireByteOrder(wire) ==
  /\ wire.byteOrder = "big-endian" /\ wire.byteOrderAlias = "network"
  /\ wire.crcByteOrder = "big-endian"
  /\ wire.integersBigEndian

(* The old names (seq, position, ...) are refused as any other field is.   *)
StreamHeader(header) ==
  /\ header.size = 16
  /\ Len(header.fields) = 3
  /\ header.fields[1] = <<"streamId", "uint32">>
  /\ header.fields[2] = <<"seqId", "uint32">>
  /\ header.fields[3] = <<"cursor", "uint64">>

RequiredOpcodes == {"OPEN", "ACCEPT", "HEARTBEAT", "HEARTBEAT_ACK", "CLOSE", "CLOSE_ACK"}
LaterOpcodes == {"READY", "ACK", "NACK"}

Phase1Opcodes(control) ==
  /\ RequiredOpcodes \subseteq control.required
  /\ control.required \cap LaterOpcodes = {}
  /\ LaterOpcodes \subseteq control.optional

ControlOpcodes(control) ==
  /\ Phase1Opcodes(control)
  /\ control.reserved \cap {"ACK", "NACK", "RESUME", "HEARTBEAT", "HEARTBEAT_ACK", "CLOSE",
                            "CLOSE_ACK"} = {}

(* The encodings are a list: one JSON, neither more nor twice.             *)
TransportAccepted(transport) ==
  /\ transport.name \notin Hid64Names
  /\ IF transport.frameProfile = "none"
     THEN /\ transport.control = FALSE /\ transport.stream = FALSE
          /\ transport.encodings = <<"JSON">>
     ELSE /\ transport.frameProfile = "STANDARD_FRAME"
          /\ transport.control = TRUE /\ transport.stream = TRUE
          /\ {"JSON", "CBOR", "MSGPACK", "JSON_BINARY"} \subseteq ToSet(transport.encodings)

TransportPolicy(model) ==
  /\ Names(model.frameProfiles) \cap CompactNames = {}
  /\ \A t \in ToSet(model.transports) : TransportAccepted(t)
  /\ \A p \in ToSet(model.profiles) :
       /\ "AXTP-HID-64" \notin p.transports
       /\ (p.frameProfiles \cup {p.frameProfile}) \cap CompactNames = {}

UsedFrameProfiles(profile, model) ==
  {t.frameProfile : t \in {u \in ToSet(model.transports) : u.name \in profile.transports}}
    \ {"none"}

ProfileReferences(profile, model) ==
  LET used == UsedFrameProfiles(profile, model)
      frames == Names(model.frameProfiles)
  IN /\ profile.methods \subseteq Names(model.methods)
     /\ profile.events \subseteq Names(model.events)
     /\ profile.errors \subseteq Names(model.errors)
     /\ profile.types \subseteq Names(model.schemas)
     /\ profile.transports \subseteq Names(model.transports)
     /\ profile.frameProfile # None =>
          used \subseteq {profile.frameProfile} /\ profile.frameProfile \in frames
     /\ profile.frameProfiles \subseteq frames
     /\ profile.frameProfiles # {} => profile.frameProfiles = used

ForbiddenKeys == {"bitmapId", "requests", "requiredRequests"}

(* The keys found in the profiles, and those found anywhere else.          *)
KeysAllowed(model) ==
  /\ model.keys \cap ForbiddenKeys = {}
  /\ \A p \in ToSet(model.profiles) :
       p.keys \cap (ForbiddenKeys \cup {"requiredCapabilities"}) = {}

-----------------------------------------------------------------------------
ValidProtocol(model) ==
  /\ ~Conflicts(ProtocolDomains(model))
  /\ KeysAllowed(model)
  /\ WireByteOrder(model.wire)
  /\ StreamHeader(model.header)
  /\ ControlOpcodes(model.control)
  /\ UniqueInProtocol(model.methods) /\ UniqueInProtocol(model.events)
  /\ UniqueInProtocol(model.errors) /\ UniqueInProtocol(model.capabilities)
  /\ UniqueNames(model.schemas) /\ UniqueNames(model.transports) /\ UniqueNames(model.profiles)
  /\ ProtocolBits(model.methods) /\ ProtocolBits(model.events)
  /\ DomainIdAlignment(model)
  /\ SchemaDefinitions(model.schemas)
  /\ EmptySchemaUsage(model)
  /\ ErrorRanges(model)
  /\ TransportPolicy(model)
  /\ CapabilityReferences(model) /\ MethodReferences(model) /\ EventReferences(model)
  /\ MethodMasks(model)
  /\ \A t \in ToSet(model.transports) :
       t.frameProfile \in Names(model.frameProfiles) \cup {"none"}
  /\ \A p \in ToSet(model.profiles) : ProfileReferences(p, model)

-----------------------------------------------------------------------------
(* The check of the documents, which has rules of its own for the IR: the  *)
(* stream header, the control opcodes and the method masks once more.      *)

DocsStreamHeader(header) ==
  LET expected == << <<"streamId", "uint32">>, <<"seqId", "uint32">>, <<"cursor", "uint64">> >>
  IN /\ header.size = 16 /\ Len(header.fields) = Len(expected)
     /\ \A i \in 1 .. Len(header.fields) :
          header.fields[i][1] \notin {"seq", "position", "chunkLength", "flags"}
     /\ \A i \in 1 .. Len(expected) : header.fields[i] = expected[i]

(* Mutant: opcodes that come later may be required.                        *)
DocsControlOnceRequired(control) ==
  /\ \A opcode \in {"OPEN", "ACCEPT", "HEARTBEAT", "HEARTBEAT_ACK", "CLOSE", "CLOSE_ACK"} :
       opcode \in control.required
  /\ \A opcode \in {"READY", "ACK", "NACK"} : opcode \in control.optional

DocsControl(control) ==
  /\ \A opcode \in {"OPEN", "ACCEPT", "HEARTBEAT", "HEARTBEAT_ACK", "CLOSE", "CLOSE_ACK"} :
       opcode \in control.required
  /\ \A opcode \in {"READY", "ACK", "NACK"} :
       opcode \notin control.required /\ opcode \in control.optional

DocsMethodMasks(model) ==
  \A s \in ToSet(model.schemas) :
    LET named == {i \in DOMAIN s.fields : s.fields[i].name = <<"methodMasks">>}
        first == CHOOSE i \in named : \A j \in named : i <= j
    IN \/ s.name # "CapabilitySupportedMethodsResponse"
       \/ named # {} /\ s.fields[first].derivedFrom = "methods[].bitOffset"

(* The documents are the set of facts that their texts state.              *)
DocFacts ==
  {"frame byte order", "STREAM header size", "streamId", "seqId", "cursor",
   "stream byte order", "codec byte order", "OPEN/ACCEPT", "HEARTBEAT", "CLOSE",
   "READY optional", "default handshake", "no ACK/NACK"}

DocsAgree(model, docs) ==
  /\ DocFacts \subseteq docs
  /\ model.wire.byteOrder = "big-endian" /\ model.wire.byteOrderAlias = "network"
  /\ DocsStreamHeader(model.header)
  /\ DocsControl(model.control)
  /\ DocsMethodMasks(model)
==============================================================================
