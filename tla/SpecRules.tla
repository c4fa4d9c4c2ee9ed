------------------------------ MODULE SpecRules ------------------------------
(***************************************************************************)
(* What validateSpec (devtools/generators/src/validator.ts) accepts of the *)
(* loaded registry, and the map from high bytes to domains that it and the *)
(* builder use (domainRegistry.ts).                                        *)
(*                                                                         *)
(* A specification is a record of sequences, in the order of the files. An *)
(* identifier is the integer that parseInt made of its text, of any size.  *)
(* A name is the sequence of its parts between the dots; the empty name,   *)
(* as in `name: ""`, is <<>>. None is a property the entry does not have.  *)
(*                                                                         *)
(* The error codes and the order in which two faults are reported are left *)
(* out: any fault refuses the specification.                               *)
(***************************************************************************)
EXTENDS Integers, Sequences, FiniteSets, SequencesExt

CONSTANTS
  None,
  IntSize  \* how many values the operand of >> has: 2^32

ASSUME IntSizeAssumption == IntSize \in Nat /\ IntSize % 131072 = 0 /\ IntSize > 0

(* id >> 8 first cuts the number to a signed integer of IntSize values.    *)
HighByte(id) ==
  LET low == id % IntSize
  IN (IF 2 * low < IntSize THEN low ELSE low - IntSize) \div 256

Names(items) == {items[i].name : i \in DOMAIN items}

(* isRegistryHighByte: common, vendor and legacy bytes belong to nobody.   *)
IsRegistryHighByte(b) == b > 0 /\ b < 112

VendorBytes == 112 .. 126
LegacyByte == 127

-----------------------------------------------------------------------------
(* The map from high bytes to domains, as a set of pairs. addDomain throws *)
(* when it meets a second domain for a byte; a domain's name is not empty. *)

DomainPairs(items) ==
  {<<HighByte(i.id), i.domain>> : i \in {j \in ToSet(items) : IsRegistryHighByte(HighByte(j.id))}}

Conflicts(pairs) == \E p, q \in pairs : p[1] = q[1] /\ p[2] # q[2]

HasDomain(pairs, b) == \E p \in pairs : p[1] = b
DomainOf(pairs, b) == (CHOOSE p \in pairs : p[1] = b)[2]

DeclaredDomains(spec) == {<<r.highByte, r.domain>> : r \in ToSet(spec.domains)}

(* The declared registry wins as a whole; capabilities never take part.    *)
SourceDomains(spec) ==
  IF spec.domains # <<>> THEN DeclaredDomains(spec)
  ELSE DomainPairs(spec.methods) \cup DomainPairs(spec.events) \cup DomainPairs(spec.errors)

SourceDomainsAccepted(spec) ==
  /\ \A r \in ToSet(spec.domains) : r.highByte \in 0 .. 255
  /\ ~Conflicts(SourceDomains(spec))

-----------------------------------------------------------------------------
(* Uniqueness. The loops keep the name last seen with a key, and take an   *)
(* empty name, or one that is missing, for nothing seen.                   *)

Repeats(items, keys) ==
  \E i, j \in DOMAIN items :
    /\ i < j
    /\ keys[i] = keys[j]
    /\ items[i].name \notin {<<>>, None}
    /\ \A k \in (i + 1) .. (j - 1) : keys[k] # keys[j]

Column(items, property) == [i \in DOMAIN items |-> items[i][property]]

UniqueIds(items) == ~Repeats(items, Column(items, "id"))

UniqueNames(items) == \A i, j \in DOMAIN items : items[i].name = items[j].name => i = j

(* Bit offsets are 0, 1, 2, ... within a domain: with a bit, all below it.  *)
Bits(items, domain) == {items[i].bit : i \in {j \in DOMAIN items : items[j].domain = domain}}

BitsContiguous(items) ==
  \A i \in DOMAIN items : 0 .. items[i].bit \subseteq Bits(items, items[i].domain)

DomainBits(items) ==
  /\ \A i \in DOMAIN items : items[i].bit >= 0
  /\ ~Repeats(items, [i \in DOMAIN items |-> <<items[i].domain, items[i].bit>>])
  /\ BitsContiguous(items)

-----------------------------------------------------------------------------
(* Ranges and references.                                                  *)

InItsRange(item, zeroByteDomains, domains) ==
  LET b == HighByte(item.id)
  IN IF HasDomain(domains, b) THEN item.domain = DomainOf(domains, b)
     ELSE \/ b = 0 /\ item.domain \in zeroByteDomains
          \/ b \in VendorBytes /\ item.domain = "vendor"
          \/ b = LegacyByte /\ item.domain = "legacy"

InRanges(items, zeroByteDomains, domains) ==
  \A i \in DOMAIN items : InItsRange(items[i], zeroByteDomains, domains)

Builtins ==
  {"bool", "uint8", "uint16", "uint32", "uint64", "int8", "int16", "int32", "int64",
   "number", "string", "bytes", "enum", "bitmap", "array"}

KnownSchema(name, schemas) == name = None \/ name \in schemas
KnownItemType(name, schemas) == name = None \/ name \in Builtins \cup schemas

SchemaFieldsUnique(schema) ==
  UniqueIds(schema.fields) /\ UniqueNames(schema.fields)

FieldKnown(field, schemas) ==
  /\ KnownSchema(field.schema, schemas)
  /\ KnownSchema(field.itemSchema, schemas)
  /\ KnownItemType(field.itemType, schemas)
  /\ field.type = "array" =>
       field.schema # None \/ field.itemType # None \/ field.itemSchema # None

SchemasKnown(spec) ==
  LET schemas == Names(spec.schemas)
  IN /\ \A m \in ToSet(spec.methods) :
          KnownSchema(m.request, schemas) /\ KnownSchema(m.response, schemas)
     /\ \A e \in ToSet(spec.events) : KnownSchema(e.payload, schemas)
     /\ \A c \in ToSet(spec.capabilities) : KnownSchema(c.schema, schemas)
     /\ \A s \in ToSet(spec.schemas) : \A f \in ToSet(s.fields) : FieldKnown(f, schemas)

Reserved(items) == {i.name : i \in {j \in ToSet(items) : j.status = "reserved"}}

(* A reference to something reserved is refused, one to something unknown  *)
(* is not looked at here.                                                  *)
NoReservedButEvents(spec) ==
  \A m \in ToSet(spec.methods) :
    (m.capabilities \cap Reserved(spec.capabilities)) \cup (m.errors \cap Reserved(spec.errors)) = {}

NoReservedReferences(spec) ==
  \A m \in ToSet(spec.methods) :
    /\ m.capabilities \cap Reserved(spec.capabilities) = {}
    /\ m.events \cap Reserved(spec.events) = {}
    /\ m.errors \cap Reserved(spec.errors) = {}

(* The names the minimal profile asks for are there.                       *)
MvpItems(spec) ==
  /\ spec.mvp.methods \subseteq Names(spec.methods)
  /\ spec.mvp.events \subseteq Names(spec.events)
  /\ spec.mvp.errors \subseteq Names(spec.errors)
  /\ spec.mvp.capabilities \subseteq Names(spec.capabilities)

LegacyMappings(spec) ==
  /\ ~Repeats(spec.legacy, [i \in DOMAIN spec.legacy |->
                              <<spec.legacy[i].protocol, spec.legacy[i].command>>])
  /\ \A l \in ToSet(spec.legacy) :
       /\ \E m \in ToSet(spec.methods) : m.id = l.method
       /\ l.statuses \subseteq Names(spec.errors)

-----------------------------------------------------------------------------
ValidSpec(spec) ==
  LET domains == SourceDomains(spec)
  IN /\ SourceDomainsAccepted(spec)
     /\ UniqueIds(spec.methods) /\ UniqueNames(spec.methods)
     /\ UniqueIds(spec.events) /\ UniqueNames(spec.events)
     /\ InRanges(spec.methods, {}, domains) /\ InRanges(spec.events, {}, domains)
     /\ DomainBits(spec.methods) /\ DomainBits(spec.events)
     /\ UniqueIds(spec.errors) /\ UniqueNames(spec.errors)
     /\ UniqueIds(spec.capabilities) /\ UniqueNames(spec.capabilities)
     /\ InRanges(spec.errors, {"common", "frame", "control", "rpc"}, domains)
     /\ InRanges(spec.capabilities, {"protocol", "common", "reserved"}, domains)
     /\ UniqueNames(spec.schemas)
     /\ \A s \in ToSet(spec.schemas) : SchemaFieldsUnique(s)
     /\ SchemasKnown(spec)
     /\ NoReservedReferences(spec)
     /\ MvpItems(spec)
     /\ LegacyMappings(spec)
==============================================================================
