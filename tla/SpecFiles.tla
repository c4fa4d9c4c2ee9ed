------------------------------- MODULE SpecFiles -------------------------------
(***************************************************************************)
(* How the files of a specification become one registry (loader.ts and     *)
(* sourceLoader.ts). The contract has fixed core files and any number of   *)
(* domain files; the two kinds are read by two loaders that differ.        *)
(*                                                                         *)
(* A tree has core, from core files to what they hold; domains, the files  *)
(* below registry/domains in the order of their paths; oldDomains, whether *)
(* the deprecated directory has a file; docs, the facts in the documents.  *)
(* A file holds its entries, or is None (missing) or Broken (no YAML, or   *)
(* not readable). A property that an entry does not have is None, and so   *)
(* is one that should be a number and is not.                              *)
(***************************************************************************)
EXTENDS ProtocolRules

CONSTANT Broken

RequiredFiles ==
  {"config", "version", "payload_type", "control_opcode", "rpc_encoding",
   "rpc_body_encoding", "rpc_op", "error_code", "capability_registry", "mvp_profile",
   "common_fields", "control_schema", "event_schema", "session_schema", "protocol_meta"}

OptionalFiles ==
  {"stream_profile", "domain_registry", "method_registry", "event_registry",
   "legacy_mapping", "device_schema", "capability_schema", "display_schema",
   "firmware_schema", "stream_schema"}

SchemaFiles ==
  <<"common_fields", "control_schema", "device_schema", "capability_schema",
    "display_schema", "firmware_schema", "stream_schema", "event_schema", "session_schema">>

Entries(tree, file) == Or(tree.core[file], <<>>)

(* An entry of a core file that does not say so is minimal (mvp) and its   *)
(* domain becomes the text "undefined"; one of a domain file is a draft of *)
(* the domain that the file, or its directory, is named for.               *)
MapItems(items, status, domain) ==
  [i \in DOMAIN items |-> [items[i] EXCEPT !.status = Or(@, status), !.domain = Or(@, domain)]]

CoreItems(tree, file) == MapItems(Entries(tree, file), "mvp", "undefined")

DefaultDomain(doc) == Or(doc.domain, doc.directory)

DomainItemsOfTheFile(doc, section) ==
  [i \in DOMAIN doc[section] |->
     [MapItems(doc[section], "draft", None)[i] EXCEPT !.domain = DefaultDomain(doc)]]

DomainItems(doc, section) == MapItems(doc[section], "draft", DefaultDomain(doc))

(* Only the loader of the core files drops what an array holds, reads no   *)
(* kind: and takes no fieldId:.                                            *)
MapField(item, id, itemType, itemSchema) ==
  [id |-> id, name |-> item.name, type |-> item.type, schema |-> item.schema,
   itemType |-> itemType, itemSchema |-> itemSchema, repeated |-> item.repeated,
   derivedFrom |-> item.derivedFrom]

CoreField(item) == MapField(item, item.id, None, None)
DomainField(item) == MapField(item, Or(item.id, item.fieldId), item.itemType, item.itemSchema)

CoreSchema(raw) ==
  [name |-> raw.name, kind |-> Or(raw.type, "object"),
   fields |-> [i \in DOMAIN raw.fields |-> CoreField(raw.fields[i])]]

DomainSchema(raw) ==
  [name |-> raw.name, kind |-> Or(raw.type, Or(raw.kind, "object")),
   fields |-> [i \in DOMAIN raw.fields |-> DomainField(raw.fields[i])]]

CoreSchemas(tree) ==
  LET raw == FlattenSeq([i \in DOMAIN SchemaFiles |-> Entries(tree, SchemaFiles[i])])
  IN [i \in DOMAIN raw |-> CoreSchema(raw[i])]

DomainSchemas(doc) == [i \in DOMAIN doc.schemas |-> DomainSchema(doc.schemas[i])]

FromDomain(doc, section) ==
  CASE section = "schemas" -> DomainSchemas(doc)
    [] section \in {"legacy", "profiles"} -> doc[section]
    [] OTHER -> DomainItems(doc, section)

FromDomains(tree, section) ==
  FlattenSeq([i \in DOMAIN tree.domains |-> FromDomain(tree.domains[i], section)])

(* loadSpec, and behind it the entries of the domain files.                *)
Load(tree) ==
  [domains |-> Entries(tree, "domain_registry"),
   methods |-> CoreItems(tree, "method_registry") \o FromDomains(tree, "methods"),
   events |-> CoreItems(tree, "event_registry") \o FromDomains(tree, "events"),
   errors |-> CoreItems(tree, "error_code") \o FromDomains(tree, "errors"),
   capabilities |-> CoreItems(tree, "capability_registry") \o FromDomains(tree, "capabilities"),
   legacy |-> Entries(tree, "legacy_mapping") \o FromDomains(tree, "legacy"),
   schemas |-> CoreSchemas(tree) \o FromDomains(tree, "schemas"),
   profiles |-> FromDomains(tree, "profiles"),
   mvp |-> tree.core["mvp_profile"],
   meta |-> tree.core["protocol_meta"]]

(* normalizeId throws on what is no number.                                *)
AllNumbers(spec) ==
  /\ \A m \in ToSet(spec.methods) \cup ToSet(spec.events) : m.id # None /\ m.bit # None
  /\ \A e \in ToSet(spec.errors) \cup ToSet(spec.capabilities) : e.id # None
  /\ \A l \in ToSet(spec.legacy) : l.command # None /\ l.method # None
  /\ \A s \in ToSet(spec.schemas) : \A f \in ToSet(s.fields) : f.id # None

Loadable(tree) ==
  /\ ~tree.oldDomains
  /\ \A f \in RequiredFiles : tree.core[f] \notin {None, Broken}
  /\ \A f \in OptionalFiles : tree.core[f] # Broken
  /\ Broken \notin ToSet(tree.domains)
  /\ AllNumbers(Load(tree))

-----------------------------------------------------------------------------
(* What the commands let pass: validate, doc, test-vector and              *)
(* generate-registry look at the registry only; generate and               *)
(* validate-sources also build the IR and read the documents.              *)

RegistryAccepted(tree) == Loadable(tree) /\ ValidSpec(Load(tree))

SourcesAccepted(tree) ==
  /\ RegistryAccepted(tree)
  /\ LET spec == Load(tree)
     IN /\ Buildable(spec)
        /\ ValidProtocol(Build(spec))
        /\ DocsAgree(Build(spec), tree.docs)
==============================================================================
