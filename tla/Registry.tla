------------------------------- MODULE Registry --------------------------------
(***************************************************************************)
(* People edit the files of a specification, one small change at a time,   *)
(* and run the generator's checks. The state is the tree of files; what    *)
(* the generator makes of it is the functions of SpecFiles, SpecRules and  *)
(* ProtocolRules.                                                          *)
(***************************************************************************)
EXTENDS SpecFiles

CONSTANTS
  Base,        \* the trees to begin with
  Changes,     \* for each kind of entry the values that its properties may get
  Additions,   \* for each kind the entries that may be added
  MetaChanges, \* the values that the sections of protocol_meta may get
  DomainMaps,  \* the contents that domain_registry may get
  MaxEdits

Kinds == {"methods", "events", "errors", "capabilities", "schemas", "legacy"}

(* Where entries of a kind are found among the core files.                 *)
CoreFileOf ==
  [methods |-> "method_registry", events |-> "event_registry", errors |-> "error_code",
   capabilities |-> "capability_registry", schemas |-> "common_fields",
   legacy |-> "legacy_mapping"]

(* The shape of a tree. The core files that hold lists, and the lists of a *)
(* domain file; a YAML list has an entry at each of its places and nowhere *)
(* else.                                                                   *)
ListFiles == {CoreFileOf[k] : k \in Kinds} \cup ToSet(SchemaFiles)

IsList(s) == s \in Seq(ToSet(s))

(* A record, or a map, is what it has at its keys.                         *)
IsMap(r) == r = [k \in DOMAIN r |-> r[k]]

(* An entry of a kind; the loaders read a schema without fields: as one    *)
(* whose fields are the empty list.                                        *)
IsEntry(kind, e) == IsMap(e) /\ (kind = "schemas" => "fields" \in DOMAIN e)

IsListOf(kind, s) == IsList(s) /\ \A e \in ToSet(s) : IsEntry(kind, e)

Listed(t) ==
  /\ IsMap(t) /\ {"core", "domains", "oldDomains", "docs"} \subseteq DOMAIN t
  /\ IsMap(t.core) /\ RequiredFiles \cup OptionalFiles \subseteq DOMAIN t.core
  /\ \A f \in ListFiles : t.core[f] \notin {None, Broken} => IsList(t.core[f])
  /\ \A k \in Kinds :
       t.core[CoreFileOf[k]] \notin {None, Broken} => IsListOf(k, t.core[CoreFileOf[k]])
  /\ IsList(t.domains)
  /\ \A i \in DOMAIN t.domains :
       t.domains[i] # Broken =>
         /\ IsMap(t.domains[i]) /\ Kinds \cup {"profiles"} \subseteq DOMAIN t.domains[i]
         /\ \A k \in Kinds : IsListOf(k, t.domains[i][k])
         /\ IsList(t.domains[i].profiles)

ASSUME BaseAssumption ==
  /\ MaxEdits \in Nat
  /\ \A t \in Base : Listed(t)
  /\ \A k \in Kinds : \A e \in Additions[k] : IsEntry(k, e)

VARIABLES tree, edits

vars == <<tree, edits>>

Init == tree \in Base /\ edits = 0

-----------------------------------------------------------------------------
Core == 0
Places == {Core} \cup DOMAIN tree.domains

Usable(place) == IF place = Core THEN TRUE ELSE tree.domains[place] # Broken

EntriesAt(place, kind) ==
  IF place = Core
  THEN IF tree.core[CoreFileOf[kind]] = Broken THEN <<>> ELSE Entries(tree, CoreFileOf[kind])
  ELSE IF Usable(place) THEN tree.domains[place][kind] ELSE <<>>

With(t, place, kind, entries) ==
  IF place = Core
  THEN [t EXCEPT !.core[CoreFileOf[kind]] = entries]
  ELSE [t EXCEPT !.domains[place][kind] = entries]

EditTo(t) ==
  /\ edits < MaxEdits
  /\ t # tree
  /\ tree' = t
  /\ edits' = edits + 1

Amend(place, kind) ==
  \E i \in DOMAIN EntriesAt(place, kind), f \in DOMAIN Changes[kind] :
    \E v \in Changes[kind][f] :
      EditTo(With(tree, place, kind, [EntriesAt(place, kind) EXCEPT ![i][f] = v]))

Add(place, kind) ==
  /\ Usable(place)
  /\ \E e \in Additions[kind] :
       EditTo(With(tree, place, kind, Append(EntriesAt(place, kind), e)))

Delete(place, kind) ==
  \E i \in DOMAIN EntriesAt(place, kind) :
    EditTo(With(tree, place, kind, RemoveAt(EntriesAt(place, kind), i)))

(* An entry goes to the end of another file.                               *)
MoveEntry(from, to, kind) ==
  /\ from # to /\ Usable(to)
  /\ \E i \in DOMAIN EntriesAt(from, kind) :
       EditTo(With(With(tree, from, kind, RemoveAt(EntriesAt(from, kind), i)), to, kind,
                   Append(EntriesAt(to, kind), EntriesAt(from, kind)[i])))

(* Another name puts a domain file elsewhere in the order.                 *)
RenameFile ==
  \E i \in DOMAIN tree.domains :
    /\ i > 1
    /\ EditTo([tree EXCEPT !.domains[i] = tree.domains[i - 1],
                           !.domains[i - 1] = tree.domains[i]])

Damage ==
  \/ \E f \in RequiredFiles \cup OptionalFiles, v \in {None, Broken} :
       EditTo([tree EXCEPT !.core[f] = v])
  \/ \E i \in DOMAIN tree.domains : EditTo([tree EXCEPT !.domains[i] = Broken])
  \/ EditTo([tree EXCEPT !.oldDomains = TRUE])

AmendMeta ==
  /\ tree.core["protocol_meta"] \notin {None, Broken}
  /\ \E s \in DOMAIN MetaChanges : \E v \in MetaChanges[s] :
       EditTo([tree EXCEPT !.core["protocol_meta"][s] = v])

DeclareDomains == \E d \in DomainMaps : EditTo([tree EXCEPT !.core["domain_registry"] = d])

AmendDocs == \E f \in tree.docs : EditTo([tree EXCEPT !.docs = @ \ {f}])

Next ==
  \/ \E p \in Places, k \in Kinds : Amend(p, k) \/ Add(p, k) \/ Delete(p, k)
  \/ \E p, q \in Places, k \in Kinds : MoveEntry(p, q, k)
  \/ RenameFile
  \/ Damage
  \/ AmendMeta
  \/ DeclareDomains
  \/ AmendDocs

Spec == Init /\ [][Next]_vars

-----------------------------------------------------------------------------
(* However a tree is edited, its lists stay lists.                         *)
TypeOK == edits \in 0 .. MaxEdits /\ Listed(tree)

AllNamed(spec) ==
  /\ \A i \in ToSet(spec.methods) \cup ToSet(spec.events) \cup ToSet(spec.errors)
                \cup ToSet(spec.capabilities) : i.name \notin {<<>>, None}
  /\ \A s \in ToSet(spec.schemas) : \A f \in ToSet(s.fields) : f.name # <<>>
  /\ \A l \in ToSet(spec.legacy) : l.name \notin {<<>>, None}

(* A runtime finds a method by the high byte of its id and its bit in the  *)
(* mask of that byte. When the sources are accepted this leads to one      *)
(* method of one domain, every mask is full from bit 0, and a domain's     *)
(* events are under the byte of its methods. Five rules in two files make  *)
(* it so.                                                                  *)
DispatchIsUnambiguous ==
  SourcesAccepted(tree) =>
    LET model == Build(Load(tree))
        methods == model.methods
        At(b) == {i \in DOMAIN methods : HighByte(methods[i].id) = b}
    IN /\ \A i \in DOMAIN methods : \A j \in At(HighByte(methods[i].id)) :
            /\ methods[i].domain = methods[j].domain
            /\ methods[i].bit = methods[j].bit => i = j
       /\ \A i \in DOMAIN methods :
            /\ methods[i].bit >= 0
            /\ \A b \in 0 .. methods[i].bit :
                 \E j \in At(HighByte(methods[i].id)) : methods[j].bit = b
       /\ \A m \in ToSet(methods) : \A e \in ToSet(model.events) :
            m.domain = e.domain <=> HighByte(m.id) = HighByte(e.id)

(* Whatever an accepted method speaks of is in the protocol and is not     *)
(* reserved, the arguments of its schemas included, and a schema that the  *)
(* registry had empty is Empty. Of the schemas only those of the kind      *)
(* object promise this for their fields: the IR's check skips the others.  *)
ReferencesResolve ==
  SourcesAccepted(tree) =>
    LET spec == Load(tree)
        model == Build(spec)
        live == {i.name : i \in {j \in ToSet(model.events) \cup ToSet(model.errors)
                                         \cup ToSet(model.capabilities) : j.status # "reserved"}}
        kept == {s.name : s \in {t \in ToSet(spec.schemas) : t.fields # <<>>}} \cup {"Empty"}
    IN /\ \A m \in ToSet(model.methods) :
            /\ m.events \cup m.errors \cup m.capabilities \subseteq live
            /\ m.request \in kept /\ m.response \in kept
       /\ \A e \in ToSet(model.events) : e.payload \in kept
       /\ \A s \in ToSet(model.schemas) :
            s.kind = "object" =>
              \A f \in ToSet(s.fields) : {f.schema, f.itemSchema} \subseteq kept \cup {None}

(* Building loses nothing that the registry's check has established: of a  *)
(* registry in which every entry has a name, these checks of the IR never  *)
(* fail.                                                                   *)
BuildKeepsWhatWasChecked ==
  RegistryAccepted(tree) /\ AllNamed(Load(tree)) =>
    LET spec == Load(tree)
        model == Build(spec)
        types == Names(model.schemas)
    IN Buildable(spec) =>
         /\ ~Conflicts(ProtocolDomains(model))
         /\ UniqueInProtocol(model.methods) /\ UniqueInProtocol(model.events)
         /\ UniqueInProtocol(model.errors) /\ UniqueInProtocol(model.capabilities)
         /\ UniqueNames(model.schemas)
         /\ ProtocolBits(model.methods) /\ ProtocolBits(model.events)
         /\ \A m \in ToSet(model.methods) : m.request \in types /\ m.response \in types
         /\ \A e \in ToSet(model.events) : e.payload \in types
         /\ (EmptySchemaUsage(model) \/ \E s \in ToSet(spec.schemas) : s.name = "Empty")

(* The documents' check (protocolDocsValidator.ts:60-112, 134) has a copy  *)
(* of its own of rules of the IR's check (protocolValidator.ts:206-257,    *)
(* 350-356), and the two have not drifted apart: the copy accepts what the *)
(* rules accept, so that a valid IR is only refused for what the documents *)
(* do not say.                                                             *)
CopiesAgree ==
  Loadable(tree) /\ Buildable(Load(tree)) =>
    LET model == Build(Load(tree))
    IN /\ DocsAgree(model, tree.docs) <=>
            /\ DocFacts \subseteq tree.docs
            /\ model.wire.byteOrder = "big-endian" /\ model.wire.byteOrderAlias = "network"
            /\ StreamHeader(model.header)
            /\ Phase1Opcodes(model.control)
            /\ MethodMasks(model)
       /\ ValidProtocol(model) => (DocsAgree(model, tree.docs) <=> DocFacts \subseteq tree.docs)

(* Nothing that the two loaders read differently.                          *)
SpelledOut(i) ==
  /\ \A p \in {"status", "domain"} \cap DOMAIN i : i[p] # None
  /\ "fields" \in DOMAIN i =>
       /\ i.kind = None
       /\ \A f \in ToSet(i.fields) : f.id # None /\ f.itemType = None /\ f.itemSchema = None

Explicit(t) ==
  \A doc \in ToSet(t.domains) \cup {t.core} :
    \A l \in DOMAIN doc \cap (Kinds \cup {CoreFileOf[k] : k \in Kinds}) :
      \A i \in ToSet(Or(doc[l], <<>>)) : SpelledOut(i)

(* Which file an entry is in, and in which order the files come, does not  *)
(* change the verdict, as long as entries have names, no error has a       *)
(* negative code and entries spell out what the loaders would fill in.     *)
PlaceDoesNotMatter ==
  [][ (RenameFile \/ \E p, q \in Places, k \in Kinds : MoveEntry(p, q, k))
      /\ Loadable(tree) /\ Loadable(tree') /\ Explicit(tree) /\ AllNamed(Load(tree))
      /\ (\A e \in ToSet(Load(tree).errors) : e.id \in Nat)
      => (SourcesAccepted(tree') <=> SourcesAccepted(tree)) ]_vars

(* validator.test.ts:117: "rejects ids outside the Domain Registry range". *)
(* All ranges together are those of a 16 bit id.                           *)
IdsOutsideTheRangesAreRejected ==
  RegistryAccepted(tree) =>
    \A m \in ToSet(Load(tree).methods) : m.id \in 0 .. 65535

(* validator.test.ts:99: "rejects duplicate method ids".                   *)
DuplicateMethodIdsAreRejected ==
  RegistryAccepted(tree) =>
    LET methods == Load(tree).methods
    IN \A i, j \in DOMAIN methods : methods[i].id = methods[j].id => i = j
==============================================================================
