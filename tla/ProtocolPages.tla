----------------------------- MODULE ProtocolPages -----------------------------
(***************************************************************************)
(* What the Markdown of a protocol (emitters/protocolMarkdown.ts) shows,   *)
(* and where. Layout, fixed texts and the sections that only copy a part   *)
(* of protocol_meta are left out.                                          *)
(***************************************************************************)
EXTENDS Registry

DomainsFor(items) == {i.domain : i \in ToSet(items)}

(* sortedMethods, sortedEvents, sortedErrors and sortedCapabilities. Names *)
(* only decide between equal ids, which no accepted protocol has.          *)
AsBuilt(items) == items
Sorted(items) == SortSeq(items, LAMBDA a, b : a.id < b.id)

InDomain(items, domain) == SelectSeq(Sorted(items), LAMBDA i : i.domain = domain)

(* The fields shown for a type; an unknown one is shown as having none.    *)
RenderFields(type, model) ==
  LET known == {s \in ToSet(model.schemas) : s.name = type}
  IN IF known = {} THEN <<>> ELSE (CHOOSE s \in known : TRUE).fields

RenderMethod(method, model) ==
  [method |-> method, request |-> RenderFields(method.request, model),
   response |-> RenderFields(method.response, model)]

RenderEvent(event, model) ==
  [event |-> event, payload |-> RenderFields(event.payload, model)]

(* One chapter for each domain that has methods, one for each that has     *)
(* events.                                                                 *)
MethodChapters(model) ==
  [d \in DomainsFor(model.methods) |->
     LET own == InDomain(model.methods, d)
     IN [i \in DOMAIN own |-> RenderMethod(own[i], model)]]

EventChapters(model) ==
  [d \in DomainsFor(model.events) |->
     LET own == InDomain(model.events, d)
     IN [i \in DOMAIN own |-> RenderEvent(own[i], model)]]

(* The types with fields of their own on the page: inline with a method or *)
(* an event, or as additional types, which are those that nothing refers to.*)
InlineTypes(model) ==
  UNION {{m.request, m.response} : m \in ToSet(model.methods)}
    \cup {e.payload : e \in ToSet(model.events)}

ReferencedTypeNames(model) ==
  InlineTypes(model)
    \cup {c.schema : c \in ToSet(model.capabilities)}
    \cup UNION {UNION {{f.schema, f.itemSchema} : f \in ToSet(s.fields)} :
                  s \in ToSet(model.schemas)}

AdditionalTypes(model) ==
  {s \in ToSet(model.schemas) : s.name \notin ReferencedTypeNames(model)}

(* Additional types and profiles are sorted by their names, which differ.  *)
Page(model) ==
  [methods |-> MethodChapters(model), events |-> EventChapters(model),
   additional |-> AdditionalTypes(model), capabilities |-> Sorted(model.capabilities),
   errors |-> Sorted(model.errors), profiles |-> ToSet(model.profiles)]

-----------------------------------------------------------------------------
(* The same protocol has the same page, whichever files its entries are in *)
(* and in whichever order they are read.                                   *)
PageIsCanonical ==
  [][ (RenameFile \/ \E p, q \in Places, k \in Kinds : MoveEntry(p, q, k))
      /\ SourcesAccepted(tree) /\ SourcesAccepted(tree') /\ Explicit(tree)
      => Page(Build(Load(tree'))) = Page(Build(Load(tree))) ]_vars

(* cli.ts:200: "generate protocol definition JSON and Markdown". Every     *)
(* type of the definition has its fields somewhere in the Markdown.        *)
EverySchemaIsShown ==
  SourcesAccepted(tree) =>
    LET model == Build(Load(tree))
    IN \A s \in ToSet(model.schemas) :
         s.fields # <<>> =>
           s.name \in InlineTypes(model) \/ s \in AdditionalTypes(model)
================================================================================
