---------------------------- MODULE MethodRegistry -----------------------------
(***************************************************************************)
(* The tables of methods that the generator writes for TypeScript and for  *)
(* Dart (emitters/ts.ts, emitters/dart.ts), with the code that is written  *)
(* along: RegistryLookup, which searches the table, and MethodRegistry,    *)
(* which keeps two maps, begins with the rows of the table and is added to *)
(* by the program that uses it.                                            *)
(*                                                                         *)
(* A map is a function on the keys it has. A row is a pair of id and name. *)
(***************************************************************************)
EXTENDS Naturals, Sequences, SequencesExt, Functions, TLC

CONSTANTS
  Ids, Names,
  Registries,   \* the accepted registries: sequences of methods in file order
  None

ASSUME NoneAssumption == None \notin Ids \cup Names

VARIABLES
  table,     \* the rows written to the generated file
  row,       \* how many of them fromGeneratedDefaults has added
  nameToId, idToName,
  custom     \* the program has added a method of its own

vars == <<table, row, nameToId, idToName, custom>>

(* sortById; no accepted registry has an id twice.                         *)
SortById(methods) == SortSeq(methods, LAMBDA a, b : a[1] < b[1])

(* The rows of an accepted registry.                                       *)
IsTable(rows) ==
  /\ rows \in Seq(Ids \X Names)
  /\ \A i, j \in DOMAIN rows : i # j => rows[i][1] # rows[j][1] /\ rows[i][2] # rows[j][2]

ASSUME RegistriesAssumption == \A r \in Registries : IsTable(SortById(r))

Init ==
  /\ \E r \in Registries : table = SortById(r)
  /\ row = 0
  /\ nameToId = <<>> /\ idToName = <<>>
  /\ custom = FALSE

Without(map, key) == Restrict(map, DOMAIN map \ {key})
Get(map, key) == IF key \in DOMAIN map THEN map[key] ELSE None
Set(map, key, value) == [k \in DOMAIN map \cup {key} |-> IF k = key THEN value ELSE map[k]]

(* Mutants: the id that had the name stays; the name that had the id stays. *)
AddMethodKeepingIds(id, name) ==
  /\ nameToId' = Set(Without(nameToId, Get(idToName, id)), name, id)
  /\ idToName' = Set(idToName, id, name)

AddMethodKeepingNames(id, name) ==
  /\ nameToId' = Set(nameToId, name, id)
  /\ idToName' = Set(Without(idToName, Get(nameToId, name)), id, name)

(* What had the id loses it, then what still has the name.                 *)
AddMethod(id, name) ==
  LET names == Without(nameToId, Get(idToName, id))
  IN /\ nameToId' = Set(names, name, id)
     /\ idToName' = Set(Without(idToName, Get(names, name)), id, name)

(* Mutant: the last row is left out.                                       *)
AddRowButLast ==
  /\ row < Len(table)
  /\ IF row + 1 = Len(table) THEN UNCHANGED <<nameToId, idToName>>
     ELSE AddMethod(table[row + 1][1], table[row + 1][2])
  /\ row' = row + 1
  /\ UNCHANGED <<table, custom>>

(* fromGeneratedDefaults, one turn of its loop at a time.                  *)
AddRow ==
  /\ row < Len(table)
  /\ AddMethod(table[row + 1][1], table[row + 1][2])
  /\ row' = row + 1
  /\ UNCHANGED <<table, custom>>

(* The program adds one, to a registry with all rows, or to an empty one    *)
(* that will get none of them.                                             *)
AddCustom ==
  /\ row \in {0, Len(table)}
  /\ \E id \in Ids, name \in Names : AddMethod(id, name)
  /\ row' = Len(table)
  /\ custom' = TRUE
  /\ UNCHANGED table

Next == AddRow \/ AddCustom

Spec == Init /\ [][Next]_vars

-----------------------------------------------------------------------------
(* The queries.                                                            *)

FindMethodId(name) == Get(nameToId, name)
FindMethodName(id) == Get(idToName, id)

(* RegistryLookup takes the first row that fits.                           *)
FirstRow(fitting) ==
  IF fitting = {} THEN <<None, None>>
  ELSE table[CHOOSE i \in fitting : \A j \in fitting : i <= j]

MethodIdByName(name) == FirstRow({i \in DOMAIN table : table[i][2] = name})[1]
MethodById(id) == FirstRow({i \in DOMAIN table : table[i][1] = id})

-----------------------------------------------------------------------------
TypeOK ==
  /\ DOMAIN nameToId \subseteq Names /\ DOMAIN idToName \subseteq Ids
  /\ \A n \in DOMAIN nameToId : nameToId[n] \in Ids
  /\ \A i \in DOMAIN idToName : idToName[i] \in Names
  /\ row \in 0 .. Len(table) /\ custom \in BOOLEAN

(* The two maps say the same, however methods take ids and names from each *)
(* other: containsMethod, findMethodId, findMethodName and entries never   *)
(* contradict one another.                                                 *)
MapsAgree ==
  /\ \A n \in DOMAIN nameToId : Get(idToName, nameToId[n]) = n
  /\ \A i \in DOMAIN idToName : Get(nameToId, idToName[i]) = i

(* A registry made from the generated rows answers every question as the   *)
(* search of the rows does, until the program adds something.              *)
DefaultsAnswerAsTheTable ==
  row = Len(table) /\ ~custom =>
    /\ \A n \in Names : FindMethodId(n) = MethodIdByName(n)
    /\ \A i \in Ids : FindMethodName(i) = MethodById(i)[2]

(* The maps implement the set of pairs: adding a method forgets the ones   *)
(* whose id or name it takes, and no other.                                *)
Pairs == {<<i, idToName[i]>> : i \in DOMAIN idToName}

Abstract == INSTANCE MethodNames WITH pairs <- Pairs

ImplementsMethodNames == Abstract!Spec
================================================================================
