------------------------- MODULE MethodRegistryProofs --------------------------
(***************************************************************************)
(* The maps of a method registry agree, answer as the table they were made *)
(* from, and implement a set of pairs, for any ids, names and tables.      *)
(***************************************************************************)
EXTENDS MethodRegistry, TLAPS

MapsTyped ==
  /\ DOMAIN nameToId \subseteq Names /\ DOMAIN idToName \subseteq Ids
  /\ \A n \in DOMAIN nameToId : nameToId[n] \in Ids
  /\ \A i \in DOMAIN idToName : idToName[i] \in Names

(* What a method with an id and a name leaves of the maps.                 *)
IdsAfter(id, name) == {i \in DOMAIN idToName : i # id /\ idToName[i] # name} \cup {id}
NamesAfter(id, name) == {n \in DOMAIN nameToId : n # name /\ nameToId[n] # id} \cup {name}

LEMMA AddedIds ==
  ASSUME MapsTyped, MapsAgree, NEW id \in Ids, NEW name \in Names, AddMethod(id, name)
  PROVE  /\ DOMAIN idToName' = IdsAfter(id, name)
         /\ \A i \in DOMAIN idToName' : idToName'[i] = IF i = id THEN name ELSE idToName[i]
<1> DEFINE names == Without(nameToId, Get(idToName, id))
           had == Get(names, name)
<1>1. idToName' = Set(Without(idToName, had), id, name)
  BY DEF AddMethod
<1>2. DOMAIN names = DOMAIN nameToId \ {Get(idToName, id)}
      /\ \A n \in DOMAIN names : names[n] = nameToId[n]
  BY DEF Without, Restrict
<1>3. \A i \in DOMAIN idToName : i # id => (i = had <=> idToName[i] = name)
  <2> SUFFICES ASSUME NEW i \in DOMAIN idToName, i # id
               PROVE  i = had <=> idToName[i] = name
    OBVIOUS
  <2>1. CASE idToName[i] = name
    <3>1. name \in DOMAIN nameToId /\ nameToId[name] = i
      BY <2>1, NoneAssumption DEF MapsAgree, MapsTyped, Get
    <3>2. Get(idToName, id) # name
      BY <3>1, NoneAssumption DEF MapsAgree, MapsTyped, Get
    <3> QED BY <2>1, <3>1, <3>2, <1>2 DEF Get
  <2>2. CASE i = had
    <3>1. name \in DOMAIN names /\ names[name] = i
      BY <2>2, NoneAssumption DEF Get, MapsTyped
    <3> QED BY <3>1, <1>2, NoneAssumption DEF MapsAgree, MapsTyped, Get
  <2> QED BY <2>1, <2>2
<1>4. DOMAIN Without(idToName, had) = DOMAIN idToName \ {had}
      /\ \A i \in DOMAIN idToName \ {had} : Without(idToName, had)[i] = idToName[i]
  BY DEF Without, Restrict
<1>5. DOMAIN idToName' = (DOMAIN idToName \ {had}) \cup {id}
      /\ \A i \in DOMAIN idToName' : idToName'[i] = IF i = id THEN name ELSE idToName[i]
  BY <1>1, <1>4 DEF Set
<1> HIDE DEF names, had
<1> QED BY <1>3, <1>5 DEF IdsAfter

LEMMA AddedNames ==
  ASSUME MapsTyped, MapsAgree, NEW id \in Ids, NEW name \in Names, AddMethod(id, name)
  PROVE  /\ DOMAIN nameToId' = NamesAfter(id, name)
         /\ \A n \in DOMAIN nameToId' : nameToId'[n] = IF n = name THEN id ELSE nameToId[n]
<1> DEFINE had == Get(idToName, id)
           names == Without(nameToId, had)
<1>1. nameToId' = Set(names, name, id)
  BY DEF AddMethod
<1>2. DOMAIN names = DOMAIN nameToId \ {had} /\ \A n \in DOMAIN names : names[n] = nameToId[n]
  BY DEF Without, Restrict
<1>3. \A n \in DOMAIN nameToId : n = had <=> nameToId[n] = id
  BY NoneAssumption DEF MapsAgree, MapsTyped, Get
<1>4. DOMAIN nameToId' = (DOMAIN nameToId \ {had}) \cup {name}
      /\ \A n \in DOMAIN nameToId' : nameToId'[n] = IF n = name THEN id ELSE nameToId[n]
  BY <1>1, <1>2 DEF Set
<1> HIDE DEF names, had
<1> QED BY <1>3, <1>4 DEF NamesAfter

LEMMA AddKeepsMaps ==
  ASSUME MapsTyped, MapsAgree, NEW id \in Ids, NEW name \in Names, AddMethod(id, name)
  PROVE  MapsTyped' /\ MapsAgree'
<1>1. DOMAIN idToName' = IdsAfter(id, name)
      /\ \A i \in DOMAIN idToName' : idToName'[i] = IF i = id THEN name ELSE idToName[i]
  BY AddedIds
<1>2. DOMAIN nameToId' = NamesAfter(id, name)
      /\ \A n \in DOMAIN nameToId' : nameToId'[n] = IF n = name THEN id ELSE nameToId[n]
  BY AddedNames
<1>3. MapsTyped'
  BY <1>1, <1>2 DEF MapsTyped, IdsAfter, NamesAfter
<1>4. \A n \in DOMAIN nameToId' : Get(idToName', nameToId'[n]) = n
  BY <1>1, <1>2, NoneAssumption DEF MapsAgree, MapsTyped, Get, IdsAfter, NamesAfter
<1>5. \A i \in DOMAIN idToName' : Get(nameToId', idToName'[i]) = i
  BY <1>1, <1>2, NoneAssumption DEF MapsAgree, MapsTyped, Get, IdsAfter, NamesAfter
<1> QED BY <1>3, <1>4, <1>5 DEF MapsAgree

-----------------------------------------------------------------------------
(* The inductive invariant: until the program adds something, the maps     *)
(* hold the rows added so far.                                             *)
RowsAdded ==
  ~custom =>
    /\ DOMAIN idToName = {table[k][1] : k \in 1 .. row}
    /\ \A k \in 1 .. row : idToName[table[k][1]] = table[k][2]

RegistryInv ==
  /\ MapsTyped /\ MapsAgree
  /\ IsTable(table)
  /\ row \in 0 .. Len(table) /\ custom \in BOOLEAN
  /\ RowsAdded

LEMMA InitRegistryInv == Init => RegistryInv
<1> SUFFICES ASSUME Init PROVE RegistryInv
  OBVIOUS
<1>1. IsTable(table)
  BY RegistriesAssumption DEF Init
<1>2. Len(table) \in Nat
  BY <1>1 DEF IsTable
<1>3. DOMAIN nameToId = {} /\ DOMAIN idToName = {} /\ row = 0 /\ 1 .. row = {}
  BY DEF Init
<1>4. MapsTyped /\ MapsAgree /\ RowsAdded
  BY <1>3 DEF MapsTyped, MapsAgree, RowsAdded
<1>5. row \in 0 .. Len(table)
  BY <1>2, <1>3
<1>6. custom \in BOOLEAN
  BY DEF Init
<1> QED BY <1>1, <1>4, <1>5, <1>6 DEF RegistryInv

LEMMA AddRowKeepsInv ==
  ASSUME RegistryInv, AddRow
  PROVE  RegistryInv'
<1> DEFINE k == row + 1
<1>1. /\ table \in Seq(Ids \X Names) /\ row \in Nat /\ k \in 1 .. Len(table)
      /\ DOMAIN table = 1 .. Len(table)
  BY DEF RegistryInv, AddRow, IsTable
<1>2. table[k][1] \in Ids /\ table[k][2] \in Names
  BY <1>1
<1>3. AddMethod(table[k][1], table[k][2]) /\ UNCHANGED <<table, custom>> /\ row' = k
  BY DEF AddRow
<1>4. MapsTyped' /\ MapsAgree'
  BY <1>2, <1>3, AddKeepsMaps DEF RegistryInv
<1>5. DOMAIN idToName' = IdsAfter(table[k][1], table[k][2])
      /\ \A i \in DOMAIN idToName' :
           idToName'[i] = IF i = table[k][1] THEN table[k][2] ELSE idToName[i]
  BY <1>2, <1>3, AddedIds DEF RegistryInv
<1>6. ASSUME ~custom
      PROVE  /\ DOMAIN idToName' = {table[j][1] : j \in 1 .. k}
             /\ \A j \in 1 .. k : idToName'[table[j][1]] = table[j][2]
  <2>1. DOMAIN idToName = {table[j][1] : j \in 1 .. row}
        /\ \A j \in 1 .. row : idToName[table[j][1]] = table[j][2]
    BY <1>6 DEF RegistryInv, RowsAdded
  <2>2. \A j \in 1 .. row : table[j][1] # table[k][1] /\ table[j][2] # table[k][2]
    <3> TAKE j \in 1 .. row
    <3>1. j \in DOMAIN table /\ k \in DOMAIN table /\ j # k
      BY <1>1
    <3> QED BY <3>1 DEF RegistryInv, IsTable
  <2>3. IdsAfter(table[k][1], table[k][2]) = {table[j][1] : j \in 1 .. row} \cup {table[k][1]}
    BY <2>1, <2>2 DEF IdsAfter
  <2>4. 1 .. k = (1 .. row) \cup {k}
    BY <1>1
  <2> HIDE DEF k
  <2>5. DOMAIN idToName' = {table[j][1] : j \in 1 .. k}
    BY <1>5, <2>3, <2>4
  <2>6. \A j \in 1 .. k : idToName'[table[j][1]] = table[j][2]
    BY <1>5, <2>1, <2>2, <2>4, <2>5
  <2> QED BY <2>5, <2>6
<1>7. RowsAdded'
  BY <1>3, <1>6 DEF RowsAdded
<1>8. IsTable(table')
  BY <1>3 DEF RegistryInv
<1>9. row' \in 0 .. Len(table') /\ custom' \in BOOLEAN
  BY <1>1, <1>3 DEF RegistryInv
<1> QED BY <1>4, <1>7, <1>8, <1>9 DEF RegistryInv

LEMMA AddCustomKeepsInv ==
  ASSUME RegistryInv, AddCustom
  PROVE  RegistryInv'
<1> PICK id \in Ids, name \in Names : AddMethod(id, name)
  BY DEF AddCustom
<1>1. MapsTyped' /\ MapsAgree'
  BY AddKeepsMaps DEF RegistryInv
<1>2. table' = table /\ row' = Len(table) /\ custom' = TRUE
  BY DEF AddCustom
<1>3. Len(table) \in Nat
  BY DEF RegistryInv, IsTable
<1>4. row' \in 0 .. Len(table')
  BY <1>2, <1>3
<1>5. IsTable(table') /\ custom' \in BOOLEAN /\ RowsAdded'
  BY <1>2 DEF RegistryInv, RowsAdded
<1> QED BY <1>1, <1>4, <1>5 DEF RegistryInv

LEMMA StutterKeepsInv ==
  ASSUME RegistryInv, UNCHANGED vars
  PROVE  RegistryInv'
BY DEF RegistryInv, vars, MapsTyped, MapsAgree, RowsAdded, IsTable, Get

LEMMA RegistryInvariant == Spec => []RegistryInv
<1>1. RegistryInv /\ [Next]_vars => RegistryInv'
  BY AddRowKeepsInv, AddCustomKeepsInv, StutterKeepsInv DEF Next
<1> QED BY <1>1, InitRegistryInv, PTL DEF Spec

-----------------------------------------------------------------------------
(* The maps of ids and names keep to ids and names, and the loop that adds *)
(* the generated rows (fromGeneratedDefaults) stays within them.           *)
THEOREM RegistryTypeCorrect == Spec => []TypeOK
<1>1. RegistryInv => TypeOK
  BY DEF RegistryInv, TypeOK, MapsTyped
<1> QED BY <1>1, RegistryInvariant, PTL

(* However addMethod is called, the two maps never contradict one another. *)
THEOREM RegistryMapsAgree == Spec => []MapsAgree
<1>1. RegistryInv => MapsAgree
  BY DEF RegistryInv
<1> QED BY <1>1, RegistryInvariant, PTL

(* One row fits, or none does.                                             *)
LEMMA TheRow ==
  ASSUME NEW rows, NEW k \in rows, \A j \in rows : j = k, k \in Nat
  PROVE  FirstRow(rows) = table[k]
<1>1. rows = {k}
  OBVIOUS
<1>2. \A i : i \in rows /\ (\A j \in rows : i <= j) <=> i = k
  BY <1>1
<1>3. (CHOOSE i \in rows : \A j \in rows : i <= j) = k
  BY <1>2, Zenon
<1> QED BY <1>3 DEF FirstRow

LEMMA NoRow == FirstRow({})[1] = None /\ FirstRow({})[2] = None
BY DEF FirstRow

LEMMA DefaultsAnswer ==
  ASSUME RegistryInv, row = Len(table), ~custom
  PROVE  /\ \A n \in Names : FindMethodId(n) = MethodIdByName(n)
         /\ \A i \in Ids : FindMethodName(i) = MethodById(i)[2]
<1>1. /\ table \in Seq(Ids \X Names) /\ DOMAIN table = 1 .. row
      /\ \A k \in DOMAIN table : k \in Nat /\ table[k][1] \in Ids /\ table[k][2] \in Names
      /\ \A i, j \in DOMAIN table :
           i # j => table[i][1] # table[j][1] /\ table[i][2] # table[j][2]
  <2>1. table \in Seq(Ids \X Names)
    BY DEF RegistryInv, IsTable
  <2>2. \A k \in DOMAIN table : table[k] \in Ids \X Names /\ k \in Nat
    BY <2>1
  <2>3. DOMAIN table = 1 .. row
    BY <2>1
  <2> QED BY <2>1, <2>2, <2>3 DEF RegistryInv, IsTable
<1>2. DOMAIN idToName = {table[k][1] : k \in DOMAIN table}
      /\ \A k \in DOMAIN table : idToName[table[k][1]] = table[k][2]
  BY <1>1 DEF RegistryInv, RowsAdded
<1>3. ASSUME NEW n \in Names
      PROVE  FindMethodId(n) = MethodIdByName(n)
  <2> DEFINE rows == {k \in DOMAIN table : table[k][2] = n}
  <2>1. CASE rows = {}
    <3>1. n \notin DOMAIN nameToId
      <4> SUFFICES ASSUME n \in DOMAIN nameToId PROVE FALSE
        OBVIOUS
      <4>1. nameToId[n] \in DOMAIN idToName /\ idToName[nameToId[n]] = n
        BY NoneAssumption DEF RegistryInv, MapsAgree, MapsTyped, Get
      <4>2. PICK k \in DOMAIN table : table[k][1] = nameToId[n]
        BY <4>1, <1>2
      <4> QED BY <4>1, <4>2, <1>2, <2>1
    <3>2. FindMethodId(n) = None
      BY <3>1 DEF FindMethodId, Get
    <3> QED BY <3>2, <2>1, NoRow DEF MethodIdByName
  <2>2. ASSUME NEW k \in rows
        PROVE  FindMethodId(n) = MethodIdByName(n)
    <3>1. \A j \in rows : j = k
      BY <1>1
    <3>2. FirstRow(rows) = table[k]
      BY <3>1, <1>1, TheRow
    <3>3. FindMethodId(n) = table[k][1]
      <4>1. table[k][1] \in DOMAIN idToName /\ idToName[table[k][1]] = n /\ table[k][1] # None
        BY <1>1, <1>2, NoneAssumption
      <4> QED BY <4>1 DEF RegistryInv, MapsAgree, FindMethodId
    <3> QED BY <3>2, <3>3 DEF MethodIdByName
  <2> QED BY <2>1, <2>2
<1>4. ASSUME NEW i \in Ids
      PROVE  FindMethodName(i) = MethodById(i)[2]
  <2> DEFINE rows == {k \in DOMAIN table : table[k][1] = i}
  <2>1. CASE rows = {}
    <3>1. FindMethodName(i) = None
      BY <2>1, <1>2 DEF FindMethodName, Get
    <3> QED BY <3>1, <2>1, NoRow DEF MethodById
  <2>2. ASSUME NEW k \in rows
        PROVE  FindMethodName(i) = MethodById(i)[2]
    <3>1. \A j \in rows : j = k
      BY <1>1
    <3>2. FirstRow(rows) = table[k]
      BY <3>1, <1>1, TheRow
    <3>3. FindMethodName(i) = table[k][2]
      BY <1>2 DEF FindMethodName, Get
    <3> QED BY <3>2, <3>3 DEF MethodById
  <2> QED BY <2>1, <2>2
<1> QED BY <1>3, <1>4

(* Made from the rows of an accepted registry, the maps answer as a search *)
(* of the rows would.                                                      *)
THEOREM DefaultsAnswerRight == Spec => []DefaultsAnswerAsTheTable
<1>1. RegistryInv => DefaultsAnswerAsTheTable
  BY DefaultsAnswer DEF DefaultsAnswerAsTheTable
<1> QED BY <1>1, RegistryInvariant, PTL

-----------------------------------------------------------------------------
LEMMA InitImplements == Init => Abstract!Init
BY DEF Init, Abstract!Init, Pairs

LEMMA AddImplements ==
  ASSUME RegistryInv, NEW id \in Ids, NEW name \in Names, AddMethod(id, name)
  PROVE  Abstract!Next
<1>1. DOMAIN idToName' = IdsAfter(id, name)
      /\ \A i \in DOMAIN idToName' : idToName'[i] = IF i = id THEN name ELSE idToName[i]
  BY AddedIds DEF RegistryInv
<1>2. Pairs' = {p \in Pairs : p[1] # id /\ p[2] # name} \cup {<<id, name>>}
  BY <1>1 DEF Pairs, IdsAfter
<1> QED BY <1>2 DEF Abstract!Next, Abstract!Add

LEMMA StepImplements ==
  ASSUME RegistryInv, [Next]_vars
  PROVE  [Abstract!Next]_Pairs
<1>1. CASE AddRow
  <2>1. row + 1 \in DOMAIN table /\ table \in Seq(Ids \X Names)
    BY <1>1 DEF RegistryInv, IsTable, AddRow
  <2>2. table[row + 1][1] \in Ids /\ table[row + 1][2] \in Names
    BY <2>1
  <2> QED BY <1>1, <2>2, AddImplements DEF AddRow
<1>2. CASE AddCustom
  BY <1>2, AddImplements DEF AddCustom
<1>3. CASE UNCHANGED vars
  BY <1>3 DEF vars, Pairs
<1> QED BY <1>1, <1>2, <1>3 DEF Next

(* Seen as pairs, the two maps are the set that MethodNames describes.     *)
THEOREM RegistryImplementsNames == Spec => ImplementsMethodNames
<1> QED BY InitImplements, StepImplements, RegistryInvariant, PTL
     DEF Spec, ImplementsMethodNames, Abstract!Spec
================================================================================
