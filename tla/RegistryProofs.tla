---------------------------- MODULE RegistryProofs -----------------------------
(***************************************************************************)
(* What an accepted tree of specification files promises, for every tree.  *)
(* First what the loaders make of lists and that trees keep theirs; then   *)
(* the properties. Those of dispatch, references and documents hold in     *)
(* each state by itself, whatever Load makes of a tree: the rules of the   *)
(* registry and of the IR are enough. That building loses nothing needs    *)
(* the lists.                                                              *)
(***************************************************************************)
EXTENDS Registry, SequenceTheorems, WellFoundedInduction, TLAPS

-----------------------------------------------------------------------------
(* Lists.                                                                  *)

(* IsList says of a value what Seq says of it and some set.                *)
LEMMA SequenceIsList ==
  ASSUME NEW S, NEW s \in Seq(S)
  PROVE  IsList(s)
<1>1. s = [i \in 1 .. Len(s) |-> s[i]] /\ Len(s) \in Nat /\ DOMAIN s = 1 .. Len(s)
  OBVIOUS
<1>2. \A i \in 1 .. Len(s) : s[i] \in ToSet(s)
  BY <1>1 DEF ToSet
<1>3. s \in [1 .. Len(s) -> ToSet(s)]
  BY <1>1, <1>2
<1> QED BY <1>1, <1>3 DEF IsList

(* What has one entry for each place of a list.                            *)
LEMMA TabledIsList ==
  ASSUME NEW s, IsList(s), NEW F, NEW S, F = [i \in DOMAIN s |-> F[i]]
  PROVE  IsList(F)
<1>1. s \in Seq(ToSet(s))
  BY DEF IsList
<1>2. Len(s) \in Nat /\ DOMAIN s = 1 .. Len(s)
  BY <1>1
<1>3. F \in [1 .. Len(s) -> ToSet(F)]
  BY <1>2 DEF ToSet
<1>4. F \in Seq(ToSet(F))
  BY <1>2, <1>3
<1> QED BY <1>4 DEF IsList

LEMMA ListFacts ==
  ASSUME NEW s, IsList(s)
  PROVE  /\ s \in Seq(ToSet(s))
         /\ Len(s) \in Nat
         /\ DOMAIN s = 1 .. Len(s)
         /\ \A i \in DOMAIN s : s[i] \in ToSet(s)
  BY DEF IsList, ToSet

LEMMA ConcatIsList ==
  ASSUME NEW s, NEW t, IsList(s), IsList(t)
  PROVE  /\ IsList(s \o t)
         /\ ToSet(s \o t) = ToSet(s) \cup ToSet(t)
<1> DEFINE S == ToSet(s) \cup ToSet(t)
<1>1. s \in Seq(S) /\ t \in Seq(S)
  BY DEF IsList
<1>2. s \o t \in Seq(S)
  BY <1>1
<1>3. IsList(s \o t)
  BY <1>2, SequenceIsList
<1>4. ToSet(s \o t) = ToSet(s) \cup ToSet(t)
  <2>1. /\ Len(s) \in Nat /\ Len(t) \in Nat
        /\ DOMAIN s = 1 .. Len(s) /\ DOMAIN t = 1 .. Len(t)
        /\ Len(s \o t) = Len(s) + Len(t)
        /\ DOMAIN (s \o t) = 1 .. (Len(s) + Len(t))
        /\ \A i \in 1 .. Len(s) : (s \o t)[i] = s[i]
        /\ \A i \in 1 .. Len(t) : (s \o t)[Len(s) + i] = t[i]
    BY <1>1, ConcatProperties
  <2>2. ASSUME NEW i \in 1 .. (Len(s) + Len(t)) PROVE (s \o t)[i] \in ToSet(s) \cup ToSet(t)
    <3>1. CASE i \in 1 .. Len(s)
      BY <2>1, <3>1 DEF ToSet
    <3>2. CASE i \notin 1 .. Len(s)
      <4>1. i - Len(s) \in 1 .. Len(t) /\ i = Len(s) + (i - Len(s))
        BY <2>1, <3>2
      <4>2. (s \o t)[Len(s) + (i - Len(s))] = t[i - Len(s)]
        BY <2>1, <4>1
      <4> QED BY <2>1, <4>1, <4>2 DEF ToSet
    <3> QED BY <3>1, <3>2
  <2>3. \A i \in 1 .. Len(s) : s[i] \in ToSet(s \o t)
    <3>1. \A i \in 1 .. Len(s) : i \in DOMAIN (s \o t)
      BY <2>1
    <3> QED BY <2>1, <3>1 DEF ToSet
  <2>4. \A i \in 1 .. Len(t) : t[i] \in ToSet(s \o t)
    <3>1. \A i \in 1 .. Len(t) : Len(s) + i \in DOMAIN (s \o t)
      BY <2>1
    <3> QED BY <2>1, <3>1 DEF ToSet
  <2> QED BY <2>1, <2>2, <2>3, <2>4 DEF ToSet
<1> QED BY <1>3, <1>4

(* What the edits do to a list leaves a list.                              *)
LEMMA RemovedIsList ==
  ASSUME NEW s, IsList(s), NEW i \in DOMAIN s
  PROVE  IsList(RemoveAt(s, i))
<1>1. s \in Seq(ToSet(s)) /\ Len(s) \in Nat /\ i \in 1 .. Len(s)
  BY ListFacts
<1>2. SubSeq(s, 1, i - 1) \in Seq(ToSet(s)) /\ SubSeq(s, i + 1, Len(s)) \in Seq(ToSet(s))
  BY <1>1, SubSeqProperties
<1>3. RemoveAt(s, i) \in Seq(ToSet(s))
  BY <1>2, ConcatProperties DEF RemoveAt
<1> QED BY <1>3, SequenceIsList

LEMMA AppendedIsList ==
  ASSUME NEW s, IsList(s), NEW e
  PROVE  IsList(Append(s, e))
<1>1. s \in Seq(ToSet(s) \cup {e})
  BY DEF IsList
<1>2. Append(s, e) \in Seq(ToSet(s) \cup {e})
  BY <1>1
<1> QED BY <1>2, SequenceIsList

LEMMA ReplacedIsList ==
  ASSUME NEW s, IsList(s), NEW i \in DOMAIN s, NEW v
  PROVE  IsList([s EXCEPT ![i] = v])
<1>1. s \in Seq(ToSet(s) \cup {v})
  BY DEF IsList
<1>2. [s EXCEPT ![i] = v] \in Seq(ToSet(s) \cup {v})
  BY <1>1
<1> QED BY <1>2, SequenceIsList

LEMMA EmptyIsList == IsList(<<>>)
  BY DEF IsList

-----------------------------------------------------------------------------
(* Flattening, by induction over the number of lists.                      *)

(* The well-order of the natural numbers, which is how the inductions here *)
(* are done: there is no least counterexample.                             *)
LEMMA LeastNatural ==
  ASSUME NEW T, T \subseteq Nat, T # {}
  PROVE  \E x \in T : \A y \in T : ~(y < x)
<1> DEFINE R == {ss \in Nat \X Nat : ss[1] < ss[2]}
<1>1. IsWellFoundedOn(R, Nat)
  BY NatLessThanWellFounded, Zenon DEF OpToRel
<1>2. \A x, y \in Nat : x < y => <<x, y>> \in R
  OBVIOUS
<1> HIDE DEF R
<1>3. \E x \in T : \A y \in T : ~ (<<y, x>> \in R)
  BY <1>1, WFMin, Zenon
<1> QED BY <1>2, <1>3

(* What flattens the first n lists.                                        *)
Flattens(f, seqs, n) ==
  f = [i \in 1 .. n |-> IF i = 1 THEN seqs[i] ELSE f[i - 1] \o seqs[i]]

(* The recursive function inside FlattenSeq exists.                        *)
LEMMA FlattensExists ==
  ASSUME NEW seqs, NEW n \in Nat
  PROVE  \E f : Flattens(f, seqs, n)
<1> DEFINE T == {m \in Nat : ~ \E f : Flattens(f, seqs, m)}
<1> SUFFICES ASSUME T # {} PROVE FALSE
  OBVIOUS
<1>1. PICK m \in T : \A k \in T : ~(k < m)
  BY LeastNatural
<1>2. CASE m = 0
  <2>1. Flattens([i \in 1 .. 0 |-> seqs[i]], seqs, 0)
    BY DEF Flattens
  <2> QED BY <1>1, <1>2, <2>1
<1>3. CASE m # 0
  <2>1. m - 1 \in Nat /\ m - 1 < m
    BY <1>1, <1>3
  <2>2. PICK f : Flattens(f, seqs, m - 1)
    BY <1>1, <2>1
  <2> DEFINE g == [i \in 1 .. m |->
                     IF i < m THEN f[i]
                     ELSE IF i = 1 THEN seqs[i] ELSE f[i - 1] \o seqs[i]]
  <2>3. \A i \in 1 .. (m - 1) : f[i] = IF i = 1 THEN seqs[i] ELSE f[i - 1] \o seqs[i]
    BY <2>1, <2>2 DEF Flattens
  <2>4. ASSUME NEW i \in 1 .. m
        PROVE  g[i] = IF i = 1 THEN seqs[i] ELSE g[i - 1] \o seqs[i]
    <3>1. i # 1 => i - 1 \in 1 .. m /\ i - 1 < m
      BY <1>1
    <3>2. CASE i < m
      <4>1. i \in 1 .. (m - 1)
        BY <1>1, <3>2
      <4>2. i # 1 => g[i - 1] = f[i - 1]
        BY <3>1
      <4> QED BY <2>3, <3>2, <4>1, <4>2
    <3>3. CASE ~(i < m)
      <4>1. i # 1 => g[i - 1] = f[i - 1]
        BY <3>1
      <4> QED BY <3>3, <4>1
    <3> QED BY <3>2, <3>3
  <2>5. g = [i \in 1 .. m |-> IF i = 1 THEN seqs[i] ELSE g[i - 1] \o seqs[i]]
    <3>1. g = [i \in 1 .. m |-> g[i]]
      OBVIOUS
    <3> HIDE DEF g
    <3> QED BY <2>4, <3>1
  <2>6. Flattens(g, seqs, m)
    BY <2>5 DEF Flattens
  <2> QED BY <1>1, <2>6
<1> QED BY <1>2, <1>3

(* Lists in a row make a list, and nothing gets into it that was in none.  *)
LEMMA FlatIsList ==
  ASSUME NEW seqs, IsList(seqs), \A i \in DOMAIN seqs : IsList(seqs[i])
  PROVE  /\ IsList(FlattenSeq(seqs))
         /\ \A e \in ToSet(FlattenSeq(seqs)) : \E i \in DOMAIN seqs : e \in ToSet(seqs[i])
<1> DEFINE n == Len(seqs)
<1>1. n \in Nat /\ DOMAIN seqs = 1 .. n
  BY ListFacts
<1>2. CASE n = 0
  <2>1. FlattenSeq(seqs) = seqs /\ ToSet(seqs) = {}
    BY <1>1, <1>2 DEF FlattenSeq, ToSet
  <2> QED BY <2>1
<1>3. CASE n # 0
  <2> DEFINE f == CHOOSE f : Flattens(f, seqs, n)
  <2>1. Flattens(f, seqs, n)
    BY <1>1, FlattensExists
  <2>2. FlattenSeq(seqs) = f[n]
    BY <1>3 DEF FlattenSeq, Flattens
  <2> HIDE DEF f
  <2>3. \A i \in 1 .. n : f[i] = IF i = 1 THEN seqs[i] ELSE f[i - 1] \o seqs[i]
    BY <2>1 DEF Flattens
  <2> DEFINE Good(i) == /\ IsList(f[i])
                        /\ \A e \in ToSet(f[i]) : \E j \in DOMAIN seqs : e \in ToSet(seqs[j])
             Bad == {i \in Nat : i \in 1 .. n /\ ~Good(i)}
  <2>4. Bad = {}
    <3> SUFFICES ASSUME Bad # {} PROVE FALSE
      OBVIOUS
    <3>1. PICK m \in Bad : \A k \in Bad : ~(k < m)
      BY LeastNatural
    <3>2. CASE m = 1
      BY <1>1, <2>3, <3>1, <3>2
    <3>3. CASE m # 1
      <4>1. m - 1 \in Nat /\ m - 1 \in 1 .. n /\ m - 1 < m
        BY <1>1, <3>1, <3>3
      <4>2. Good(m - 1)
        BY <3>1, <4>1
      <4>3. f[m] = f[m - 1] \o seqs[m]
        BY <2>3, <3>1, <3>3
      <4>4. IsList(seqs[m])
        BY <1>1, <3>1
      <4>5. IsList(f[m - 1] \o seqs[m])
            /\ ToSet(f[m - 1] \o seqs[m]) = ToSet(f[m - 1]) \cup ToSet(seqs[m])
        BY <4>2, <4>4, ConcatIsList
      <4>6. m \in DOMAIN seqs
        BY <1>1, <3>1
      <4>7. Good(m)
        BY <4>2, <4>3, <4>5, <4>6
      <4> QED BY <3>1, <4>7
    <3> QED BY <3>2, <3>3
  <2>5. Good(n)
    BY <1>1, <1>3, <2>4
  <2> QED BY <2>2, <2>5
<1> QED BY <1>2, <1>3

-----------------------------------------------------------------------------
(* Trees keep their lists.                                                 *)

(* A domain file that can be read.                                         *)
Readable(d) ==
  /\ IsMap(d) /\ Kinds \cup {"profiles"} \subseteq DOMAIN d
  /\ \A k \in Kinds : IsListOf(k, d[k])
  /\ IsList(d.profiles)

(* What the edits do to the entries of a kind leaves entries of that kind. *)
LEMMA RemovedIsListOf ==
  ASSUME NEW kind, NEW s, IsListOf(kind, s), NEW i \in DOMAIN s
  PROVE  IsListOf(kind, RemoveAt(s, i))
<1>1. s \in Seq(ToSet(s)) /\ Len(s) \in Nat /\ i \in 1 .. Len(s)
  BY ListFacts DEF IsListOf
<1>2. SubSeq(s, 1, i - 1) \in Seq(ToSet(s)) /\ SubSeq(s, i + 1, Len(s)) \in Seq(ToSet(s))
  BY <1>1, SubSeqProperties
<1>3. RemoveAt(s, i) \in Seq(ToSet(s))
  BY <1>2, ConcatProperties DEF RemoveAt
<1>4. \A e \in ToSet(RemoveAt(s, i)) : e \in ToSet(s)
  <2> DEFINE less == RemoveAt(s, i)
  <2> HIDE DEF less
  <2>1. \A n \in DOMAIN less : less[n] \in ToSet(s)
    BY <1>3 DEF less
  <2> QED BY <2>1 DEF ToSet, less
<1> QED BY <1>3, <1>4, SequenceIsList DEF IsListOf

LEMMA AppendedIsListOf ==
  ASSUME NEW kind, NEW s, IsListOf(kind, s), NEW e, IsEntry(kind, e)
  PROVE  IsListOf(kind, Append(s, e))
<1>1. Append(s, e) \in Seq(ToSet(s) \cup {e})
  BY DEF IsListOf, IsList
<1>2. \A n \in DOMAIN Append(s, e) : Append(s, e)[n] \in ToSet(s) \cup {e}
  BY <1>1
<1> QED BY <1>1, <1>2, SequenceIsList DEF IsListOf, ToSet

LEMMA AmendedIsListOf ==
  ASSUME NEW kind, NEW s, IsListOf(kind, s), NEW i \in DOMAIN s, NEW f, NEW v
  PROVE  IsListOf(kind, [s EXCEPT ![i][f] = v])
<1> DEFINE e == [s[i] EXCEPT ![f] = v]
<1>1. IsEntry(kind, s[i])
  BY DEF IsListOf, ToSet
<1>2. IsEntry(kind, e)
  BY <1>1 DEF IsEntry, IsMap
<1>3. [s EXCEPT ![i][f] = v] = [s EXCEPT ![i] = e]
  OBVIOUS
<1> HIDE DEF e
<1>4. [s EXCEPT ![i] = e] \in Seq(ToSet(s) \cup {e})
  BY DEF IsListOf, IsList
<1>5. \A n \in DOMAIN [s EXCEPT ![i] = e] : [s EXCEPT ![i] = e][n] \in ToSet(s) \cup {e}
  BY <1>4
<1> QED BY <1>2, <1>3, <1>4, <1>5, SequenceIsList DEF IsListOf, ToSet

(* What an edit writes: a core file, a domain file, or a list in either.   *)
LEMMA CoreFileIsSet ==
  ASSUME NEW t, Listed(t), NEW f \in RequiredFiles \cup OptionalFiles, NEW v,
         f \in ListFiles => v \in {None, Broken} \/ IsList(v),
         \A k \in Kinds : f = CoreFileOf[k] => v \in {None, Broken} \/ IsListOf(k, v)
  PROVE  Listed([t EXCEPT !.core[f] = v])
<1> DEFINE u == [t EXCEPT !.core[f] = v]
<1>1. /\ IsMap(u) /\ DOMAIN u = DOMAIN t
      /\ u.core = [t.core EXCEPT ![f] = v]
      /\ u.domains = t.domains
  BY DEF Listed, IsMap
<1>2. /\ IsMap(u.core) /\ DOMAIN u.core = DOMAIN t.core
      /\ u.core[f] = v /\ \A g \in DOMAIN t.core : g # f => u.core[g] = t.core[g]
  BY <1>1 DEF Listed, IsMap
<1>3. ListFiles \subseteq DOMAIN t.core
  BY DEF Listed, ListFiles, CoreFileOf, Kinds, SchemaFiles, ToSet, RequiredFiles, OptionalFiles
<1>4. \A g \in ListFiles : u.core[g] \notin {None, Broken} => IsList(u.core[g])
  BY <1>2, <1>3 DEF Listed
<1>5. \A k \in Kinds : u.core[CoreFileOf[k]] \notin {None, Broken}
                        => IsListOf(k, u.core[CoreFileOf[k]])
  <2>1. \A k \in Kinds : CoreFileOf[k] \in ListFiles
    BY DEF ListFiles
  <2> QED BY <1>2, <1>3, <2>1 DEF Listed
<1> HIDE DEF u
<1> QED BY <1>1, <1>2, <1>4, <1>5 DEF Listed, u

LEMMA DomainFileIsSet ==
  ASSUME NEW t, Listed(t), NEW i \in DOMAIN t.domains, NEW d, d = Broken \/ Readable(d)
  PROVE  Listed([t EXCEPT !.domains[i] = d])
<1> DEFINE u == [t EXCEPT !.domains[i] = d]
<1>1. /\ IsMap(u) /\ DOMAIN u = DOMAIN t
      /\ u.core = t.core
      /\ u.domains = [t.domains EXCEPT ![i] = d]
  BY DEF Listed, IsMap
<1>2. IsList(t.domains)
  BY DEF Listed
<1>3. IsList(u.domains)
  BY <1>1, <1>2, ReplacedIsList
<1>4. /\ DOMAIN u.domains = DOMAIN t.domains
      /\ u.domains[i] = d
      /\ \A j \in DOMAIN t.domains : j # i => u.domains[j] = t.domains[j]
  BY <1>1, <1>2, ListFacts
<1> HIDE DEF u
<1>5. \A j \in DOMAIN u.domains : u.domains[j] # Broken => Readable(u.domains[j])
  BY <1>4 DEF Listed, Readable
<1>6. \A j \in DOMAIN u.domains :
        u.domains[j] # Broken =>
          /\ IsMap(u.domains[j]) /\ Kinds \cup {"profiles"} \subseteq DOMAIN u.domains[j]
          /\ \A k \in Kinds : IsListOf(k, u.domains[j][k])
          /\ IsList(u.domains[j].profiles)
  BY <1>5 DEF Readable
<1>7. Listed(u)
  BY <1>1, <1>3, <1>6 DEF Listed
<1> QED BY <1>7 DEF u

LEMMA PlaceIsSet ==
  ASSUME NEW t, Listed(t), NEW place \in {Core} \cup DOMAIN t.domains, NEW kind \in Kinds,
         place # Core => t.domains[place] # Broken,
         NEW entries, IsListOf(kind, entries)
  PROVE  Listed(With(t, place, kind, entries))
<1>1. CASE place = Core
  <2>1. CoreFileOf[kind] \in RequiredFiles \cup OptionalFiles
    BY DEF CoreFileOf, Kinds, RequiredFiles, OptionalFiles
  <2>2. \A k \in Kinds : CoreFileOf[kind] = CoreFileOf[k] => k = kind
    BY DEF CoreFileOf, Kinds
  <2>3. IsList(entries)
    BY DEF IsListOf
  <2> QED BY <1>1, <2>1, <2>2, <2>3, CoreFileIsSet DEF With
<1>2. CASE place # Core
  <2> DEFINE d == [t.domains[place] EXCEPT ![kind] = entries]
  <2>1. place \in DOMAIN t.domains /\ Readable(t.domains[place])
    BY <1>2 DEF Listed, Readable
  <2>2. Readable(d)
    <3>1. kind # "profiles"
      BY DEF Kinds
    <3> QED BY <2>1, <3>1 DEF Readable, IsMap
  <2>3. Listed([t EXCEPT !.domains[place] = d])
    BY <2>1, <2>2, DomainFileIsSet
  <2>4. With(t, place, kind, entries) = [t EXCEPT !.domains[place] = d]
    BY <1>2 DEF With
  <2> QED BY <2>3, <2>4
<1> QED BY <1>1, <1>2

(* What With leaves alone of the shape: which places there are and which   *)
(* of them can be written to.                                              *)
LEMMA PlacesAreKept ==
  ASSUME NEW t, Listed(t), NEW place \in {Core} \cup DOMAIN t.domains, NEW kind \in Kinds,
         place # Core => t.domains[place] # Broken,
         NEW entries, NEW other \in DOMAIN t.domains, other # place
  PROVE  /\ other \in DOMAIN With(t, place, kind, entries).domains
         /\ With(t, place, kind, entries).domains[other] = t.domains[other]
<1>1. IsList(t.domains)
  BY DEF Listed
<1>2. CASE place = Core
  BY <1>2 DEF With, Listed, IsMap
<1>3. CASE place # Core
  BY <1>1, <1>3, ListFacts DEF With, Listed, IsMap
<1> QED BY <1>2, <1>3

LEMMA EmptyIsListOf ==
  ASSUME NEW kind
  PROVE  IsListOf(kind, <<>>)
  BY EmptyIsList DEF IsListOf, ToSet

LEMMA EntriesAreLists ==
  ASSUME Listed(tree), NEW place \in Places, NEW kind \in Kinds
  PROVE  IsListOf(kind, EntriesAt(place, kind))
<1>1. CASE place = Core
  BY <1>1, EmptyIsListOf DEF EntriesAt, Entries, Or, Listed
<1>2. CASE place # Core
  <2>1. place \in DOMAIN tree.domains
    BY <1>2 DEF Places
  <2> QED BY <1>2, <2>1, EmptyIsListOf DEF EntriesAt, Usable, Listed
<1> QED BY <1>1, <1>2

LEMMA EntriesAreReadable ==
  ASSUME NEW place \in Places, NEW kind, NEW i \in DOMAIN EntriesAt(place, kind)
  PROVE  place # Core => tree.domains[place] # Broken
  BY DEF EntriesAt, Usable

-----------------------------------------------------------------------------
(* One edit after the other.                                               *)
LEMMA AmendKeeps ==
  ASSUME Listed(tree), NEW place \in Places, NEW kind \in Kinds, Amend(place, kind)
  PROVE  Listed(tree')
<1>1. PICK i \in DOMAIN EntriesAt(place, kind), f \in DOMAIN Changes[kind] :
        \E v \in Changes[kind][f] :
          EditTo(With(tree, place, kind, [EntriesAt(place, kind) EXCEPT ![i][f] = v]))
  BY DEF Amend
<1>2. PICK v \in Changes[kind][f] :
        EditTo(With(tree, place, kind, [EntriesAt(place, kind) EXCEPT ![i][f] = v]))
  BY <1>1
<1>3. IsListOf(kind, [EntriesAt(place, kind) EXCEPT ![i][f] = v])
  BY EntriesAreLists, AmendedIsListOf
<1>4. place # Core => tree.domains[place] # Broken
  BY EntriesAreReadable
<1>5. place \in {Core} \cup DOMAIN tree.domains
  BY DEF Places
<1> QED BY <1>2, <1>3, <1>4, <1>5, PlaceIsSet DEF EditTo

LEMMA AddKeeps ==
  ASSUME Listed(tree), NEW place \in Places, NEW kind \in Kinds, Add(place, kind)
  PROVE  Listed(tree')
<1>1. PICK e \in Additions[kind] :
        EditTo(With(tree, place, kind, Append(EntriesAt(place, kind), e)))
  BY DEF Add
<1>2. IsListOf(kind, Append(EntriesAt(place, kind), e))
  BY EntriesAreLists, AppendedIsListOf, BaseAssumption
<1>3. place # Core => tree.domains[place] # Broken
  BY DEF Add, Usable
<1>4. place \in {Core} \cup DOMAIN tree.domains
  BY DEF Places
<1> QED BY <1>1, <1>2, <1>3, <1>4, PlaceIsSet DEF EditTo

LEMMA DeleteKeeps ==
  ASSUME Listed(tree), NEW place \in Places, NEW kind \in Kinds, Delete(place, kind)
  PROVE  Listed(tree')
<1>1. PICK i \in DOMAIN EntriesAt(place, kind) :
        EditTo(With(tree, place, kind, RemoveAt(EntriesAt(place, kind), i)))
  BY DEF Delete
<1>2. IsListOf(kind, RemoveAt(EntriesAt(place, kind), i))
  BY EntriesAreLists, RemovedIsListOf
<1>3. place # Core => tree.domains[place] # Broken
  BY EntriesAreReadable
<1>4. place \in {Core} \cup DOMAIN tree.domains
  BY DEF Places
<1> QED BY <1>1, <1>2, <1>3, <1>4, PlaceIsSet DEF EditTo

LEMMA MoveEntryKeeps ==
  ASSUME Listed(tree), NEW from \in Places, NEW to \in Places, NEW kind \in Kinds,
         MoveEntry(from, to, kind)
  PROVE  Listed(tree')
<1>1. PICK i \in DOMAIN EntriesAt(from, kind) :
        EditTo(With(With(tree, from, kind, RemoveAt(EntriesAt(from, kind), i)), to, kind,
                    Append(EntriesAt(to, kind), EntriesAt(from, kind)[i])))
  BY DEF MoveEntry
<1> DEFINE less == RemoveAt(EntriesAt(from, kind), i)
           more == Append(EntriesAt(to, kind), EntriesAt(from, kind)[i])
<1>2. IsListOf(kind, less) /\ IsListOf(kind, more)
  <2>1. IsEntry(kind, EntriesAt(from, kind)[i])
    BY EntriesAreLists DEF IsListOf, ToSet
  <2> QED BY <2>1, EntriesAreLists, RemovedIsListOf, AppendedIsListOf
<1>3. /\ from # Core => tree.domains[from] # Broken
      /\ to # Core => tree.domains[to] # Broken
      /\ from # to
  BY EntriesAreReadable DEF MoveEntry, Usable
<1>4. from \in {Core} \cup DOMAIN tree.domains /\ to \in {Core} \cup DOMAIN tree.domains
  BY DEF Places
<1> HIDE DEF less, more
<1>5. Listed(With(tree, from, kind, less))
  BY <1>2, <1>3, <1>4, PlaceIsSet
<1>6. to # Core => /\ to \in DOMAIN With(tree, from, kind, less).domains
                   /\ With(tree, from, kind, less).domains[to] = tree.domains[to]
  BY <1>3, <1>4, PlacesAreKept
<1>7. to \in {Core} \cup DOMAIN With(tree, from, kind, less).domains
  BY <1>4, <1>6
<1>8. Listed(With(With(tree, from, kind, less), to, kind, more))
  BY <1>2, <1>3, <1>5, <1>6, <1>7, PlaceIsSet
<1> QED BY <1>1, <1>8 DEF EditTo, less, more

LEMMA RenameFileKeeps ==
  ASSUME Listed(tree), RenameFile
  PROVE  Listed(tree')
<1>1. PICK i \in DOMAIN tree.domains :
        /\ i > 1
        /\ EditTo([tree EXCEPT !.domains[i] = tree.domains[i - 1],
                               !.domains[i - 1] = tree.domains[i]])
  BY DEF RenameFile
<1>2. IsList(tree.domains)
  BY DEF Listed
<1>3. i - 1 \in DOMAIN tree.domains /\ i - 1 # i
  BY <1>1, <1>2, ListFacts
<1>4. \A j \in DOMAIN tree.domains : tree.domains[j] = Broken \/ Readable(tree.domains[j])
  BY DEF Listed, Readable
<1> DEFINE t == [tree EXCEPT !.domains[i] = tree.domains[i - 1]]
<1>5. Listed(t)
  BY <1>3, <1>4, DomainFileIsSet
<1>6. DOMAIN t.domains = DOMAIN tree.domains
  BY DEF Listed, IsMap
<1>7. Listed([t EXCEPT !.domains[i - 1] = tree.domains[i]])
  <2> HIDE DEF t
  <2> QED BY <1>3, <1>4, <1>5, <1>6, DomainFileIsSet
<1>8. tree' = [t EXCEPT !.domains[i - 1] = tree.domains[i]]
  BY <1>1 DEF EditTo
<1> QED BY <1>7, <1>8

LEMMA DamageKeeps ==
  ASSUME Listed(tree), Damage
  PROVE  Listed(tree')
<1>1. ASSUME NEW f \in RequiredFiles \cup OptionalFiles, NEW v \in {None, Broken},
             EditTo([tree EXCEPT !.core[f] = v])
      PROVE  Listed(tree')
  BY <1>1, CoreFileIsSet DEF EditTo
<1>2. ASSUME NEW i \in DOMAIN tree.domains, EditTo([tree EXCEPT !.domains[i] = Broken])
      PROVE  Listed(tree')
  BY <1>2, DomainFileIsSet DEF EditTo
<1>3. ASSUME EditTo([tree EXCEPT !.oldDomains = TRUE])
      PROVE  Listed(tree')
  <2>1. /\ IsMap(tree') /\ DOMAIN tree' = DOMAIN tree
        /\ tree'.core = tree.core /\ tree'.domains = tree.domains
    BY <1>3 DEF EditTo, Listed, IsMap
  <2> QED BY <2>1 DEF Listed
<1> QED BY <1>1, <1>2, <1>3 DEF Damage

LEMMA AmendMetaKeeps ==
  ASSUME Listed(tree), AmendMeta
  PROVE  Listed(tree')
<1>1. PICK s \in DOMAIN MetaChanges :
        \E v \in MetaChanges[s] : EditTo([tree EXCEPT !.core["protocol_meta"][s] = v])
  BY DEF AmendMeta
<1>2. PICK v \in MetaChanges[s] : EditTo([tree EXCEPT !.core["protocol_meta"][s] = v])
  BY <1>1
<1>3. "protocol_meta" \in RequiredFiles /\ "protocol_meta" \notin ListFiles
  BY DEF RequiredFiles, ListFiles, CoreFileOf, Kinds, SchemaFiles, ToSet
<1>4. \A k \in Kinds : CoreFileOf[k] # "protocol_meta"
  BY <1>3 DEF ListFiles
<1> QED BY <1>2, <1>3, <1>4, CoreFileIsSet DEF EditTo

LEMMA DeclareDomainsKeeps ==
  ASSUME Listed(tree), DeclareDomains
  PROVE  Listed(tree')
<1>1. "domain_registry" \in OptionalFiles /\ "domain_registry" \notin ListFiles
  BY DEF OptionalFiles, ListFiles, CoreFileOf, Kinds, SchemaFiles, ToSet
<1>2. \A k \in Kinds : CoreFileOf[k] # "domain_registry"
  BY <1>1 DEF ListFiles
<1> QED BY <1>1, <1>2, CoreFileIsSet DEF DeclareDomains, EditTo

LEMMA AmendDocsKeeps ==
  ASSUME Listed(tree), AmendDocs
  PROVE  Listed(tree')
<1>1. PICK f \in tree.docs : EditTo([tree EXCEPT !.docs = @ \ {f}])
  BY DEF AmendDocs
<1>2. /\ IsMap(tree') /\ DOMAIN tree' = DOMAIN tree
      /\ tree'.core = tree.core /\ tree'.domains = tree.domains
  BY <1>1 DEF EditTo, Listed, IsMap
<1> QED BY <1>2 DEF Listed

(* However a tree is edited, its files stay files and its lists lists      *)
(* (the shape that the YAML loaders read, loader.ts and sourceLoader.ts).  *)
THEOREM TreesStayListed == Spec => []TypeOK
<1>1. Init => TypeOK
  BY BaseAssumption DEF Init, TypeOK
<1>2. TypeOK /\ [Next]_vars => TypeOK'
  <2> SUFFICES ASSUME TypeOK, [Next]_vars PROVE TypeOK'
    OBVIOUS
  <2>1. Listed(tree)
    BY DEF TypeOK
  <2>2. Listed(tree')
    <3>1. CASE Next
      BY <2>1, <3>1, AmendKeeps, AddKeeps, DeleteKeeps, MoveEntryKeeps, RenameFileKeeps,
         DamageKeeps, AmendMetaKeeps, DeclareDomainsKeeps, AmendDocsKeeps DEF Next
    <3>2. CASE UNCHANGED vars
      BY <2>1, <3>2 DEF vars
    <3> QED BY <3>1, <3>2
  <2>3. edits' \in 0 .. MaxEdits
    <3>1. ASSUME NEW t, EditTo(t) PROVE edits' \in 0 .. MaxEdits
      BY <3>1, BaseAssumption DEF EditTo, TypeOK
    <3>2. CASE Next
      BY <3>1, <3>2, Zenon DEF Next, Amend, Add, Delete, MoveEntry, RenameFile, Damage, AmendMeta,
                        DeclareDomains, AmendDocs
    <3>3. CASE UNCHANGED vars
      BY <3>3 DEF vars, TypeOK
    <3> QED BY <3>2, <3>3
  <2> QED BY <2>2, <2>3 DEF TypeOK
<1> QED BY <1>1, <1>2, PTL DEF Spec

-----------------------------------------------------------------------------
(* What is loaded from lists is lists.                                     *)

(* The lists of a registry, and the fields of its schemas.                 *)
ListedSpec(spec) ==
  /\ IsList(spec.methods) /\ IsList(spec.events) /\ IsList(spec.errors)
  /\ IsList(spec.capabilities) /\ IsList(spec.schemas)
  /\ \A s \in ToSet(spec.schemas) : IsMap(s.fields)

(* A tree that can be loaded has a list wherever the loaders look for one. *)
LEMMA UsableFiles ==
  ASSUME NEW t, Listed(t), Loadable(t)
  PROVE  /\ \A f \in ListFiles : IsList(Entries(t, f))
         /\ \A k \in Kinds : IsListOf(k, Entries(t, CoreFileOf[k]))
         /\ \A i \in DOMAIN t.domains : Readable(t.domains[i])
<1>1. ListFiles \subseteq RequiredFiles \cup OptionalFiles
  BY DEF ListFiles, CoreFileOf, Kinds, SchemaFiles, ToSet, RequiredFiles, OptionalFiles
<1>2. ASSUME NEW f \in ListFiles PROVE IsList(Entries(t, f))
  BY <1>1, EmptyIsList DEF Loadable, Listed, Entries, Or
<1>3. ASSUME NEW i \in DOMAIN t.domains PROVE Readable(t.domains[i])
  BY DEF Loadable, Listed, Readable, ToSet
<1>4. ASSUME NEW k \in Kinds PROVE IsListOf(k, Entries(t, CoreFileOf[k]))
  <2>1. CoreFileOf[k] \in ListFiles
    BY DEF ListFiles
  <2> QED BY <1>1, <2>1, EmptyIsListOf DEF Loadable, Listed, Entries, Or
<1> QED BY <1>2, <1>3, <1>4

LEMMA MappedIsList ==
  ASSUME NEW items, IsList(items), NEW status, NEW domain
  PROVE  IsList(MapItems(items, status, domain))
  BY TabledIsList DEF MapItems

LEMMA CoreItemsAreLists ==
  ASSUME NEW t, Listed(t), Loadable(t), NEW kind \in Kinds
  PROVE  IsList(CoreItems(t, CoreFileOf[kind]))
<1>1. CoreFileOf[kind] \in ListFiles
  BY DEF ListFiles
<1> QED BY <1>1, UsableFiles, MappedIsList DEF CoreItems

LEMMA DomainItemsAreLists ==
  ASSUME NEW t, Listed(t), Loadable(t),
         NEW section \in {"methods", "events", "errors", "capabilities"}
  PROVE  IsList(FromDomains(t, section))
<1> DEFINE lists == [i \in DOMAIN t.domains |-> FromDomain(t.domains[i], section)]
<1>1. IsList(lists)
  BY TabledIsList DEF Listed
<1>2. ASSUME NEW i \in DOMAIN lists PROVE IsList(lists[i])
  <2>1. Readable(t.domains[i])
    BY UsableFiles
  <2>2. IsList(t.domains[i][section])
    BY <2>1 DEF Readable, Kinds, IsListOf
  <2>3. IsList(DomainItems(t.domains[i], section))
    BY <2>2, MappedIsList DEF DomainItems
  <2>4. lists[i] = DomainItems(t.domains[i], section)
    BY DEF FromDomain
  <2> QED BY <2>3, <2>4
<1> HIDE DEF lists
<1>3. IsList(FlattenSeq(lists))
  BY <1>1, <1>2, FlatIsList
<1> QED BY <1>3 DEF FromDomains, lists

LEMMA DomainSchemasAreLists ==
  ASSUME NEW t, Listed(t), Loadable(t)
  PROVE  /\ IsList(FromDomains(t, "schemas"))
         /\ \A s \in ToSet(FromDomains(t, "schemas")) : IsMap(s.fields)
<1> DEFINE lists == [i \in DOMAIN t.domains |-> FromDomain(t.domains[i], "schemas")]
<1>1. IsList(lists)
  BY TabledIsList DEF Listed
<1>2. ASSUME NEW i \in DOMAIN lists
      PROVE  IsList(lists[i]) /\ \A s \in ToSet(lists[i]) : IsMap(s.fields)
  <2>1. Readable(t.domains[i])
    BY UsableFiles
  <2>2. IsList(t.domains[i].schemas)
    BY <2>1 DEF Readable, Kinds, IsListOf
  <2>3. IsList(DomainSchemas(t.domains[i]))
    BY <2>2, TabledIsList DEF DomainSchemas
  <2>4. ASSUME NEW s \in ToSet(DomainSchemas(t.domains[i])) PROVE IsMap(s.fields)
    <3>1. PICK raw : s = DomainSchema(raw)
      BY DEF DomainSchemas, ToSet
    <3>2. s.fields = [j \in DOMAIN raw.fields |-> DomainField(raw.fields[j])]
      BY <3>1 DEF DomainSchema
    <3> QED BY <3>2 DEF IsMap
  <2>5. lists[i] = DomainSchemas(t.domains[i])
    BY DEF FromDomain
  <2> QED BY <2>3, <2>4, <2>5
<1> HIDE DEF lists
<1>3. /\ IsList(FlattenSeq(lists))
      /\ \A e \in ToSet(FlattenSeq(lists)) : \E i \in DOMAIN lists : e \in ToSet(lists[i])
  BY <1>1, <1>2, FlatIsList
<1>4. FromDomains(t, "schemas") = FlattenSeq(lists)
  BY DEF FromDomains, lists
<1> QED BY <1>2, <1>3, <1>4

LEMMA CoreSchemasAreLists ==
  ASSUME NEW t, Listed(t), Loadable(t)
  PROVE  /\ IsList(CoreSchemas(t))
         /\ \A s \in ToSet(CoreSchemas(t)) : IsMap(s.fields)
<1> DEFINE lists == [i \in DOMAIN SchemaFiles |-> Entries(t, SchemaFiles[i])]
           raw == FlattenSeq(lists)
<1>1. SchemaFiles \in Seq(ToSet(SchemaFiles))
  BY DEF SchemaFiles, ToSet
<1>2. IsList(lists)
  BY <1>1, TabledIsList DEF IsList
<1>3. ASSUME NEW i \in DOMAIN lists PROVE IsList(lists[i])
  <2>1. SchemaFiles[i] \in ListFiles
    BY DEF ListFiles, ToSet
  <2> QED BY <2>1, UsableFiles
<1> HIDE DEF lists
<1>4. IsList(raw)
  BY <1>2, <1>3, FlatIsList
<1>5. CoreSchemas(t) = [i \in DOMAIN raw |-> CoreSchema(raw[i])]
  BY DEF CoreSchemas, lists
<1> HIDE DEF raw
<1>6. IsList(CoreSchemas(t))
  BY <1>4, <1>5, TabledIsList
<1>7. \A s \in ToSet(CoreSchemas(t)) : IsMap(s.fields)
  BY <1>5 DEF CoreSchema, ToSet, IsMap
<1> QED BY <1>6, <1>7

(* So the loaders make a registry of lists.                                *)
LEMMA LoadedIsListed ==
  ASSUME NEW t, Listed(t), Loadable(t)
  PROVE  ListedSpec(Load(t))
<1>1. /\ CoreFileOf["methods"] = "method_registry" /\ CoreFileOf["events"] = "event_registry"
      /\ CoreFileOf["errors"] = "error_code" /\ CoreFileOf["capabilities"] = "capability_registry"
      /\ {"methods", "events", "errors", "capabilities"} \subseteq Kinds
  BY DEF CoreFileOf, Kinds
<1>2. /\ IsList(CoreItems(t, "method_registry")) /\ IsList(CoreItems(t, "event_registry"))
      /\ IsList(CoreItems(t, "error_code")) /\ IsList(CoreItems(t, "capability_registry"))
  BY <1>1, CoreItemsAreLists
<1>3. /\ IsList(FromDomains(t, "methods")) /\ IsList(FromDomains(t, "events"))
      /\ IsList(FromDomains(t, "errors")) /\ IsList(FromDomains(t, "capabilities"))
  BY DomainItemsAreLists
<1>4. IsList(Load(t).methods)
  BY <1>2, <1>3, ConcatIsList DEF Load
<1>5. IsList(Load(t).events)
  BY <1>2, <1>3, ConcatIsList DEF Load
<1>6. IsList(Load(t).errors)
  BY <1>2, <1>3, ConcatIsList DEF Load
<1>7. IsList(Load(t).capabilities)
  BY <1>2, <1>3, ConcatIsList DEF Load
<1>8. Load(t).schemas = CoreSchemas(t) \o FromDomains(t, "schemas")
  BY DEF Load
<1>9. IsList(Load(t).schemas) /\ \A s \in ToSet(Load(t).schemas) : IsMap(s.fields)
  BY <1>8, CoreSchemasAreLists, DomainSchemasAreLists, ConcatIsList
<1> QED BY <1>4, <1>5, <1>6, <1>7, <1>9 DEF ListedSpec

-----------------------------------------------------------------------------
(* What was accepted, and what the builder keeps of it.                    *)

(* Of what the check of the registry accepts (validateSpec): the conjuncts *)
(* that the proofs use.                                                    *)
LEMMA OfTheRegistry ==
  ASSUME NEW spec, ValidSpec(spec)
  PROVE  /\ InRanges(spec.methods, {}, SourceDomains(spec))
         /\ InRanges(spec.events, {}, SourceDomains(spec))
         /\ NoReservedReferences(spec)
  BY DEF ValidSpec

(* Of what the check of the IR accepts (validateProtocolModel): the same.  *)
LEMMA OfTheProtocol ==
  ASSUME NEW model, ValidProtocol(model)
  PROVE  /\ ProtocolBits(model.methods)
         /\ DomainIdAlignment(model)
         /\ SchemaDefinitions(model.schemas)
         /\ MethodReferences(model)
         /\ EventReferences(model)
  BY DEF ValidProtocol

(* The verdict on a tree, taken apart.                                     *)
LEMMA Accepted ==
  ASSUME NEW t, SourcesAccepted(t)
  PROVE  /\ ValidSpec(Load(t))
         /\ ValidProtocol(Build(Load(t)))
  BY DEF SourcesAccepted, RegistryAccepted

-----------------------------------------------------------------------------
(* What the builder keeps.                                                 *)

LEMMA MethodsAreKept ==
  ASSUME NEW spec, NEW i \in DOMAIN spec.methods
  PROVE  /\ DOMAIN Build(spec).methods = DOMAIN spec.methods
         /\ Build(spec).methods[i].id = spec.methods[i].id
         /\ Build(spec).methods[i].domain = spec.methods[i].domain
         /\ Build(spec).methods[i].bit = spec.methods[i].bit
         /\ Build(spec).methods[i].events = spec.methods[i].events
         /\ Build(spec).methods[i].errors = spec.methods[i].errors
         /\ Build(spec).methods[i].capabilities = spec.methods[i].capabilities
  BY DEF Build, MethodToProtocol

LEMMA EventsAreKept ==
  ASSUME NEW spec, NEW i \in DOMAIN spec.events
  PROVE  /\ DOMAIN Build(spec).events = DOMAIN spec.events
         /\ Build(spec).events[i].id = spec.events[i].id
         /\ Build(spec).events[i].domain = spec.events[i].domain
  BY DEF Build, EventToProtocol

LEMMA ListsAreAsLong ==
  ASSUME NEW spec
  PROVE  /\ DOMAIN Build(spec).methods = DOMAIN spec.methods
         /\ DOMAIN Build(spec).events = DOMAIN spec.events
         /\ DOMAIN Build(spec).errors = DOMAIN spec.errors
         /\ DOMAIN Build(spec).capabilities = DOMAIN spec.capabilities
  BY DEF Build

-----------------------------------------------------------------------------
(* A byte has one domain, whoever asks: that of the map, or the vendors',  *)
(* or that of the old commands.                                            *)
LEMMA ByteHasOneDomain ==
  ASSUME NEW domains, NEW m, NEW e,
         InItsRange(m, {}, domains), InItsRange(e, {}, domains),
         HighByte(m.id) = HighByte(e.id)
  PROVE  m.domain = e.domain
  BY DEF InItsRange, VendorBytes, LegacyByte

LEMMA MethodsOfAByte ==
  ASSUME NEW spec, ValidSpec(spec),
         NEW i \in DOMAIN spec.methods, NEW j \in DOMAIN spec.methods,
         HighByte(spec.methods[i].id) = HighByte(spec.methods[j].id)
  PROVE  spec.methods[i].domain = spec.methods[j].domain
<1>1. /\ InItsRange(spec.methods[i], {}, SourceDomains(spec))
      /\ InItsRange(spec.methods[j], {}, SourceDomains(spec))
  BY OfTheRegistry DEF InRanges
<1> QED BY <1>1, ByteHasOneDomain

LEMMA EventsOfAByte ==
  ASSUME NEW spec, ValidSpec(spec),
         NEW i \in DOMAIN spec.methods, NEW j \in DOMAIN spec.events,
         HighByte(spec.methods[i].id) = HighByte(spec.events[j].id)
  PROVE  spec.methods[i].domain = spec.events[j].domain
<1>1. /\ InItsRange(spec.methods[i], {}, SourceDomains(spec))
      /\ InItsRange(spec.events[j], {}, SourceDomains(spec))
  BY OfTheRegistry DEF InRanges
<1> QED BY <1>1, ByteHasOneDomain

(* And a domain one byte, as far as it has methods.                        *)
LEMMA DomainHasOneByte ==
  ASSUME NEW model, ValidProtocol(model), NEW i \in DOMAIN model.methods
  PROVE  /\ \A j \in DOMAIN model.methods :
              model.methods[j].domain = model.methods[i].domain
                => HighByte(model.methods[j].id) = HighByte(model.methods[i].id)
         /\ \A j \in DOMAIN model.events :
              model.events[j].domain = model.methods[i].domain
                => HighByte(model.events[j].id) = HighByte(model.methods[i].id)
  BY OfTheProtocol DEF DomainIdAlignment, ToSet

-----------------------------------------------------------------------------
(* Dispatch of an accepted contract is unambiguous, whatever the contract. *)
LEMMA OneMethodAnswers ==
  ASSUME NEW spec, ValidSpec(spec), ValidProtocol(Build(spec)),
         NEW i \in DOMAIN Build(spec).methods, NEW j \in DOMAIN Build(spec).methods,
         HighByte(Build(spec).methods[j].id) = HighByte(Build(spec).methods[i].id)
  PROVE  /\ Build(spec).methods[i].domain = Build(spec).methods[j].domain
         /\ Build(spec).methods[i].bit = Build(spec).methods[j].bit => i = j
<1>1. i \in DOMAIN spec.methods /\ j \in DOMAIN spec.methods
  BY ListsAreAsLong
<1>2. Build(spec).methods[i].domain = Build(spec).methods[j].domain
  BY <1>1, MethodsAreKept, MethodsOfAByte
<1> QED BY <1>2, OfTheProtocol DEF ProtocolBits

LEMMA MasksAreFull ==
  ASSUME NEW model, ValidProtocol(model), NEW i \in DOMAIN model.methods
  PROVE  /\ model.methods[i].bit >= 0
         /\ \A b \in 0 .. model.methods[i].bit :
              \E j \in DOMAIN model.methods :
                /\ HighByte(model.methods[j].id) = HighByte(model.methods[i].id)
                /\ model.methods[j].bit = b
<1>1. model.methods[i].bit >= 0
  BY OfTheProtocol DEF ProtocolBits
<1>2. ASSUME NEW b \in 0 .. model.methods[i].bit
      PROVE  \E j \in DOMAIN model.methods :
               /\ HighByte(model.methods[j].id) = HighByte(model.methods[i].id)
               /\ model.methods[j].bit = b
  <2>1. b \in Bits(model.methods, model.methods[i].domain)
    BY OfTheProtocol DEF ProtocolBits, BitsContiguous
  <2>2. PICK j \in DOMAIN model.methods :
               /\ model.methods[j].domain = model.methods[i].domain
               /\ model.methods[j].bit = b
    BY <2>1 DEF Bits
  <2> QED BY <2>2, DomainHasOneByte
<1> QED BY <1>1, <1>2

LEMMA EventsAreUnderTheirMethods ==
  ASSUME NEW spec, ValidSpec(spec), ValidProtocol(Build(spec)),
         NEW i \in DOMAIN Build(spec).methods, NEW j \in DOMAIN Build(spec).events
  PROVE  Build(spec).methods[i].domain = Build(spec).events[j].domain
           <=> HighByte(Build(spec).methods[i].id) = HighByte(Build(spec).events[j].id)
<1>1. i \in DOMAIN spec.methods /\ j \in DOMAIN spec.events
  BY ListsAreAsLong
<1>2. ASSUME HighByte(Build(spec).methods[i].id) = HighByte(Build(spec).events[j].id)
      PROVE  Build(spec).methods[i].domain = Build(spec).events[j].domain
  BY <1>1, <1>2, MethodsAreKept, EventsAreKept, EventsOfAByte
<1> QED BY <1>2, DomainHasOneByte

(* In an accepted tree a byte and a bit lead to one method of one domain,  *)
(* every mask is full from bit 0, and the events of a domain are under the *)
(* byte of its methods (validator.ts with protocolValidator.ts).           *)
THEOREM AcceptedDispatchIsUnambiguous == Spec => []DispatchIsUnambiguous
<1>1. DispatchIsUnambiguous
  <2> SUFFICES ASSUME SourcesAccepted(tree) PROVE DispatchIsUnambiguous
    BY DEF DispatchIsUnambiguous
  <2> DEFINE spec == Load(tree)
             model == Build(spec)
             At(b) == {i \in DOMAIN model.methods : HighByte(model.methods[i].id) = b}
  <2>1. ValidSpec(spec) /\ ValidProtocol(model)
    BY Accepted
  <2>2. \A i \in DOMAIN model.methods : \A j \in At(HighByte(model.methods[i].id)) :
          /\ model.methods[i].domain = model.methods[j].domain
          /\ model.methods[i].bit = model.methods[j].bit => i = j
    BY <2>1, OneMethodAnswers
  <2>3. \A i \in DOMAIN model.methods :
          /\ model.methods[i].bit >= 0
          /\ \A b \in 0 .. model.methods[i].bit :
               \E j \in At(HighByte(model.methods[i].id)) : model.methods[j].bit = b
    BY <2>1, MasksAreFull
  <2>4. \A m \in ToSet(model.methods) : \A e \in ToSet(model.events) :
          m.domain = e.domain <=> HighByte(m.id) = HighByte(e.id)
    BY <2>1, EventsAreUnderTheirMethods DEF ToSet
  <2> QED BY <2>2, <2>3, <2>4 DEF DispatchIsUnambiguous
<1> QED BY <1>1, PTL

-----------------------------------------------------------------------------
(* The copy of the rules for the stream header that the documents' check   *)
(* has is the rule: the old names that it refuses are others than those    *)
(* that it demands (protocolDocsValidator.ts:60-81).                       *)
LEMMA HeaderCopy ==
  ASSUME NEW header
  PROVE  DocsStreamHeader(header) <=> StreamHeader(header)
<1> DEFINE f == header.fields
           expected == << <<"streamId", "uint32">>, <<"seqId", "uint32">>, <<"cursor", "uint64">> >>
<1>1. Len(expected) = 3 /\ 1 .. 3 = {1, 2, 3}
  OBVIOUS
<1>2. /\ expected[1] = <<"streamId", "uint32">>
      /\ expected[2] = <<"seqId", "uint32">>
      /\ expected[3] = <<"cursor", "uint64">>
  OBVIOUS
<1>3. \A i \in {1, 2, 3} : expected[i][1] \notin {"seq", "position", "chunkLength", "flags"}
  BY <1>2
<1> HIDE DEF expected
<1>4. (\A i \in 1 .. Len(expected) : f[i] = expected[i])
        <=> f[1] = expected[1] /\ f[2] = expected[2] /\ f[3] = expected[3]
  BY <1>1
<1>5. Len(f) = 3 /\ (\A i \in {1, 2, 3} : f[i] = expected[i]) =>
        \A i \in 1 .. Len(f) : f[i][1] \notin {"seq", "position", "chunkLength", "flags"}
  BY <1>1, <1>3
<1> QED
  BY <1>1, <1>2, <1>4, <1>5 DEF DocsStreamHeader, StreamHeader, expected

(* The same of the control opcodes (protocolDocsValidator.ts:83-102).      *)
LEMMA ControlCopy ==
  ASSUME NEW control
  PROVE  DocsControl(control) <=> Phase1Opcodes(control)
  BY DEF DocsControl, Phase1Opcodes, RequiredOpcodes, LaterOpcodes

(* And of the method masks (protocolDocsValidator.ts:104-112).             *)
LEMMA MasksCopy ==
  ASSUME NEW model
  PROVE  DocsMethodMasks(model) <=> MethodMasks(model)
  BY DEF DocsMethodMasks, MethodMasks

(* The documents' check has a copy of rules of the IR's check, in its own  *)
(* words; of every IR the copy accepts what the rules accept, and so it    *)
(* refuses no valid IR for anything but what the documents do not say      *)
(* (protocolDocsValidator.ts:60-155).                                      *)
THEOREM DocumentsRepeatTheRules == Spec => []CopiesAgree
<1>1. ASSUME NEW model, NEW docs
      PROVE  /\ DocsAgree(model, docs) <=>
                  /\ DocFacts \subseteq docs
                  /\ model.wire.byteOrder = "big-endian" /\ model.wire.byteOrderAlias = "network"
                  /\ StreamHeader(model.header)
                  /\ Phase1Opcodes(model.control)
                  /\ MethodMasks(model)
             /\ ValidProtocol(model) => (DocsAgree(model, docs) <=> DocFacts \subseteq docs)
  <2>1. /\ DocsStreamHeader(model.header) <=> StreamHeader(model.header)
        /\ DocsControl(model.control) <=> Phase1Opcodes(model.control)
        /\ DocsMethodMasks(model) <=> MethodMasks(model)
    BY HeaderCopy, ControlCopy, MasksCopy
  <2>2. ValidProtocol(model) =>
          /\ model.wire.byteOrder = "big-endian" /\ model.wire.byteOrderAlias = "network"
          /\ StreamHeader(model.header)
          /\ Phase1Opcodes(model.control)
          /\ MethodMasks(model)
    BY DEF ValidProtocol, WireByteOrder, ControlOpcodes
  <2> QED
    BY <2>1, <2>2 DEF DocsAgree
<1>2. CopiesAgree
  BY <1>1 DEF CopiesAgree
<1> QED BY <1>2, PTL

-----------------------------------------------------------------------------
(* The names that are left of the schemas: Empty and those with fields.    *)
Kept(spec) == {s.name : s \in {t \in ToSet(spec.schemas) : t.fields # <<>>}} \cup {"Empty"}

LEMMA SchemasAreKept ==
  ASSUME NEW spec
  PROVE  Names(Build(spec).schemas) = Kept(spec)
<1> DEFINE schemas == spec.schemas
           filled == {i \in DOMAIN schemas : schemas[i].fields # <<>>}
<1>1. Build(spec).schemas = BuildSchemas(schemas)
  BY DEF Build
<1>2. DOMAIN BuildSchemas(schemas) = {"Empty"} \cup {schemas[i].name : i \in filled}
  BY DEF BuildSchemas
<1>3. \A name \in DOMAIN BuildSchemas(schemas) : BuildSchemas(schemas)[name].name = name
  BY DEF BuildSchemas
<1>4. Names(BuildSchemas(schemas)) = DOMAIN BuildSchemas(schemas)
  BY <1>3 DEF Names
<1>5. {schemas[i].name : i \in filled}
        = {s.name : s \in {t \in ToSet(schemas) : t.fields # <<>>}}
  BY DEF ToSet
<1> QED BY <1>1, <1>2, <1>4, <1>5 DEF Kept

(* A name that is in the IR and is not reserved in the registry is one of  *)
(* something alive: the builder turns no status into reserved, and from    *)
(* reserved.                                                               *)
LEMMA NothingComesAlive ==
  ASSUME NEW status
  PROVE  ProtocolStatus(status) = "reserved" => status = "reserved"
  BY DEF ProtocolStatus

LEMMA EventIsAlive ==
  ASSUME NEW spec, NEW name \in Names(Build(spec).events), name \notin Reserved(spec.events)
  PROVE  \E e \in ToSet(Build(spec).events) : e.name = name /\ e.status # "reserved"
<1>1. PICK i \in DOMAIN spec.events : Build(spec).events[i].name = name
  BY ListsAreAsLong DEF Names
<1>2. /\ Build(spec).events[i].name = spec.events[i].name
      /\ Build(spec).events[i].status = ProtocolStatus(spec.events[i].status)
  BY <1>1 DEF Build, EventToProtocol
<1>3. spec.events[i].status # "reserved"
  BY <1>1, <1>2 DEF Reserved, ToSet
<1> QED BY <1>1, <1>2, <1>3, ListsAreAsLong, NothingComesAlive DEF ToSet

LEMMA ErrorIsAlive ==
  ASSUME NEW spec, NEW name \in Names(Build(spec).errors), name \notin Reserved(spec.errors)
  PROVE  \E e \in ToSet(Build(spec).errors) : e.name = name /\ e.status # "reserved"
<1>1. PICK i \in DOMAIN spec.errors : Build(spec).errors[i].name = name
  BY ListsAreAsLong DEF Names
<1>2. /\ Build(spec).errors[i].name = spec.errors[i].name
      /\ Build(spec).errors[i].status = ProtocolStatus(spec.errors[i].status)
  BY <1>1 DEF Build, ErrorToProtocol
<1>3. spec.errors[i].status # "reserved"
  BY <1>1, <1>2 DEF Reserved, ToSet
<1> QED BY <1>1, <1>2, <1>3, ListsAreAsLong, NothingComesAlive DEF ToSet

LEMMA CapabilityIsAlive ==
  ASSUME NEW spec, NEW name \in Names(Build(spec).capabilities),
         name \notin Reserved(spec.capabilities)
  PROVE  \E c \in ToSet(Build(spec).capabilities) : c.name = name /\ c.status # "reserved"
<1>1. PICK i \in DOMAIN spec.capabilities : Build(spec).capabilities[i].name = name
  BY ListsAreAsLong DEF Names
<1>2. /\ Build(spec).capabilities[i].name = spec.capabilities[i].name
      /\ Build(spec).capabilities[i].status = ProtocolStatus(spec.capabilities[i].status)
  BY <1>1 DEF Build, CapabilityToProtocol
<1>3. spec.capabilities[i].status # "reserved"
  BY <1>1, <1>2 DEF Reserved, ToSet
<1> QED BY <1>1, <1>2, <1>3, ListsAreAsLong, NothingComesAlive DEF ToSet

Live(model) ==
  {i.name : i \in {j \in ToSet(model.events) \cup ToSet(model.errors)
                              \cup ToSet(model.capabilities) : j.status # "reserved"}}

LEMMA MethodsSpeakOfTheLiving ==
  ASSUME NEW spec, ValidSpec(spec), ValidProtocol(Build(spec)),
         NEW i \in DOMAIN Build(spec).methods
  PROVE  LET m == Build(spec).methods[i]
         IN m.events \cup m.errors \cup m.capabilities \subseteq Live(Build(spec))
<1> DEFINE m == Build(spec).methods[i]
<1>1. i \in DOMAIN spec.methods
  BY ListsAreAsLong
<1>2. /\ m.events \subseteq Names(Build(spec).events)
      /\ m.errors \subseteq Names(Build(spec).errors)
      /\ m.capabilities \subseteq Names(Build(spec).capabilities)
  BY OfTheProtocol DEF MethodReferences, ToSet
<1>3. /\ m.events \cap Reserved(spec.events) = {}
      /\ m.errors \cap Reserved(spec.errors) = {}
      /\ m.capabilities \cap Reserved(spec.capabilities) = {}
  BY <1>1, OfTheRegistry, MethodsAreKept DEF NoReservedReferences, ToSet
<1> HIDE DEF m
<1>4. m.events \subseteq Live(Build(spec))
  BY <1>2, <1>3, EventIsAlive DEF Live
<1>5. m.errors \subseteq Live(Build(spec))
  BY <1>2, <1>3, ErrorIsAlive DEF Live
<1>6. m.capabilities \subseteq Live(Build(spec))
  BY <1>2, <1>3, CapabilityIsAlive DEF Live
<1> QED BY <1>4, <1>5, <1>6 DEF m

(* Whatever an accepted method or event speaks of is in the protocol, and  *)
(* what a method names is not reserved (NoReservedReferences of the        *)
(* registry's check with MethodReferences, EventReferences and             *)
(* SchemaDefinitions of the IR's).                                         *)
THEOREM AcceptedReferencesResolve == Spec => []ReferencesResolve
<1>1. ReferencesResolve
  <2> SUFFICES ASSUME SourcesAccepted(tree) PROVE ReferencesResolve
    BY DEF ReferencesResolve
  <2> DEFINE spec == Load(tree)
             model == Build(spec)
  <2>1. ValidSpec(spec) /\ ValidProtocol(model)
    BY Accepted
  <2>2. Names(model.schemas) = Kept(spec)
    BY SchemasAreKept
  <2>3. \A m \in ToSet(model.methods) :
          m.events \cup m.errors \cup m.capabilities \subseteq Live(model)
    BY <2>1, MethodsSpeakOfTheLiving DEF ToSet
  <2>4. \A m \in ToSet(model.methods) : m.request \in Kept(spec) /\ m.response \in Kept(spec)
    BY <2>1, <2>2, OfTheProtocol DEF MethodReferences
  <2>5. \A e \in ToSet(model.events) : e.payload \in Kept(spec)
    BY <2>1, <2>2, OfTheProtocol DEF EventReferences
  <2>6. \A s \in ToSet(model.schemas) :
          s.kind = "object" =>
            \A f \in ToSet(s.fields) : {f.schema, f.itemSchema} \subseteq Kept(spec) \cup {None}
    BY <2>1, <2>2, OfTheProtocol DEF SchemaDefinitions, ProtocolFieldKnown, KnownSchema
  <2> HIDE DEF spec, model
  <2> QED BY <2>3, <2>4, <2>5, <2>6 DEF ReferencesResolve, Kept, Live, spec, model
<1> QED BY <1>1, PTL

-----------------------------------------------------------------------------
(* A key that two entries share is seen twice by the loop: of the places   *)
(* before the second that have it, the last is the one remembered.         *)
LEMMA SharedKeyIsSeen ==
  ASSUME NEW items, IsList(items), NEW keys,
         \A k \in DOMAIN items : items[k].name \notin {<<>>, None},
         ~Repeats(items, keys),
         NEW i \in DOMAIN items, NEW j \in DOMAIN items, i < j
  PROVE  keys[i] # keys[j]
<1> SUFFICES ASSUME keys[i] = keys[j] PROVE FALSE
  OBVIOUS
<1>1. DOMAIN items = 1 .. Len(items) /\ Len(items) \in Nat
  BY ListFacts
<1> DEFINE T == {d \in Nat : d > 0 /\ j - d \in 1 .. Len(items) /\ keys[j - d] = keys[j]}
<1>2. j - i \in Nat /\ j - i > 0 /\ j - (j - i) = i
  BY <1>1
<1>3. T # {}
  BY <1>1, <1>2
<1>4. PICK d \in T : \A e \in T : ~(e < d)
  BY <1>3, LeastNatural
<1> DEFINE l == j - d
<1>5. l \in DOMAIN items /\ l < j /\ keys[l] = keys[j]
  BY <1>1, <1>4
<1>6. ASSUME NEW k \in (l + 1) .. (j - 1) PROVE keys[k] # keys[j]
  <2>1. j - k \in Nat /\ j - k > 0 /\ j - k < d /\ j - (j - k) = k /\ k \in 1 .. Len(items)
    BY <1>1, <1>4
  <2> QED BY <1>4, <2>1
<1> HIDE DEF l
<1> QED BY <1>5, <1>6 DEF Repeats

(* Where all have names, the loop lets no key pass twice.                  *)
LEMMA SharedIsSame ==
  ASSUME NEW items, IsList(items), NEW keys,
         \A k \in DOMAIN items : items[k].name \notin {<<>>, None},
         ~Repeats(items, keys),
         NEW i \in DOMAIN items, NEW j \in DOMAIN items, keys[i] = keys[j]
  PROVE  i = j
<1>1. DOMAIN items = 1 .. Len(items) /\ Len(items) \in Nat
  BY ListFacts
<1>2. ~(i < j)
  BY SharedKeyIsSeen
<1>3. ~(j < i)
  BY SharedKeyIsSeen
<1> QED BY <1>1, <1>2, <1>3

-----------------------------------------------------------------------------
(* What the builder copies is as unique and as contiguous as it was.       *)
LEMMA UniqueSurvives ==
  ASSUME NEW items, NEW built, IsList(items), DOMAIN built = DOMAIN items,
         \A i \in DOMAIN items : built[i].id = items[i].id /\ built[i].name = items[i].name,
         UniqueIds(items), UniqueNames(items)
  PROVE  UniqueInProtocol(built)
<1>1. DOMAIN items = 1 .. Len(items) /\ Len(items) \in Nat
  BY ListFacts
<1>2. ~Repeats(built, Column(built, "id"))
  <2>1. Column(built, "id") = Column(items, "id")
    BY DEF Column
  <2>2. ~Repeats(items, Column(items, "id"))
    BY DEF UniqueIds
  <2> DEFINE keys == Column(items, "id")
  <2> HIDE DEF keys
  <2>3. ~Repeats(built, keys)
    BY <2>2 DEF Repeats, keys
  <2> QED BY <2>1, <2>3 DEF keys
<1>3. ~Repeats(built, Column(built, "name"))
  BY <1>1 DEF UniqueNames, Repeats, Column
<1> QED BY <1>2, <1>3 DEF UniqueInProtocol

LEMMA BitsSurvive ==
  ASSUME NEW items, NEW built, IsList(items), DOMAIN built = DOMAIN items,
         \A i \in DOMAIN items : built[i].domain = items[i].domain /\ built[i].bit = items[i].bit,
         \A i \in DOMAIN items : items[i].name \notin {<<>>, None},
         DomainBits(items)
  PROVE  ProtocolBits(built)
<1> DEFINE keys == [i \in DOMAIN items |-> <<items[i].domain, items[i].bit>>]
<1>1. ~Repeats(items, keys)
  BY DEF DomainBits
<1>2. ASSUME NEW i \in DOMAIN items, NEW j \in DOMAIN items,
             built[i].domain = built[j].domain, built[i].bit = built[j].bit
      PROVE  i = j
  <2>1. keys[i] = keys[j]
    BY <1>2
  <2> HIDE DEF keys
  <2> QED BY <1>1, <2>1, SharedIsSame
<1>3. \A i \in DOMAIN built : built[i].bit >= 0
  BY DEF DomainBits
<1>4. BitsContiguous(built)
  BY DEF DomainBits, BitsContiguous, Bits
<1> QED BY <1>2, <1>3, <1>4 DEF ProtocolBits

LEMMA RegistryBytesAreOfTheMap ==
  ASSUME NEW item, NEW domains, InItsRange(item, {}, domains), IsRegistryHighByte(HighByte(item.id))
  PROVE  item.domain = DomainOf(domains, HighByte(item.id))
  BY DEF InItsRange, IsRegistryHighByte, VendorBytes, LegacyByte

(* The map of the IR has one domain for each byte: methods and events have *)
(* that of the registry's map, and an error only speaks for a byte that    *)
(* none of them and no error before it has.                                *)
LEMMA NoConflictAppears ==
  ASSUME NEW spec, ListedSpec(spec), ValidSpec(spec)
  PROVE  ~Conflicts(ProtocolDomains(Build(spec)))
<1> DEFINE model == Build(spec)
           domains == SourceDomains(spec)
           taken == DomainPairs(model.methods) \cup DomainPairs(model.events)
           byte(i) == HighByte(model.errors[i].id)
           First(i) == \A j \in 1 .. (i - 1) : byte(j) # byte(i)
           late == {i \in DOMAIN model.errors :
                      IsRegistryHighByte(byte(i)) /\ ~HasDomain(taken, byte(i)) /\ First(i)}
<1>1. ProtocolDomains(model) = taken \cup {<<byte(i), model.errors[i].category>> : i \in late}
  BY DEF ProtocolDomains
<1>2. \A p \in DomainPairs(model.methods) : p[2] = DomainOf(domains, p[1])
  <2> SUFFICES ASSUME NEW p \in DomainPairs(model.methods) PROVE p[2] = DomainOf(domains, p[1])
    OBVIOUS
  <2>1. PICK i \in DOMAIN model.methods :
              /\ IsRegistryHighByte(HighByte(model.methods[i].id))
              /\ p = <<HighByte(model.methods[i].id), model.methods[i].domain>>
    BY DEF DomainPairs, ToSet
  <2>2. /\ i \in DOMAIN spec.methods
        /\ model.methods[i].id = spec.methods[i].id
        /\ model.methods[i].domain = spec.methods[i].domain
    BY ListsAreAsLong, MethodsAreKept
  <2>3. InItsRange(spec.methods[i], {}, domains)
    BY <2>2, OfTheRegistry DEF InRanges
  <2> HIDE DEF model, domains
  <2> QED BY <2>1, <2>2, <2>3, RegistryBytesAreOfTheMap
<1>3. \A p \in DomainPairs(model.events) : p[2] = DomainOf(domains, p[1])
  <2> SUFFICES ASSUME NEW p \in DomainPairs(model.events) PROVE p[2] = DomainOf(domains, p[1])
    OBVIOUS
  <2>1. PICK i \in DOMAIN model.events :
              /\ IsRegistryHighByte(HighByte(model.events[i].id))
              /\ p = <<HighByte(model.events[i].id), model.events[i].domain>>
    BY DEF DomainPairs, ToSet
  <2>2. /\ i \in DOMAIN spec.events
        /\ model.events[i].id = spec.events[i].id
        /\ model.events[i].domain = spec.events[i].domain
    BY ListsAreAsLong, EventsAreKept
  <2>3. InItsRange(spec.events[i], {}, domains)
    BY <2>2, OfTheRegistry DEF InRanges
  <2> HIDE DEF model, domains
  <2> QED BY <2>1, <2>2, <2>3, RegistryBytesAreOfTheMap
<1>4. DOMAIN model.errors = 1 .. Len(spec.errors) /\ Len(spec.errors) \in Nat
  BY ListsAreAsLong, ListFacts DEF ListedSpec
<1> HIDE DEF model, domains, taken
<1>5. ASSUME NEW i \in late, NEW j \in late, byte(i) = byte(j) PROVE i = j
  BY <1>4, <1>5
<1>6. \A i \in late : \A p \in taken : p[1] # byte(i)
  BY DEF HasDomain
<1> SUFFICES ASSUME NEW p \in ProtocolDomains(model), NEW q \in ProtocolDomains(model),
                    p[1] = q[1]
             PROVE  p[2] = q[2]
  BY DEF Conflicts, model
<1>7. \A r \in ProtocolDomains(model) :
        r \in taken \/ \E i \in late : r = <<byte(i), model.errors[i].category>>
  BY <1>1
<1>8. CASE p \in taken /\ q \in taken
  BY <1>2, <1>3, <1>8 DEF taken
<1>9. CASE p \notin taken /\ q \notin taken
  BY <1>5, <1>7, <1>9
<1>10. CASE p \in taken /\ q \notin taken
  BY <1>6, <1>7, <1>10
<1>11. CASE p \notin taken /\ q \in taken
  BY <1>6, <1>7, <1>11
<1> QED BY <1>8, <1>9, <1>10, <1>11

(* A schema that the registry knew is in the IR, Empty for an empty one.   *)
LEMMA RefsAreKept ==
  ASSUME NEW spec, NEW name, KnownSchema(name, Names(spec.schemas))
  PROVE  SchemaRef(name, EmptySchemaNames(spec.schemas)) \in Names(Build(spec).schemas)
<1> DEFINE empty == EmptySchemaNames(spec.schemas)
<1>1. "Empty" \in Kept(spec)
  BY DEF Kept
<1>2. ASSUME name \notin empty \cup {None} PROVE name \in Kept(spec)
  <2>1. PICK i \in DOMAIN spec.schemas : spec.schemas[i].name = name
    BY <1>2 DEF KnownSchema, Names
  <2>2. spec.schemas[i].fields # <<>>
    BY <1>2, <2>1 DEF EmptySchemaNames, ToSet
  <2> QED BY <2>1, <2>2 DEF Kept, ToSet
<1> QED BY <1>1, <1>2, SchemasAreKept DEF SchemaRef

LEMMA NothingAtNoKey ==
  ASSUME NEW r, IsMap(r), DOMAIN r = {}
  PROVE  r = <<>>
<1>1. r = [k \in {} |-> r[k]]
  BY DEF IsMap
<1>2. r \in [1 .. 0 -> {}]
  BY <1>1
<1>3. r \in Seq({}) /\ Len(r) = 0
  BY <1>2
<1> QED BY <1>3

(* The builder drops what has no fields, so that only its own Empty can be *)
(* without.                                                                *)
LEMMA EmptyIsTheOnlyEmpty ==
  ASSUME NEW spec, ListedSpec(spec), ValidSpec(spec),
         \A s \in ToSet(spec.schemas) : s.name # "Empty"
  PROVE  EmptySchemaUsage(Build(spec))
<1> DEFINE schemas == spec.schemas
           built == BuildSchemas(schemas)
           filled == {i \in DOMAIN schemas : schemas[i].fields # <<>>}
<1>1. Build(spec).schemas = built
  BY DEF Build
<1>2. built["Empty"] = [name |-> "Empty", kind |-> "object", fields |-> <<>>]
      /\ "Empty" \in DOMAIN built
  BY DEF BuildSchemas, ToSet
<1>3. ASSUME NEW name \in DOMAIN built, name # "Empty"
      PROVE  built[name].fields # <<>>
  <2>1. PICK i \in filled : schemas[i].name = name
    BY <1>3 DEF BuildSchemas
  <2> DEFINE Latest == CHOOSE k \in filled :
                         /\ schemas[k].name = name
                         /\ \A j \in filled : schemas[j].name = name => j <= k
  <2>2. \A j \in filled : schemas[j].name = name => j = i
    BY <2>1 DEF ValidSpec, UniqueNames
  <2>3. i \in Nat
    BY ListFacts DEF ListedSpec
  <2>4. \E k \in filled :
          /\ schemas[k].name = name
          /\ \A j \in filled : schemas[j].name = name => j <= k
    BY <2>1, <2>2, <2>3
  <2>5. Latest \in filled
    BY <2>4
  <2>6. built[name].fields = [k \in DOMAIN schemas[Latest].fields |->
                                BuildField(schemas[Latest].fields[k])]
    BY <2>1 DEF BuildSchemas
  <2> HIDE DEF Latest
  <2>7. schemas[Latest].fields # <<>> /\ IsMap(schemas[Latest].fields)
    BY <2>5 DEF ListedSpec, ToSet
  <2>8. DOMAIN schemas[Latest].fields # {}
    BY <2>7, NothingAtNoKey
  <2> QED BY <2>6, <2>8
<1>4. \A name \in DOMAIN built : built[name].name = name
  BY DEF BuildSchemas
<1> HIDE DEF built
<1>5. {s.name : s \in {t \in ToSet(built) : t.fields = <<>>}} \ {"Empty"} = {}
  BY <1>3, <1>4 DEF ToSet
<1>6. \E s \in ToSet(built) : s.name = "Empty" /\ s.kind = "object" /\ s.fields = <<>>
  BY <1>2 DEF ToSet
<1> QED BY <1>1, <1>5, <1>6 DEF EmptySchemaUsage

LEMMA BuildLosesNothing ==
  ASSUME NEW spec, ListedSpec(spec), ValidSpec(spec), AllNamed(spec)
  PROVE  LET model == Build(spec)
             types == Names(model.schemas)
         IN /\ ~Conflicts(ProtocolDomains(model))
            /\ UniqueInProtocol(model.methods) /\ UniqueInProtocol(model.events)
            /\ UniqueInProtocol(model.errors) /\ UniqueInProtocol(model.capabilities)
            /\ UniqueNames(model.schemas)
            /\ ProtocolBits(model.methods) /\ ProtocolBits(model.events)
            /\ \A m \in ToSet(model.methods) : m.request \in types /\ m.response \in types
            /\ \A e \in ToSet(model.events) : e.payload \in types
            /\ (EmptySchemaUsage(model) \/ \E s \in ToSet(spec.schemas) : s.name = "Empty")
<1> DEFINE model == Build(spec)
           types == Names(model.schemas)
<1>1. ~Conflicts(ProtocolDomains(model))
  BY NoConflictAppears
<1>2. UniqueInProtocol(model.methods)
  <2>1. \A i \in DOMAIN spec.methods :
          model.methods[i].id = spec.methods[i].id /\ model.methods[i].name = spec.methods[i].name
    BY DEF Build, MethodToProtocol
  <2>2. DOMAIN model.methods = DOMAIN spec.methods
    BY ListsAreAsLong
  <2> HIDE DEF model
  <2> QED BY <2>1, <2>2, UniqueSurvives DEF ValidSpec, ListedSpec
<1>3. UniqueInProtocol(model.events)
  <2>1. \A i \in DOMAIN spec.events :
          model.events[i].id = spec.events[i].id /\ model.events[i].name = spec.events[i].name
    BY DEF Build, EventToProtocol
  <2>2. DOMAIN model.events = DOMAIN spec.events
    BY ListsAreAsLong
  <2> HIDE DEF model
  <2> QED BY <2>1, <2>2, UniqueSurvives DEF ValidSpec, ListedSpec
<1>4. UniqueInProtocol(model.errors)
  <2>1. \A i \in DOMAIN spec.errors :
          model.errors[i].id = spec.errors[i].id /\ model.errors[i].name = spec.errors[i].name
    BY DEF Build, ErrorToProtocol
  <2>2. DOMAIN model.errors = DOMAIN spec.errors
    BY ListsAreAsLong
  <2> HIDE DEF model
  <2> QED BY <2>1, <2>2, UniqueSurvives DEF ValidSpec, ListedSpec
<1>5. UniqueInProtocol(model.capabilities)
  <2>1. \A i \in DOMAIN spec.capabilities :
          /\ model.capabilities[i].id = spec.capabilities[i].id
          /\ model.capabilities[i].name = spec.capabilities[i].name
    BY DEF Build, CapabilityToProtocol
  <2>2. DOMAIN model.capabilities = DOMAIN spec.capabilities
    BY ListsAreAsLong
  <2> HIDE DEF model
  <2> QED BY <2>1, <2>2, UniqueSurvives DEF ValidSpec, ListedSpec
<1>6. UniqueNames(model.schemas)
  <2>1. model.schemas = BuildSchemas(spec.schemas)
    BY DEF Build
  <2> DEFINE built == BuildSchemas(spec.schemas)
  <2>2. \A name \in DOMAIN built : built[name].name = name
    BY DEF BuildSchemas
  <2> HIDE DEF built
  <2>3. UniqueNames(built)
    BY <2>2 DEF UniqueNames
  <2> QED BY <2>1, <2>3 DEF built
<1>7. ProtocolBits(model.methods)
  <2>1. /\ DOMAIN model.methods = DOMAIN spec.methods
        /\ \A i \in DOMAIN spec.methods :
             /\ model.methods[i].domain = spec.methods[i].domain
             /\ model.methods[i].bit = spec.methods[i].bit
    BY ListsAreAsLong, MethodsAreKept
  <2>2. \A i \in DOMAIN spec.methods : spec.methods[i].name \notin {<<>>, None}
    BY DEF AllNamed, ToSet
  <2> HIDE DEF model
  <2> QED BY <2>1, <2>2, BitsSurvive DEF ValidSpec, ListedSpec
<1>8. ProtocolBits(model.events)
  <2>1. /\ DOMAIN model.events = DOMAIN spec.events
        /\ \A i \in DOMAIN spec.events :
             /\ model.events[i].domain = spec.events[i].domain
             /\ model.events[i].bit = spec.events[i].bit
    BY DEF Build, EventToProtocol
  <2>2. \A i \in DOMAIN spec.events : spec.events[i].name \notin {<<>>, None}
    BY DEF AllNamed, ToSet
  <2> HIDE DEF model
  <2> QED BY <2>1, <2>2, BitsSurvive DEF ValidSpec, ListedSpec
<1>9. ASSUME NEW i \in DOMAIN spec.methods
      PROVE  model.methods[i].request \in types /\ model.methods[i].response \in types
  <2>1. /\ KnownSchema(spec.methods[i].request, Names(spec.schemas))
        /\ KnownSchema(spec.methods[i].response, Names(spec.schemas))
    BY DEF ValidSpec, SchemasKnown, ToSet
  <2>2. /\ model.methods[i].request
             = SchemaRef(spec.methods[i].request, EmptySchemaNames(spec.schemas))
        /\ model.methods[i].response
             = SchemaRef(spec.methods[i].response, EmptySchemaNames(spec.schemas))
    BY DEF Build, MethodToProtocol
  <2> QED BY <2>1, <2>2, RefsAreKept
<1>10. ASSUME NEW i \in DOMAIN spec.events
       PROVE  model.events[i].payload \in types
  <2>1. KnownSchema(spec.events[i].payload, Names(spec.schemas))
    BY DEF ValidSpec, SchemasKnown, ToSet
  <2>2. model.events[i].payload
          = SchemaRef(spec.events[i].payload, EmptySchemaNames(spec.schemas))
    BY DEF Build, EventToProtocol
  <2> QED BY <2>1, <2>2, RefsAreKept
<1>11. /\ \A m \in ToSet(model.methods) : m.request \in types /\ m.response \in types
       /\ \A e \in ToSet(model.events) : e.payload \in types
  BY <1>9, <1>10, ListsAreAsLong DEF ToSet
<1>12. EmptySchemaUsage(model) \/ \E s \in ToSet(spec.schemas) : s.name = "Empty"
  BY EmptyIsTheOnlyEmpty
<1> HIDE DEF model, types
<1>13. /\ ~Conflicts(ProtocolDomains(model))
       /\ UniqueInProtocol(model.methods) /\ UniqueInProtocol(model.events)
       /\ UniqueInProtocol(model.errors) /\ UniqueInProtocol(model.capabilities)
       /\ UniqueNames(model.schemas)
       /\ ProtocolBits(model.methods) /\ ProtocolBits(model.events)
       /\ \A m \in ToSet(model.methods) : m.request \in types /\ m.response \in types
       /\ \A e \in ToSet(model.events) : e.payload \in types
       /\ (EmptySchemaUsage(model) \/ \E s \in ToSet(spec.schemas) : s.name = "Empty")
  BY <1>1, <1>2, <1>3, <1>4, <1>5, <1>6, <1>7, <1>8, <1>11, <1>12
<1> QED BY <1>13 DEF model, types

(* Of an accepted registry in which everything has a name, the IR passes   *)
(* the checks that repeat those of the registry: no conflict of bytes, no  *)
(* duplicate, no gap among the bits, no dangling schema, no empty one but  *)
(* Empty (protocolBuilder.ts between validator.ts and                      *)
(* protocolValidator.ts).                                                  *)
THEOREM BuildingLosesNothing == Spec => []BuildKeepsWhatWasChecked
<1>1. TypeOK => BuildKeepsWhatWasChecked
  <2> SUFFICES ASSUME TypeOK, RegistryAccepted(tree), AllNamed(Load(tree))
               PROVE  BuildKeepsWhatWasChecked
    BY DEF BuildKeepsWhatWasChecked
  <2> DEFINE spec == Load(tree)
  <2>1. ListedSpec(spec) /\ ValidSpec(spec)
    BY LoadedIsListed DEF TypeOK, RegistryAccepted
  <2> QED BY <2>1, BuildLosesNothing DEF BuildKeepsWhatWasChecked
<1> QED BY <1>1, TreesStayListed, PTL
================================================================================
