----------------------------- MODULE DataProofs ------------------------------
(***************************************************************************)
(* Facts on the data that the components of the runtime share: bounded     *)
(* queues (AxtpModel), how often a value occurs in one, and the bytes of   *)
(* frames and payloads (FrameCodec): what one side encodes the other       *)
(* decodes, for every payload, every id and whatever bytes follow, with    *)
(* any checksum of sixteen bits.                                           *)
(***************************************************************************)
EXTENDS AxtpModel, FrameCodec, SequencesExt, SequenceTheorems, FiniteSetTheorems,
        WellFoundedInduction, TLAPS

-----------------------------------------------------------------------------
(* Payloads (AxtpModel).                                                   *)

\* The payloads that senders build and handlers answer with are payloads.
LEMMA PayloadTypes ==
  /\ ZeroRpc \in Rpc
  /\ \A id \in RequestIds, m \in Methods, b \in Bodies, t \in Nat : Request(id, m, b, t) \in Rpc
  /\ \A r \in Rpc, c \in StatusCodes, b \in Bodies : Response(r, c, b) \in Rpc
  BY DEF ZeroRpc, Request, Response, Rpc, Ops, StatusCodes, Bodies

-----------------------------------------------------------------------------
(* Queues (AxtpModel).                                                     *)

\* A queue that is not full takes one element more.
LEMMA AppendQueue ==
  ASSUME NEW S, NEW s \in Queue(S), NEW x \in S, ~IsFull(s)
  PROVE  Append(s, x) \in Queue(S)
  BY QueueCapacityAssumption DEF Queue, IsFull

\* What follows the head of a queue is a queue, and the head belongs to S.
LEMMA TailQueue ==
  ASSUME NEW S, NEW s \in Queue(S), s # <<>>
  PROVE  Tail(s) \in Queue(S) /\ Head(s) \in S
  BY QueueCapacityAssumption DEF Queue, IsFull

\* A queue without one of its elements is a queue.
LEMMA RemoveAtQueue ==
  ASSUME NEW S, NEW s \in Queue(S), NEW i \in DOMAIN s
  PROVE  RemoveAt(s, i) \in Queue(S)
  BY QueueCapacityAssumption DEF Queue, RemoveAt

\* A set of naturals that is not empty has a least element.
LEMMA LeastElement ==
  ASSUME NEW I \in SUBSET Nat, I # {}
  PROVE  Min(I) \in I
<1> DEFINE R == {p \in Nat \X Nat : p[1] < p[2]}
<1>1. IsWellFoundedOn(R, Nat)
  BY NatLessThanWellFounded, Zenon DEF OpToRel
<1> HIDE DEF R
<1>2. PICK x \in I : \A y \in I : ~(<<y, x>> \in R)
  BY <1>1, WFMin, Zenon
<1>3. ASSUME NEW y \in I PROVE x <= y
  <2>1. x \in Nat /\ y \in Nat
    OBVIOUS
  <2>2. y < x => <<y, x>> \in R
    BY <2>1, Zenon DEF R
  <2> QED
    BY <1>2, <2>1, <2>2
<1> QED
  BY <1>3 DEF Min

\* Removing the first occurrence of a value removes an element that is that
\* value, if there is one.
LEMMA RemoveFirstIs ==
  ASSUME NEW S, NEW s \in Seq(S), NEW e, \E i \in 1..Len(s) : s[i] = e
  PROVE  \E k \in DOMAIN s : s[k] = e /\ RemoveFirst(s, e) = RemoveAt(s, k)
<1> DEFINE I == {i \in 1..Len(s) : s[i] = e}
<1>1. RemoveFirst(s, e) = RemoveAt(s, Min(I))
  BY DEF RemoveFirst, SelectInSeq
<1>2. I \in SUBSET Nat /\ I # {}
  OBVIOUS
<1>3. Min(I) \in I
  BY <1>2, LeastElement, Zenon
<1>4. Min(I) \in DOMAIN s /\ s[Min(I)] = e
  BY <1>3
<1> HIDE DEF I
<1> QED
  BY <1>1, <1>4

\* remove_pending leaves a queue.
LEMMA RemoveFirstQueue ==
  ASSUME NEW S, NEW s \in Queue(S), NEW e
  PROVE  RemoveFirst(s, e) \in Queue(S)
<1>1. CASE ~\E i \in 1..Len(s) : s[i] = e
  BY <1>1 DEF RemoveFirst
<1>2. CASE \E i \in 1..Len(s) : s[i] = e
  <2>1. PICK k \in DOMAIN s : RemoveFirst(s, e) = RemoveAt(s, k)
    BY <1>2, RemoveFirstIs DEF Queue
  <2> QED
    BY <2>1, RemoveAtQueue
<1> QED
  BY <1>1, <1>2

-----------------------------------------------------------------------------
(* How often the values of a set occur in a sequence.                      *)

CountIn(s, V) == Cardinality({i \in DOMAIN s : s[i] \in V})

LEMMA CountNat ==
  ASSUME NEW S, NEW s \in Seq(S), NEW V
  PROVE  IsFiniteSet({i \in DOMAIN s : s[i] \in V}) /\ CountIn(s, V) \in Nat
<1>1. IsFiniteSet(1..Len(s))
  BY FS_Interval
<1>2. {i \in DOMAIN s : s[i] \in V} \in SUBSET (1..Len(s))
  OBVIOUS
<1>3. IsFiniteSet({i \in DOMAIN s : s[i] \in V})
  BY <1>1, <1>2, FS_Subset
<1> QED
  BY <1>3, FS_CardinalityType DEF CountIn

LEMMA CountEmpty ==
  ASSUME NEW V
  PROVE  CountIn(<<>>, V) = 0
<1>1. {i \in DOMAIN <<>> : <<>>[i] \in V} = {}
  OBVIOUS
<1> QED
  BY <1>1, FS_EmptySet DEF CountIn

LEMMA CountOne ==
  ASSUME NEW S, NEW x \in S, NEW V
  PROVE  CountIn(<<x>>, V) = IF x \in V THEN 1 ELSE 0
<1>1. {i \in DOMAIN <<x>> : <<x>>[i] \in V} = IF x \in V THEN {1} ELSE {}
  OBVIOUS
<1> QED
  BY <1>1, FS_EmptySet, FS_Singleton DEF CountIn

\* What a sequence made of two parts has is what the parts have.
LEMMA CountConcat ==
  ASSUME NEW S, NEW s \in Seq(S), NEW t \in Seq(S), NEW V
  PROVE  CountIn(s \o t, V) = CountIn(s, V) + CountIn(t, V)
<1> DEFINE A == {i \in DOMAIN s : s[i] \in V}
           B == {i \in DOMAIN t : t[i] \in V}
           C == {i \in DOMAIN (s \o t) : (s \o t)[i] \in V}
           Shifted == C \ A
           f == [i \in B |-> i + Len(s)]
<1>1. Len(s) \in Nat /\ Len(t) \in Nat /\ DOMAIN s = 1..Len(s) /\ DOMAIN t = 1..Len(t)
  OBVIOUS
<1>2. /\ s \o t \in Seq(S) /\ DOMAIN (s \o t) = 1..(Len(s) + Len(t))
      /\ \A i \in 1..Len(s) : (s \o t)[i] = s[i]
      /\ \A i \in 1..Len(t) : (s \o t)[i + Len(s)] = t[i]
  OBVIOUS
<1>3. A \subseteq C /\ A = C \cap (1..Len(s))
  BY <1>1, <1>2
<1>4. IsFiniteSet(A) /\ IsFiniteSet(B) /\ IsFiniteSet(C)
  BY <1>2, CountNat
<1>5. f \in Bijection(B, Shifted)
  <2>1. ASSUME NEW i \in B PROVE f[i] \in Shifted
    BY <1>1, <1>2, <1>3, <2>1
  <2>2. ASSUME NEW i \in B, NEW j \in B, f[i] = f[j] PROVE i = j
    BY <1>1, <2>2
  <2>3. ASSUME NEW k \in Shifted PROVE \E i \in B : f[i] = k
    <3>1. k \in (Len(s) + 1)..(Len(s) + Len(t)) /\ (s \o t)[k] \in V
      BY <1>1, <1>2, <1>3, <2>3
    <3>2. k - Len(s) \in 1..Len(t) /\ (k - Len(s)) + Len(s) = k
      BY <1>1, <3>1
    <3>3. k - Len(s) \in B
      BY <1>1, <1>2, <3>1, <3>2
    <3> QED
      BY <3>2, <3>3
  <2>4. f \in [B -> Shifted]
    BY <2>1
  <2> HIDE DEF f, B, Shifted
  <2>5. f \in Injection(B, Shifted)
    BY <2>2, <2>4 DEF Injection, IsInjective
  <2>6. f \in Surjection(B, Shifted)
    BY <2>3, <2>4, Zenon DEF Surjection
  <2> QED
    BY <2>5, <2>6 DEF Bijection
<1>6. IsFiniteSet(Shifted) /\ Cardinality(Shifted) = Cardinality(B)
  BY <1>4, <1>5, FS_Bijection DEF ExistsBijection
<1>7. C = A \cup Shifted /\ A \cap Shifted = {}
  BY <1>3
<1>8. Cardinality(C) = Cardinality(A) + Cardinality(Shifted) - Cardinality(A \cap Shifted)
  <2> HIDE DEF A, B, C, Shifted
  <2> QED
    BY <1>4, <1>6, <1>7, FS_Union
<1>9. Cardinality(A \cap Shifted) = 0 /\ Cardinality(A) \in Nat /\ Cardinality(B) \in Nat
  <2> HIDE DEF A, B, C, Shifted
  <2> QED
    BY <1>4, <1>7, FS_EmptySet, FS_CardinalityType
<1>10. Cardinality(C) = Cardinality(A) + Cardinality(B)
  <2> HIDE DEF A, B, C, Shifted
  <2> QED
    BY <1>6, <1>8, <1>9
<1> QED
  BY <1>10 DEF CountIn

LEMMA CountAppend ==
  ASSUME NEW S, NEW s \in Seq(S), NEW x \in S, NEW V
  PROVE  CountIn(Append(s, x), V) = CountIn(s, V) + (IF x \in V THEN 1 ELSE 0)
<1>1. Append(s, x) = s \o <<x>> /\ <<x>> \in Seq(S)
  OBVIOUS
<1>2. CountIn(s \o <<x>>, V) = CountIn(s, V) + CountIn(<<x>>, V)
  BY <1>1, CountConcat
<1>3. CountIn(<<x>>, V) = IF x \in V THEN 1 ELSE 0
  BY CountOne
<1> QED
  BY <1>1, <1>2, <1>3

\* A sequence may be cut anywhere.
LEMMA CountSplit ==
  ASSUME NEW S, NEW s \in Seq(S), NEW n \in 0..Len(s), NEW V
  PROVE  CountIn(s, V) = CountIn(SubSeq(s, 1, n), V) + CountIn(SubSeq(s, n + 1, Len(s)), V)
<1>1. 1 \in 1..(Len(s) + 1) /\ n \in (1 - 1)..Len(s) /\ Len(s) \in n..Len(s)
  OBVIOUS
<1>2. SubSeq(s, 1, n) \o SubSeq(s, n + 1, Len(s)) = SubSeq(s, 1, Len(s))
  BY <1>1, ConcatAdjacentSubSeq
<1>3. SubSeq(s, 1, Len(s)) = s
  BY SubSeqFull
<1>4. SubSeq(s, 1, n) \in Seq(S) /\ SubSeq(s, n + 1, Len(s)) \in Seq(S)
  OBVIOUS
<1>5. CountIn(SubSeq(s, 1, n) \o SubSeq(s, n + 1, Len(s)), V)
        = CountIn(SubSeq(s, 1, n), V) + CountIn(SubSeq(s, n + 1, Len(s)), V)
  BY <1>4, CountConcat
<1> QED
  BY <1>2, <1>3, <1>5

\* A sequence from a position on is the element there and what follows it.
LEMMA CountFrom ==
  ASSUME NEW S, NEW s \in Seq(S), NEW k \in 1..Len(s), NEW V
  PROVE  CountIn(SubSeq(s, k, Len(s)), V)
           = CountIn(SubSeq(s, k + 1, Len(s)), V) + (IF s[k] \in V THEN 1 ELSE 0)
<1> DEFINE back == SubSeq(s, k + 1, Len(s))
<1>1. s[k] \in S /\ <<s[k]>> \in Seq(S) /\ back \in Seq(S) /\ Len(s) \in k..Len(s)
  OBVIOUS
<1>2. SubSeq(s, k, Len(s)) = <<s[k]>> \o back
  BY <1>1, SubSeqRecursiveFirst
<1> HIDE DEF back
<1>3. CountIn(<<s[k]>> \o back, V) = CountIn(<<s[k]>>, V) + CountIn(back, V)
  BY <1>1, CountConcat
<1>4. CountIn(<<s[k]>>, V) = IF s[k] \in V THEN 1 ELSE 0
  BY <1>1, CountOne
<1>5. CountIn(back, V) \in Nat
  BY <1>1, CountNat
<1>6. CountIn(SubSeq(s, k, Len(s)), V) = CountIn(back, V) + (IF s[k] \in V THEN 1 ELSE 0)
  BY <1>2, <1>3, <1>4, <1>5
<1> QED
  BY <1>6 DEF back

LEMMA CountTail ==
  ASSUME NEW S, NEW s \in Seq(S), s # <<>>, NEW V
  PROVE  CountIn(s, V) = CountIn(Tail(s), V) + (IF Head(s) \in V THEN 1 ELSE 0)
<1>1. 1 \in 1..Len(s) /\ Head(s) = s[1]
  OBVIOUS
<1>2. SubSeq(s, 1, Len(s)) = s /\ Tail(s) = SubSeq(s, 1 + 1, Len(s))
  BY SubSeqFull, TailIsSubSeq
<1>3. CountIn(SubSeq(s, 1, Len(s)), V)
        = CountIn(SubSeq(s, 1 + 1, Len(s)), V) + (IF s[1] \in V THEN 1 ELSE 0)
  BY <1>1, CountFrom
<1> QED
  BY <1>1, <1>2, <1>3

\* A sequence is its head, what follows up to a position, and the rest.
LEMMA CountBlock ==
  ASSUME NEW S, NEW s \in Seq(S), NEW n \in 1..Len(s), NEW V
  PROVE  /\ SubSeq(s, 2, n) \in Seq(S) /\ SubSeq(s, n + 1, Len(s)) \in Seq(S)
         /\ CountIn(s, V) = (IF Head(s) \in V THEN 1 ELSE 0)
                              + CountIn(SubSeq(s, 2, n), V)
                              + CountIn(SubSeq(s, n + 1, Len(s)), V)
<1> DEFINE block == SubSeq(s, 2, n)
           back == SubSeq(s, n + 1, Len(s))
<1>1. block \in Seq(S) /\ back \in Seq(S) /\ s # <<>>
  OBVIOUS
<1>2. 2 \in 1..(Len(s) + 1) /\ n \in (2 - 1)..Len(s) /\ Len(s) \in n..Len(s)
  OBVIOUS
<1>3. block \o back = Tail(s)
  BY <1>1, <1>2, ConcatAdjacentSubSeq, TailIsSubSeq
<1>4. CountIn(s, V) = CountIn(Tail(s), V) + (IF Head(s) \in V THEN 1 ELSE 0)
  BY <1>1, CountTail
<1> HIDE DEF block, back
<1>5. CountIn(block \o back, V) = CountIn(block, V) + CountIn(back, V)
  BY <1>1, CountConcat
<1>6. CountIn(block, V) \in Nat /\ CountIn(back, V) \in Nat
  BY <1>1, CountNat
<1>7. CountIn(s, V) = (IF Head(s) \in V THEN 1 ELSE 0) + CountIn(block, V) + CountIn(back, V)
  <2>1. CountIn(Tail(s), V) = CountIn(block, V) + CountIn(back, V)
    BY <1>3, <1>5
  <2> QED
    BY <1>4, <1>6, <2>1
<1> QED
  BY <1>1, <1>7 DEF block, back

\* Without the element at a position, that element is missing.
LEMMA CountRemoveAt ==
  ASSUME NEW S, NEW s \in Seq(S), NEW k \in DOMAIN s, NEW V
  PROVE  CountIn(s, V) = CountIn(RemoveAt(s, k), V) + (IF s[k] \in V THEN 1 ELSE 0)
<1> DEFINE front == SubSeq(s, 1, k - 1)
           back == SubSeq(s, k + 1, Len(s))
<1>1. k \in 1..Len(s) /\ k - 1 \in 0..Len(s) /\ (k - 1) + 1 = k
  OBVIOUS
<1>2. front \in Seq(S) /\ back \in Seq(S)
  OBVIOUS
<1>3. CountIn(s, V) = CountIn(front, V) + CountIn(SubSeq(s, (k - 1) + 1, Len(s)), V)
  BY <1>1, CountSplit
<1>4. CountIn(SubSeq(s, k, Len(s)), V) = CountIn(back, V) + (IF s[k] \in V THEN 1 ELSE 0)
  BY <1>1, CountFrom
<1>5. CountIn(front \o back, V) = CountIn(front, V) + CountIn(back, V)
  BY <1>2, CountConcat
<1>6. RemoveAt(s, k) = front \o back
  BY DEF RemoveAt
<1>7. CountIn(front, V) \in Nat /\ CountIn(back, V) \in Nat
  BY <1>2, CountNat
<1> HIDE DEF front, back
<1> QED
  BY <1>1, <1>3, <1>4, <1>5, <1>6, <1>7

\* The first occurrence of a value is gone, if there was one.
LEMMA CountRemoveFirst ==
  ASSUME NEW S, NEW s \in Seq(S), NEW e, NEW V
  PROVE  CountIn(s, V) = CountIn(RemoveFirst(s, e), V)
                           + (IF e \in V /\ CountIn(s, {e}) > 0 THEN 1 ELSE 0)
<1>1. CASE ~\E i \in 1..Len(s) : s[i] = e
  <2>1. {i \in DOMAIN s : s[i] \in {e}} = {}
    BY <1>1
  <2>2. CountIn(s, {e}) = 0
    BY <2>1, FS_EmptySet DEF CountIn
  <2>3. CountIn(s, V) \in Nat /\ RemoveFirst(s, e) = s
    BY <1>1, CountNat DEF RemoveFirst
  <2> QED
    BY <2>2, <2>3
<1>2. CASE \E i \in 1..Len(s) : s[i] = e
  <2>1. PICK k \in DOMAIN s : s[k] = e /\ RemoveFirst(s, e) = RemoveAt(s, k)
    BY <1>2, RemoveFirstIs
  <2>2. CountIn(s, V) = CountIn(RemoveFirst(s, e), V) + (IF e \in V THEN 1 ELSE 0)
    BY <2>1, CountRemoveAt
  <2>3. {i \in DOMAIN s : s[i] \in {e}} # {}
    BY <2>1
  <2>4. CountIn(s, {e}) > 0
    <3>1. IsFiniteSet({i \in DOMAIN s : s[i] \in {e}}) /\ CountIn(s, {e}) \in Nat
      BY CountNat
    <3>2. Cardinality({i \in DOMAIN s : s[i] \in {e}}) # 0
      BY <2>3, <3>1, FS_EmptySet
    <3> QED
      BY <3>1, <3>2 DEF CountIn
  <2> QED
    BY <2>2, <2>4
<1> QED
  BY <1>1, <1>2

-----------------------------------------------------------------------------
(* Frames.                                                                 *)

Byte == 0..255
Word == {v \in Nat : v < 65536}
Long == {v \in Nat : v < 65536 * 65536}

\* The RPC payloads, with fields as wide as in axtp_rpc_payload_t.
BinaryRpc == [encoding : Byte, op : Byte, id : Long, method : Word, status : Word,
              bodyEncoding : Byte, body : Seq(Byte)]

-----------------------------------------------------------------------------
(* Bytes.                                                                  *)

\* A number, its upper part and its lowest byte.
LEMMA LowByte ==
  ASSUME NEW v \in Nat
  PROVE  v \div 256 \in Nat /\ v % 256 \in Byte /\ v = 256 * (v \div 256) + (v % 256)
<1>1. v \div 256 \in Nat /\ v = 256 * (v \div 256) + (v % 256)
  BY SMT
<1>2. v % 256 \in 0..255
  BY SMT
<1> QED
  BY <1>1, <1>2, SMT DEF Byte

LEMMA ByteItself ==
  ASSUME NEW v \in Byte
  PROVE  v % 256 = v
  BY SMT DEF Byte

\* The two bytes of a word make the word again.
LEMMA WordBytes ==
  ASSUME NEW v \in Word
  PROVE  /\ (v \div 256) % 256 \in Byte /\ v % 256 \in Byte
         /\ 256 * ((v \div 256) % 256) + (v % 256) = v
<1>1. v \in Nat /\ v <= 65535
  BY SMT DEF Word
<1>2. v \div 256 \in Nat /\ v \div 256 <= 255
  BY <1>1, SMT
<1>3. v \div 256 \in Byte
  BY <1>2, SMT DEF Byte
<1> QED
  BY <1>1, <1>3, LowByte, ByteItself, SMT

\* So do the four bytes of a long.
LEMMA LongBytes ==
  ASSUME NEW v \in Long
  PROVE  /\ (v \div 16777216) % 256 \in Byte /\ (v \div 65536) % 256 \in Byte
         /\ (v \div 256) % 256 \in Byte /\ v % 256 \in Byte
         /\ 65536 * (256 * ((v \div 16777216) % 256) + ((v \div 65536) % 256))
              + (256 * ((v \div 256) % 256) + (v % 256)) = v
<1> DEFINE a == v \div 16777216
           b == v \div 65536
           c == v \div 256
<1>1. v \in Nat /\ v < 65536 * 65536
  BY SMT DEF Long
<1>2. c \in Nat /\ v % 256 \in Byte /\ v = 256 * c + (v % 256)
  BY <1>1, LowByte
<1>3. b = c \div 256
  BY <1>1, SMT
<1>4. a = b \div 256
  BY <1>1, SMT
<1>5. a <= 255
  BY <1>1, SMT
<1> HIDE DEF a, b, c
<1>6. b \in Nat /\ c % 256 \in Byte /\ c = 256 * b + (c % 256)
  BY <1>2, <1>3, LowByte
<1>7. a \in Nat /\ b % 256 \in Byte /\ b = 256 * a + (b % 256)
  BY <1>6, <1>4, LowByte
<1>8. a \in Byte
  BY <1>5, <1>7, SMT DEF Byte
<1>9. a % 256 = a
  BY <1>8, ByteItself
<1>10. 65536 * (256 * (a % 256) + (b % 256)) + (256 * (c % 256) + (v % 256)) = v
  BY <1>1, <1>2, <1>6, <1>7, <1>8, <1>9, SMT DEF Byte
<1> QED
  BY <1>2, <1>6, <1>7, <1>8, <1>9, <1>10 DEF a, b, c

\* A word that stands in a buffer is read as it was written.
LEMMA WordComesBack ==
  ASSUME NEW data \in Seq(Byte), NEW v \in Word, NEW offset \in Nat,
         At(data, offset) = (v \div 256) % 256, At(data, offset + 1) = v % 256
  PROVE  ReadU16(data, offset) = v
  BY WordBytes, SMT DEF ReadU16

-----------------------------------------------------------------------------
(* Buffers.                                                                *)

\* A buffer with another behind it.
LEMMA Behind ==
  ASSUME NEW s \in Seq(Byte), NEW t \in Seq(Byte)
  PROVE  /\ s \o t \in Seq(Byte) /\ Len(s \o t) = Len(s) + Len(t)
         /\ \A i \in 1..Len(s) : (s \o t)[i] = s[i]
         /\ \A i \in 1..Len(t) : (s \o t)[Len(s) + i] = t[i]
  BY SMT

\* A part of a buffer is the buffer that stands there.
LEMMA PartIs ==
  ASSUME NEW data \in Seq(Byte), NEW s \in Seq(Byte), NEW offset \in Nat,
         offset + Len(s) <= Len(data),
         \A i \in 1..Len(s) : data[offset + i] = s[i]
  PROVE  Part(data, offset, Len(s)) = s
<1>1. Part(data, offset, Len(s)) \in Seq(Byte) /\ Len(Part(data, offset, Len(s))) = Len(s)
  BY SMT DEF Part
<1>2. \A i \in 1..Len(s) : Part(data, offset, Len(s))[i] = s[i]
  BY SMT DEF Part
<1> QED
  BY <1>1, <1>2, SMT

LEMMA WordBuffer ==
  ASSUME NEW v \in Word
  PROVE  /\ WriteU16(v) \in Seq(Byte) /\ Len(WriteU16(v)) = 2
         /\ WriteU16(v)[1] = (v \div 256) % 256 /\ WriteU16(v)[2] = v % 256
  BY WordBytes, SMT DEF WriteU16

\* The two upper bytes of a long.
Top(v) == (v \div 16777216) % 256
Upper(v) == (v \div 65536) % 256

LEMMA LongBuffer ==
  ASSUME NEW v \in Long
  PROVE  /\ WriteU32(v) \in Seq(Byte) /\ Len(WriteU32(v)) = 4
         /\ WriteU32(v)[1] = Top(v) /\ WriteU32(v)[2] = Upper(v)
         /\ WriteU32(v)[3] = (v \div 256) % 256 /\ WriteU32(v)[4] = v % 256
  BY LongBytes, SMT DEF WriteU32, Top, Upper

\* A buffer with two bytes behind it.
LEMMA TwoBehind ==
  ASSUME NEW s \in Seq(Byte), NEW t \in Seq(Byte), Len(t) = 2
  PROVE  /\ s \o t \in Seq(Byte) /\ Len(s \o t) = Len(s) + 2
         /\ \A i \in 1..Len(s) : (s \o t)[i] = s[i]
         /\ (s \o t)[Len(s) + 1] = t[1] /\ (s \o t)[Len(s) + 2] = t[2]
<1> DEFINE both == s \o t
<1>1. /\ both \in Seq(Byte) /\ Len(both) = Len(s) + Len(t)
      /\ \A i \in 1..Len(s) : both[i] = s[i]
      /\ \A i \in 1..Len(t) : both[Len(s) + i] = t[i]
  BY Behind, Zenon
<1>2. Len(s) \in Nat
  BY SMT
<1> HIDE DEF both
<1>3. /\ Len(both) = Len(s) + 2
      /\ both[Len(s) + 1] = t[1] /\ both[Len(s) + 2] = t[2]
  BY <1>1, <1>2, SMT
<1> QED
  BY <1>1, <1>3 DEF both

LEMMA WireIdWord ==
  ASSUME NEW messageId \in Word
  PROVE  WireId(messageId) \in Word
<1>1. CASE messageId = 0
  <2>1. 1 \in Word
    BY SMT DEF Word
  <2> QED
    BY <1>1, <2>1, Zenon DEF WireId
<1>2. CASE messageId # 0
  BY <1>2, Zenon DEF WireId
<1> QED
  BY <1>1, <1>2, Zenon

\* The twelve bytes before a payload.
LEMMA HeaderBuffer ==
  ASSUME NEW type \in Byte, NEW length \in Word, NEW messageId \in Word
  PROVE  LET header == Header(type, length, messageId)
         IN  /\ header \in Seq(Byte) /\ Len(header) = HeaderSize
             /\ header[1] = 65 /\ header[2] = 88 /\ header[3] = 1 /\ header[4] = type
             /\ header[5] = (length \div 256) % 256 /\ header[6] = length % 256
             /\ header[7] = 0 /\ header[8] = 0
             /\ header[9] = (WireId(messageId) \div 256) % 256
             /\ header[10] = WireId(messageId) % 256
             /\ header[11] = 0 /\ header[12] = 1
<1> DEFINE id == WireId(messageId)
           start == <<65, 88, 1, type>>
           size == WriteU16(length)
           middle == <<0, 0>>
           name == WriteU16(id)
           place == <<0, 1>>
           two == start \o size
           three == two \o middle
           four == three \o name
<1>1. id \in Word
  BY WireIdWord
<1>2. /\ start \in Seq(Byte) /\ Len(start) = 4
      /\ start[1] = 65 /\ start[2] = 88 /\ start[3] = 1 /\ start[4] = type
  BY SMT DEF Byte
<1>3. /\ middle \in Seq(Byte) /\ Len(middle) = 2 /\ middle[1] = 0 /\ middle[2] = 0
      /\ place \in Seq(Byte) /\ Len(place) = 2 /\ place[1] = 0 /\ place[2] = 1
  BY SMT DEF Byte
<1>4. /\ size \in Seq(Byte) /\ Len(size) = 2
      /\ size[1] = (length \div 256) % 256 /\ size[2] = length % 256
  BY WordBuffer
<1>5. /\ name \in Seq(Byte) /\ Len(name) = 2
      /\ name[1] = (id \div 256) % 256 /\ name[2] = id % 256
  BY <1>1, WordBuffer
<1>6. Header(type, length, messageId) = four \o place
  BY Zenon DEF Header
<1> HIDE DEF id, start, size, middle, name, place
<1>7. /\ two \in Seq(Byte) /\ Len(two) = 6
      /\ \A i \in 1..4 : two[i] = start[i]
      /\ two[5] = size[1] /\ two[6] = size[2]
  <2>1. /\ two \in Seq(Byte) /\ Len(two) = Len(start) + 2
        /\ \A i \in 1..Len(start) : two[i] = start[i]
        /\ two[Len(start) + 1] = size[1] /\ two[Len(start) + 2] = size[2]
    BY <1>2, <1>4, TwoBehind, Zenon
  <2> HIDE DEF two
  <2> QED
    BY <1>2, <2>1, SMT
<1> HIDE DEF two
<1>8. /\ three \in Seq(Byte) /\ Len(three) = 8
      /\ \A i \in 1..6 : three[i] = two[i]
      /\ three[7] = middle[1] /\ three[8] = middle[2]
  <2>1. /\ three \in Seq(Byte) /\ Len(three) = Len(two) + 2
        /\ \A i \in 1..Len(two) : three[i] = two[i]
        /\ three[Len(two) + 1] = middle[1] /\ three[Len(two) + 2] = middle[2]
    BY <1>3, <1>7, TwoBehind, Zenon
  <2> HIDE DEF three
  <2> QED
    BY <1>7, <2>1, SMT
<1> HIDE DEF three
<1>9. /\ four \in Seq(Byte) /\ Len(four) = 10
      /\ \A i \in 1..8 : four[i] = three[i]
      /\ four[9] = name[1] /\ four[10] = name[2]
  <2>1. /\ four \in Seq(Byte) /\ Len(four) = Len(three) + 2
        /\ \A i \in 1..Len(three) : four[i] = three[i]
        /\ four[Len(three) + 1] = name[1] /\ four[Len(three) + 2] = name[2]
    BY <1>5, <1>8, TwoBehind, Zenon
  <2> HIDE DEF four
  <2> QED
    BY <1>8, <2>1, SMT
<1> HIDE DEF four
<1> DEFINE header == four \o place
<1>10. /\ header \in Seq(Byte) /\ Len(header) = 12
       /\ \A i \in 1..10 : header[i] = four[i]
       /\ header[11] = place[1] /\ header[12] = place[2]
  <2>1. /\ header \in Seq(Byte) /\ Len(header) = Len(four) + 2
        /\ \A i \in 1..Len(four) : header[i] = four[i]
        /\ header[Len(four) + 1] = place[1] /\ header[Len(four) + 2] = place[2]
    BY <1>3, <1>9, TwoBehind, Zenon
  <2> HIDE DEF header
  <2> QED
    BY <1>9, <2>1, SMT
<1>11. Header(type, length, messageId) = header
  BY <1>6
<1> HIDE DEF header
<1>12. /\ header[1] = 65 /\ header[2] = 88 /\ header[3] = 1 /\ header[4] = type
       /\ header[5] = size[1] /\ header[6] = size[2] /\ header[7] = 0 /\ header[8] = 0
       /\ header[9] = name[1] /\ header[10] = name[2] /\ header[11] = 0 /\ header[12] = 1
  BY <1>2, <1>3, <1>7, <1>8, <1>9, <1>10, SMT
<1> QED
  BY <1>4, <1>5, <1>10, <1>11, <1>12 DEF HeaderSize, id

-----------------------------------------------------------------------------
(* RPC payloads.                                                           *)

\* The eleven bytes before a body.
LEMMA RpcHeaderBuffer ==
  ASSUME NEW rpc \in BinaryRpc
  PROVE  LET header == RpcHeader(rpc)
         IN  /\ header \in Seq(Byte) /\ Len(header) = 11
             /\ header[1] = rpc.encoding /\ header[2] = rpc.op
             /\ header[3] = Top(rpc.id) /\ header[4] = Upper(rpc.id)
             /\ header[5] = (rpc.id \div 256) % 256 /\ header[6] = rpc.id % 256
             /\ header[7] = (rpc.method \div 256) % 256 /\ header[8] = rpc.method % 256
             /\ header[9] = (rpc.status \div 256) % 256 /\ header[10] = rpc.status % 256
             /\ header[11] = rpc.bodyEncoding
<1> DEFINE start == <<rpc.encoding, rpc.op>>
           id == WriteU32(rpc.id)
           method == WriteU16(rpc.method)
           status == WriteU16(rpc.status)
           last == <<rpc.bodyEncoding>>
           two == start \o id
           three == two \o method
           four == three \o status
           header == four \o last
<1>1. /\ rpc.encoding \in Byte /\ rpc.op \in Byte /\ rpc.id \in Long /\ rpc.method \in Word
      /\ rpc.status \in Word /\ rpc.bodyEncoding \in Byte
  BY Zenon DEF BinaryRpc
<1>2. /\ start \in Seq(Byte) /\ Len(start) = 2 /\ start[1] = rpc.encoding /\ start[2] = rpc.op
      /\ last \in Seq(Byte) /\ Len(last) = 1 /\ last[1] = rpc.bodyEncoding
  BY <1>1, SMT
<1>3. /\ id \in Seq(Byte) /\ Len(id) = 4
      /\ id[1] = Top(rpc.id) /\ id[2] = Upper(rpc.id)
      /\ id[3] = (rpc.id \div 256) % 256 /\ id[4] = rpc.id % 256
  BY <1>1, LongBuffer, Zenon
<1>4. /\ method \in Seq(Byte) /\ Len(method) = 2
      /\ method[1] = (rpc.method \div 256) % 256 /\ method[2] = rpc.method % 256
  BY <1>1, WordBuffer, Zenon
<1>5. /\ status \in Seq(Byte) /\ Len(status) = 2
      /\ status[1] = (rpc.status \div 256) % 256 /\ status[2] = rpc.status % 256
  BY <1>1, WordBuffer, Zenon
<1> HIDE DEF start, id, method, status, last
<1>6. /\ two \in Seq(Byte) /\ Len(two) = 6
      /\ \A i \in 1..2 : two[i] = start[i]
      /\ \A i \in 1..4 : two[2 + i] = id[i]
  <2>1. /\ two \in Seq(Byte) /\ Len(two) = Len(start) + Len(id)
        /\ \A i \in 1..Len(start) : two[i] = start[i]
        /\ \A i \in 1..Len(id) : two[Len(start) + i] = id[i]
    BY <1>2, <1>3, Behind, Zenon
  <2> HIDE DEF two
  <2> QED
    BY <1>2, <1>3, <2>1, SMT
<1> HIDE DEF two
<1>7. /\ three \in Seq(Byte) /\ Len(three) = 8
      /\ \A i \in 1..6 : three[i] = two[i]
      /\ three[7] = method[1] /\ three[8] = method[2]
  <2>1. /\ three \in Seq(Byte) /\ Len(three) = Len(two) + 2
        /\ \A i \in 1..Len(two) : three[i] = two[i]
        /\ three[Len(two) + 1] = method[1] /\ three[Len(two) + 2] = method[2]
    BY <1>4, <1>6, TwoBehind, Zenon
  <2> HIDE DEF three
  <2> QED
    BY <1>6, <2>1, SMT
<1> HIDE DEF three
<1>8. /\ four \in Seq(Byte) /\ Len(four) = 10
      /\ \A i \in 1..8 : four[i] = three[i]
      /\ four[9] = status[1] /\ four[10] = status[2]
  <2>1. /\ four \in Seq(Byte) /\ Len(four) = Len(three) + 2
        /\ \A i \in 1..Len(three) : four[i] = three[i]
        /\ four[Len(three) + 1] = status[1] /\ four[Len(three) + 2] = status[2]
    BY <1>5, <1>7, TwoBehind, Zenon
  <2> HIDE DEF four
  <2> QED
    BY <1>7, <2>1, SMT
<1> HIDE DEF four
<1>9. /\ header \in Seq(Byte) /\ Len(header) = 11
      /\ \A i \in 1..10 : header[i] = four[i]
      /\ header[11] = last[1]
  <2>1. /\ header \in Seq(Byte) /\ Len(header) = Len(four) + Len(last)
        /\ \A i \in 1..Len(four) : header[i] = four[i]
        /\ \A i \in 1..Len(last) : header[Len(four) + i] = last[i]
    BY <1>2, <1>8, Behind, Zenon
  <2> HIDE DEF header
  <2> QED
    BY <1>2, <1>8, <2>1, SMT
<1>10. RpcHeader(rpc) = header
  BY Zenon DEF RpcHeader, four, three, two, start, id, method, status, last
<1> HIDE DEF header
<1>11. /\ header[1] = start[1] /\ header[2] = start[2]
       /\ header[3] = id[1] /\ header[4] = id[2] /\ header[5] = id[3] /\ header[6] = id[4]
       /\ header[7] = method[1] /\ header[8] = method[2]
       /\ header[9] = status[1] /\ header[10] = status[2] /\ header[11] = last[1]
  <2>1. two[1] = start[1] /\ two[2] = start[2]
    BY <1>6, SMT
  <2>2. two[3] = id[1] /\ two[4] = id[2] /\ two[5] = id[3] /\ two[6] = id[4]
    BY <1>6, SMT
  <2> QED
    BY <1>7, <1>8, <1>9, <2>1, <2>2, SMT
<1> QED
  BY <1>2, <1>3, <1>4, <1>5, <1>9, <1>10, <1>11

\* Whatever RPC payload one side encodes (codec.c:14), the other side's
\* decoder accepts it and returns the same fields and the same body
\* (codec.c:36).
THEOREM RpcComesBack ==
  ASSUME NEW rpc \in BinaryRpc
  PROVE  RpcDecodes(EncodeRpc(rpc)) /\ DecodeRpc(EncodeRpc(rpc)) = rpc
<1> DEFINE header == RpcHeader(rpc)
           body == rpc.body
           data == header \o body
<1>1. /\ rpc.encoding \in Byte /\ rpc.op \in Byte /\ rpc.id \in Long /\ rpc.method \in Word
      /\ rpc.status \in Word /\ rpc.bodyEncoding \in Byte /\ body \in Seq(Byte)
  BY Zenon DEF BinaryRpc
<1>2. /\ header \in Seq(Byte) /\ Len(header) = 11
      /\ header[1] = rpc.encoding /\ header[2] = rpc.op
      /\ header[3] = Top(rpc.id) /\ header[4] = Upper(rpc.id)
      /\ header[5] = (rpc.id \div 256) % 256 /\ header[6] = rpc.id % 256
      /\ header[7] = (rpc.method \div 256) % 256 /\ header[8] = rpc.method % 256
      /\ header[9] = (rpc.status \div 256) % 256 /\ header[10] = rpc.status % 256
      /\ header[11] = rpc.bodyEncoding
  BY RpcHeaderBuffer
<1>3. EncodeRpc(rpc) = data
  BY Zenon DEF EncodeRpc
<1> HIDE DEF header, body
<1>4. /\ data \in Seq(Byte) /\ Len(data) = Len(header) + Len(body)
      /\ \A i \in 1..Len(header) : data[i] = header[i]
      /\ \A i \in 1..Len(body) : data[Len(header) + i] = body[i]
  <2>1. header \in Seq(Byte) /\ body \in Seq(Byte)
    BY <1>1, <1>2, Zenon
  <2> QED
    BY <2>1, Behind, Zenon
<1> HIDE DEF data
<1>5. /\ Len(body) \in Nat /\ Len(data) = 11 + Len(body)
      /\ \A i \in 1..11 : data[i] = header[i]
      /\ \A i \in 1..Len(body) : data[11 + i] = body[i]
  BY <1>1, <1>2, <1>4, SMT
<1>6. /\ At(data, 0) = rpc.encoding /\ At(data, 1) = rpc.op /\ At(data, 10) = rpc.bodyEncoding
      /\ At(data, 2) = Top(rpc.id) /\ At(data, 3) = Upper(rpc.id)
      /\ At(data, 4) = (rpc.id \div 256) % 256 /\ At(data, 5) = rpc.id % 256
      /\ At(data, 6) = (rpc.method \div 256) % 256 /\ At(data, 7) = rpc.method % 256
      /\ At(data, 8) = (rpc.status \div 256) % 256 /\ At(data, 9) = rpc.status % 256
  BY <1>2, <1>5, SMT DEF At
<1>7. ReadU32(data, 2) = rpc.id
  <2>1. /\ ReadU16(data, 2) = 256 * Top(rpc.id) + Upper(rpc.id)
        /\ ReadU16(data, 4) = 256 * ((rpc.id \div 256) % 256) + (rpc.id % 256)
    BY <1>6, SMT DEF ReadU16
  <2>2. ReadU32(data, 2) = 65536 * ReadU16(data, 2) + ReadU16(data, 4)
    BY SMT DEF ReadU32
  <2> QED
    BY <1>1, <2>1, <2>2, LongBytes, SMT DEF Top, Upper
<1>8. ReadU16(data, 6) = rpc.method
  BY <1>1, <1>4, <1>6, WordComesBack, SMT
<1>9. ReadU16(data, 8) = rpc.status
  BY <1>1, <1>4, <1>6, WordComesBack, SMT
<1>10. Part(data, 11, Len(data) - 11) = body
  <2>1. Len(data) - 11 = Len(body) /\ 11 + Len(body) <= Len(data) /\ 11 \in Nat
    BY <1>5, SMT
  <2>2. Part(data, 11, Len(body)) = body
    BY <1>1, <1>4, <1>5, <2>1, PartIs, Zenon
  <2> QED
    BY <2>1, <2>2, Zenon
<1>11. RpcDecodes(data)
  BY <1>5, SMT DEF RpcDecodes, RpcHeaderSize
<1>12. DecodeRpc(data) = [encoding |-> rpc.encoding, op |-> rpc.op, id |-> rpc.id,
                          method |-> rpc.method, status |-> rpc.status,
                          bodyEncoding |-> rpc.bodyEncoding, body |-> body]
  BY <1>6, <1>7, <1>8, <1>9, <1>10, Zenon DEF DecodeRpc, RpcHeaderSize
<1>13. rpc = [encoding |-> rpc.encoding, op |-> rpc.op, id |-> rpc.id,
              method |-> rpc.method, status |-> rpc.status,
              bodyEncoding |-> rpc.bodyEncoding, body |-> rpc.body]
  BY Zenon DEF BinaryRpc
<1> QED
  BY <1>3, <1>11, <1>12, <1>13 DEF body

-----------------------------------------------------------------------------
(* Frames.                                                                 *)

\* What a decoder reads in a buffer that begins with a header.
HeaderReads(data, type, length, messageId) ==
  /\ PayloadLength(data) = length /\ CheckedLength(data) = 12 + length
  /\ Part(data, 0, 3) = <<65, 88, 1>>
  /\ At(data, 3) = type /\ At(data, 6) = 0 /\ At(data, 7) = 0
  /\ ReadU16(data, 8) = WireId(messageId) /\ At(data, 10) = 0 /\ At(data, 11) = 1

LEMMA HeaderIsRead ==
  ASSUME NEW type \in Byte, NEW length \in Word, NEW messageId \in Word,
         NEW data \in Seq(Byte), Len(data) >= 12,
         \A i \in 1..12 : data[i] = Header(type, length, messageId)[i]
  PROVE  HeaderReads(data, type, length, messageId)
<1> DEFINE header == Header(type, length, messageId)
           id == WireId(messageId)
           start == <<65, 88, 1>>
<1>1. /\ header \in Seq(Byte) /\ Len(header) = HeaderSize
      /\ header[1] = 65 /\ header[2] = 88 /\ header[3] = 1 /\ header[4] = type
      /\ header[5] = (length \div 256) % 256 /\ header[6] = length % 256
      /\ header[7] = 0 /\ header[8] = 0
      /\ header[9] = (id \div 256) % 256 /\ header[10] = id % 256
      /\ header[11] = 0 /\ header[12] = 1
  BY HeaderBuffer
<1>2. \A i \in 1..12 : data[i] = header[i]
  OBVIOUS
<1>3. id \in Word
  BY WireIdWord
<1> HIDE DEF header, id
<1>4. /\ data[1] = 65 /\ data[2] = 88 /\ data[3] = 1
      /\ At(data, 3) = type /\ At(data, 6) = 0 /\ At(data, 7) = 0
      /\ At(data, 4) = (length \div 256) % 256 /\ At(data, 5) = length % 256
      /\ At(data, 8) = (id \div 256) % 256 /\ At(data, 9) = id % 256
      /\ At(data, 10) = 0 /\ At(data, 11) = 1
  <2>1. /\ data[1] = header[1] /\ data[2] = header[2] /\ data[3] = header[3]
        /\ data[4] = header[4] /\ data[5] = header[5] /\ data[6] = header[6]
        /\ data[7] = header[7] /\ data[8] = header[8] /\ data[9] = header[9]
        /\ data[10] = header[10] /\ data[11] = header[11] /\ data[12] = header[12]
    BY <1>2, SMT
  <2>2. /\ At(data, 3) = data[4] /\ At(data, 4) = data[5] /\ At(data, 5) = data[6]
        /\ At(data, 6) = data[7] /\ At(data, 7) = data[8] /\ At(data, 8) = data[9]
        /\ At(data, 9) = data[10] /\ At(data, 10) = data[11] /\ At(data, 11) = data[12]
    BY SMT DEF At
  <2> QED
    BY <1>1, <2>1, <2>2, SMT
<1>5. ReadU16(data, 4) = length
  BY <1>4, WordComesBack, SMT
<1>6. ReadU16(data, 8) = id
  BY <1>3, <1>4, WordComesBack, SMT
<1>7. Part(data, 0, 3) = start
  <2>1. /\ start \in Seq(Byte) /\ Len(start) = 3
        /\ start[1] = 65 /\ start[2] = 88 /\ start[3] = 1
    BY SMT DEF Byte
  <2> HIDE DEF start
  <2>2. \A i \in 1..Len(start) : data[0 + i] = start[i]
    BY <1>4, <2>1, SMT
  <2>3. 0 \in Nat /\ 0 + Len(start) <= Len(data)
    BY <2>1, SMT
  <2>4. Part(data, 0, Len(start)) = start
    BY <2>1, <2>2, <2>3, PartIs, Zenon
  <2> QED
    BY <2>1, <2>4
<1> QED
  BY <1>4, <1>5, <1>6, <1>7 DEF HeaderReads, PayloadLength, CheckedLength, HeaderSize, id

\* axtp_crc16_ccitt_false returns an uint16_t.
ChecksumIsWord == \A s \in Seq(Byte) : Crc(s) \in Word

\* The bytes of a frame: those that the checksum is of, and the checksum.
LEMMA FrameBuffer ==
  ASSUME ChecksumIsWord,
         NEW type \in Byte, NEW payload \in Seq(Byte), Encodable(payload), NEW messageId \in Word
  PROVE  LET header == Header(type, Len(payload), messageId)
             checked == header \o payload
             frame == EncodeFrame(type, payload, messageId)
         IN  /\ Len(payload) \in Word /\ Crc(checked) \in Word
             /\ checked \in Seq(Byte) /\ Len(checked) = 12 + Len(payload)
             /\ frame \in Seq(Byte) /\ Len(frame) = 14 + Len(payload)
             /\ \A i \in 1..12 : frame[i] = header[i]
             /\ \A i \in 1..Len(payload) : frame[12 + i] = payload[i]
             /\ \A i \in 1..Len(checked) : frame[i] = checked[i]
             /\ frame[13 + Len(payload)] = (Crc(checked) \div 256) % 256
             /\ frame[14 + Len(payload)] = Crc(checked) % 256
<1> DEFINE header == Header(type, Len(payload), messageId)
           checked == header \o payload
           sum == WriteU16(Crc(checked))
           frame == checked \o sum
<1>1. Len(payload) \in Word /\ Len(payload) \in Nat
  <2> HIDE DEF header, checked, sum, frame
  <2>1. Len(payload) \in Nat /\ Len(payload) <= 65535
    BY SMT DEF Encodable
  <2> QED
    BY <2>1, SMT DEF Word
<1>2. header \in Seq(Byte) /\ Len(header) = 12
  BY <1>1, HeaderBuffer DEF HeaderSize
<1>3. EncodeFrame(type, payload, messageId) = frame
  BY Zenon DEF EncodeFrame
<1> HIDE DEF header
<1>4. /\ checked \in Seq(Byte) /\ Len(checked) = Len(header) + Len(payload)
      /\ \A i \in 1..Len(header) : checked[i] = header[i]
      /\ \A i \in 1..Len(payload) : checked[Len(header) + i] = payload[i]
  BY <1>2, Behind, Zenon
<1> HIDE DEF checked
<1>5. Crc(checked) \in Word
  BY <1>4, Zenon DEF ChecksumIsWord
<1>6. /\ sum \in Seq(Byte) /\ Len(sum) = 2
      /\ sum[1] = (Crc(checked) \div 256) % 256 /\ sum[2] = Crc(checked) % 256
  BY <1>5, WordBuffer, Zenon
<1> HIDE DEF sum
<1>7. /\ frame \in Seq(Byte) /\ Len(frame) = Len(checked) + 2
      /\ \A i \in 1..Len(checked) : frame[i] = checked[i]
      /\ frame[Len(checked) + 1] = sum[1] /\ frame[Len(checked) + 2] = sum[2]
  BY <1>4, <1>6, TwoBehind, Zenon
<1> HIDE DEF frame
<1>8. /\ Len(checked) = 12 + Len(payload) /\ Len(frame) = 14 + Len(payload)
      /\ \A i \in 1..12 : frame[i] = header[i]
      /\ \A i \in 1..Len(payload) : frame[12 + i] = payload[i]
      /\ frame[13 + Len(payload)] = sum[1] /\ frame[14 + Len(payload)] = sum[2]
  <2>1. Len(checked) = 12 + Len(payload) /\ Len(frame) = 14 + Len(payload)
    BY <1>1, <1>2, <1>4, <1>7, SMT
  <2>2. /\ frame[13 + Len(payload)] = sum[1] /\ frame[14 + Len(payload)] = sum[2]
    BY <1>1, <1>7, <2>1, SMT
  <2>3. \A i \in 1..12 : frame[i] = header[i]
    <3> TAKE i \in 1..12
    <3>1. i \in 1..Len(checked) /\ i \in 1..Len(header)
      BY <1>1, <1>2, <2>1, SMT
    <3> QED
      BY <1>4, <1>7, <3>1, Zenon
  <2>4. \A i \in 1..Len(payload) : frame[12 + i] = payload[i]
    <3> TAKE i \in 1..Len(payload)
    <3>1. 12 + i \in 1..Len(checked) /\ 12 + i = Len(header) + i
      BY <1>1, <1>2, <2>1, SMT
    <3>2. frame[12 + i] = checked[12 + i]
      BY <1>7, <3>1, Zenon
    <3>3. checked[Len(header) + i] = payload[i]
      BY <1>4, Zenon
    <3> QED
      BY <3>1, <3>2, <3>3, Zenon
  <2> QED
    BY <2>1, <2>2, <2>3, <2>4
<1> QED
  BY <1>1, <1>3, <1>4, <1>5, <1>6, <1>7, <1>8 DEF header, checked

\* A frame that one side encodes (codec.c:51), with any payload that fits
\* and whatever bytes behind it, is accepted by the other side's decoder
\* (codec.c:79), which returns its type, its id and its payload: what the
\* core's model takes for granted, and why of several frames in one buffer
\* the first is the one that arrives.
THEOREM FrameComesBack ==
  ASSUME ChecksumIsWord,
         NEW type \in Byte, NEW payload \in Seq(Byte), Encodable(payload), NEW messageId \in Word,
         NEW rest \in Seq(Byte)
  PROVE  LET data == EncodeFrame(type, payload, messageId) \o rest
         IN  /\ FrameDecodes(data)
             /\ DecodeFrame(data) = [type |-> type, source |-> 0, destination |-> 0,
                                     messageId |-> WireId(messageId), index |-> 0, count |-> 1,
                                     payload |-> payload]
<1> DEFINE header == Header(type, Len(payload), messageId)
           checked == header \o payload
           frame == EncodeFrame(type, payload, messageId)
           data == frame \o rest
<1>1. /\ Len(payload) \in Word /\ Crc(checked) \in Word
      /\ checked \in Seq(Byte) /\ Len(checked) = 12 + Len(payload)
      /\ frame \in Seq(Byte) /\ Len(frame) = 14 + Len(payload)
      /\ \A i \in 1..12 : frame[i] = header[i]
      /\ \A i \in 1..Len(payload) : frame[12 + i] = payload[i]
      /\ \A i \in 1..Len(checked) : frame[i] = checked[i]
      /\ frame[13 + Len(payload)] = (Crc(checked) \div 256) % 256
      /\ frame[14 + Len(payload)] = Crc(checked) % 256
  BY FrameBuffer
<1> HIDE DEF checked, frame
<1>2. /\ data \in Seq(Byte) /\ Len(data) = Len(frame) + Len(rest)
      /\ \A i \in 1..Len(frame) : data[i] = frame[i]
  <2>1. frame \in Seq(Byte)
    BY <1>1
  <2> HIDE DEF header
  <2> QED
    BY <2>1, Behind
<1> HIDE DEF data, header
<1>3. /\ Len(payload) \in Nat /\ Len(data) \in Nat /\ Len(data) >= 14 + Len(payload)
      /\ \A i \in 1..12 : data[i] = header[i]
      /\ \A i \in 1..Len(payload) : data[12 + i] = payload[i]
      /\ \A i \in 1..Len(checked) : data[0 + i] = checked[i]
      /\ At(data, 12 + Len(payload)) = (Crc(checked) \div 256) % 256
      /\ At(data, 12 + Len(payload) + 1) = Crc(checked) % 256
  <2>1. Len(payload) \in Nat /\ Len(rest) \in Nat
    BY SMT
  <2>2. Len(data) \in Nat /\ Len(data) >= 14 + Len(payload)
    BY <1>1, <1>2, <2>1, SMT
  <2>3. \A i \in 1..(14 + Len(payload)) : data[i] = frame[i]
    BY <1>1, <1>2
  <2>4. \A i \in 1..12 : data[i] = header[i]
    <3> TAKE i \in 1..12
    <3>1. i \in 1..(14 + Len(payload))
      BY <2>1, SMT
    <3>2. data[i] = frame[i]
      BY <2>3, <3>1, Zenon
    <3> QED
      BY <1>1, <3>2, Zenon
  <2>5. \A i \in 1..Len(payload) : data[12 + i] = payload[i]
    <3> TAKE i \in 1..Len(payload)
    <3>1. 12 + i \in 1..(14 + Len(payload))
      BY <2>1, SMT
    <3>2. data[12 + i] = frame[12 + i]
      BY <2>3, <3>1, Zenon
    <3> QED
      BY <1>1, <3>2, Zenon
  <2>6. \A i \in 1..Len(checked) : data[0 + i] = checked[i]
    <3> TAKE i \in 1..Len(checked)
    <3>1. i \in 1..(14 + Len(payload)) /\ 0 + i = i
      BY <1>1, <2>1, SMT
    <3>2. data[i] = frame[i]
      BY <2>3, <3>1, Zenon
    <3> QED
      BY <1>1, <3>1, <3>2, Zenon
  <2>7. /\ data[13 + Len(payload)] = frame[13 + Len(payload)]
        /\ data[14 + Len(payload)] = frame[14 + Len(payload)]
    BY <2>1, <2>3, SMT
  <2>8. /\ At(data, 12 + Len(payload)) = data[13 + Len(payload)]
        /\ At(data, 12 + Len(payload) + 1) = data[14 + Len(payload)]
    BY <2>1, SMT DEF At
  <2> QED
    BY <1>1, <2>1, <2>2, <2>4, <2>5, <2>6, <2>7, <2>8
<1>4. /\ PayloadLength(data) = Len(payload) /\ CheckedLength(data) = 12 + Len(payload)
      /\ Part(data, 0, 3) = <<65, 88, 1>>
      /\ At(data, 3) = type /\ At(data, 6) = 0 /\ At(data, 7) = 0
      /\ ReadU16(data, 8) = WireId(messageId) /\ At(data, 10) = 0 /\ At(data, 11) = 1
  <2>1. Len(data) >= 12
    BY <1>3, SMT
  <2>2. \A i \in 1..12 : data[i] = Header(type, Len(payload), messageId)[i]
    BY <1>3 DEF header
  <2>3. Len(payload) \in Word /\ data \in Seq(Byte)
    BY <1>1, <1>2, Zenon
  <2>4. HeaderReads(data, type, Len(payload), messageId)
    BY <2>1, <2>2, <2>3, HeaderIsRead, Zenon
  <2> QED
    BY <2>4, Zenon DEF HeaderReads
<1>5. ReadU16(data, 12 + Len(payload)) = Crc(checked)
  <2> DEFINE offset == 12 + Len(payload)
  <2>1. offset \in Nat
    BY <1>3, SMT
  <2>2. Crc(checked) \in Word /\ data \in Seq(Byte)
    BY <1>1, <1>2, Zenon
  <2>3. /\ At(data, offset) = (Crc(checked) \div 256) % 256
        /\ At(data, offset + 1) = Crc(checked) % 256
    BY <1>3, Zenon
  <2> HIDE DEF offset
  <2>4. ReadU16(data, offset) = Crc(checked)
    BY <2>1, <2>2, <2>3, WordComesBack, Zenon
  <2> QED
    BY <2>4 DEF offset
<1>6. Part(data, 0, 12 + Len(payload)) = checked
  <2>1. 0 \in Nat /\ 0 + Len(checked) <= Len(data)
    BY <1>1, <1>3, SMT
  <2>2. Part(data, 0, Len(checked)) = checked
    BY <1>1, <1>2, <1>3, <2>1, PartIs, Zenon
  <2> QED
    BY <1>1, <2>2
<1>7. Part(data, 12, Len(payload)) = payload
  <2>1. 12 \in Nat /\ 12 + Len(payload) <= Len(data)
    BY <1>3, SMT
  <2> QED
    BY <1>2, <1>3, <2>1, PartIs, Zenon
<1>8. FrameDecodes(data)
  <2>1. /\ Len(data) >= HeaderSize + CrcSize
        /\ Len(data) >= CheckedLength(data) + CrcSize
    BY <1>3, <1>4, SMT DEF HeaderSize, CrcSize
  <2> QED
    BY <1>4, <1>5, <1>6, <2>1, Zenon DEF FrameDecodes
<1>9. DecodeFrame(data) = [type |-> type, source |-> 0, destination |-> 0,
                           messageId |-> WireId(messageId), index |-> 0, count |-> 1,
                           payload |-> payload]
  BY <1>4, <1>7, Zenon DEF DecodeFrame, HeaderSize
<1> QED
  BY <1>8, <1>9 DEF data, frame

\* A buffer that ends before its frame does is refused (codec.c:80, 88):
\* no part of a frame is taken for a shorter frame.
THEOREM CutFrameIsRefused ==
  ASSUME ChecksumIsWord,
         NEW type \in Byte, NEW payload \in Seq(Byte), Encodable(payload), NEW messageId \in Word,
         NEW n \in Nat, n < Len(EncodeFrame(type, payload, messageId))
  PROVE  ~FrameDecodes(SubSeq(EncodeFrame(type, payload, messageId), 1, n))
<1> DEFINE header == Header(type, Len(payload), messageId)
           frame == EncodeFrame(type, payload, messageId)
           cut == SubSeq(frame, 1, n)
<1>1. /\ Len(payload) \in Word /\ frame \in Seq(Byte) /\ Len(frame) = 14 + Len(payload)
      /\ \A i \in 1..12 : frame[i] = header[i]
  BY FrameBuffer
<1>2. n < Len(frame)
  OBVIOUS
<1> HIDE DEF header, frame
<1>3. Len(payload) \in Nat
  BY SMT
<1>4. cut \in Seq(Byte) /\ Len(cut) = n /\ \A i \in 1..n : cut[i] = frame[i]
  BY <1>1, <1>2, SMT
<1> HIDE DEF cut
<1>5. ASSUME n < 14 PROVE ~FrameDecodes(cut)
  BY <1>4, <1>5, SMT DEF FrameDecodes, HeaderSize, CrcSize
<1>6. ASSUME n >= 14 PROVE ~FrameDecodes(cut)
  <2>1. Len(cut) >= 12
    BY <1>4, <1>6, SMT
  <2>2. \A i \in 1..12 : cut[i] = header[i]
    BY <1>1, <1>4, <1>6, SMT
  <2>3. CheckedLength(cut) = 12 + Len(payload)
    BY <1>1, <1>4, <2>1, <2>2, HeaderIsRead DEF header, HeaderReads
  <2>4. ~(Len(cut) >= CheckedLength(cut) + CrcSize)
    BY <1>1, <1>2, <1>3, <1>4, <2>3, SMT DEF CrcSize
  <2> QED
    BY <2>4, Zenon DEF FrameDecodes
<1>7. n < 14 \/ n >= 14
  BY SMT
<1>8. ~FrameDecodes(cut)
  BY <1>5, <1>6, <1>7, Zenon
<1> QED
  BY <1>8 DEF cut, frame

=============================================================================
