----------------------------- MODULE StreamProofs ------------------------------
(***************************************************************************)
(* Theorems about streams: first what the operations of the registry do,   *)
(* as facts that the proofs about its users cite, then a registry in use,  *)
(* for every number of contexts, ids and names and every depth of nested   *)
(* close calls, then the media host, for every number of contexts,         *)
(* capacity, set of sources and pair of id ranges.                         *)
(***************************************************************************)
EXTENDS MediaHost, StreamUse, FiniteSetTheorems, TLAPS

\* A context that is active is never mistaken for a free one.
LEMMA FreeIsNotOpen == Free \notin Open
<1>1. \A r \in Open : DOMAIN r = {"id", "name", "hasSeq", "expected"}
  BY DEF Open
<1>2. DOMAIN Free = {"id"}
  BY DEF Free
<1> QED
  BY <1>1, <1>2

\* Sequence numbers stay below the limit.
LEMMA NextType ==
  ASSUME NEW seq \in SeqIds
  PROVE  Next32(seq) \in SeqIds
<1>1. seq + 1 \in Nat /\ SeqLimit \in Nat \ {0}
  BY RegistryAssumption DEF SeqIds
<1>2. (seq + 1) % SeqLimit \in 0..(SeqLimit - 1)
  BY <1>1
<1> QED
  BY <1>2 DEF Next32, SeqIds

\* Every call in progress keeps a context and an id.
LEMMA ClosingTypes ==
  ASSUME RegistryTypeOK, NEW k \in DOMAIN closing
  PROVE  closing[k].slot \in 1..Slots /\ closing[k].id \in StreamIds
<1> DEFINE S == [slot : 1..Slots, id : StreamIds]
<1>1. closing \in Seq(S)
  BY DEF RegistryTypeOK
<1>2. \A c \in S : c.slot \in 1..Slots /\ c.id \in StreamIds
  OBVIOUS
<1> HIDE DEF S
<1>3. closing[k] \in S
  BY <1>1
<1> QED
  BY <1>2, <1>3

\* The last of a sequence of calls, and the others.
LEMMA SeqParts ==
  ASSUME NEW S, NEW s \in Seq(S), s # <<>>
  PROVE  /\ Len(s) \in DOMAIN s
         /\ Last(s) = s[Len(s)] /\ Last(s) \in S
         /\ Front(s) \in Seq(S)
         /\ Len(Front(s)) = Len(s) - 1
         /\ \A k \in 1..(Len(s) - 1) : Front(s)[k] = s[k]
<1>1. Len(s) \in Nat \ {0} /\ DOMAIN s = 1..Len(s)
  OBVIOUS
<1>2. Last(s) = s[Len(s)] /\ s[Len(s)] \in S
  BY <1>1 DEF Last
<1>3. Front(s) = SubSeq(s, 1, Len(s) - 1)
  BY DEF Front
<1>4. \A k \in 1..(Len(s) - 1) : s[k] \in S
  BY <1>1
<1>5. Len(Front(s)) = Len(s) - 1 /\ \A k \in 1..(Len(s) - 1) : Front(s)[k] = s[k]
  BY <1>1, <1>3
<1>6. Front(s) \in Seq(S)
  BY <1>1, <1>3, <1>4
<1> QED
  BY <1>1, <1>2, <1>5, <1>6

\* The last of the calls in progress, and the others.
LEMMA ClosingParts ==
  ASSUME RegistryTypeOK, closing # <<>>
  PROVE  /\ Len(closing) \in DOMAIN closing
         /\ Last(closing) = closing[Len(closing)]
         /\ Last(closing) \in [slot : 1..Slots, id : StreamIds]
         /\ Front(closing) \in Seq([slot : 1..Slots, id : StreamIds])
         /\ Len(Front(closing)) = Len(closing) - 1
         /\ \A k \in 1..(Len(closing) - 1) : Front(closing)[k] = closing[k]
<1> DEFINE S == [slot : 1..Slots, id : StreamIds]
<1>1. closing \in Seq(S)
  BY DEF RegistryTypeOK
<1> HIDE DEF S
<1>2. /\ Len(closing) \in DOMAIN closing
      /\ Last(closing) = closing[Len(closing)] /\ Last(closing) \in S
      /\ Front(closing) \in Seq(S)
      /\ Len(Front(closing)) = Len(closing) - 1
      /\ \A k \in 1..(Len(closing) - 1) : Front(closing)[k] = closing[k]
  BY <1>1, SeqParts
<1> QED
  BY <1>2 DEF S

\* The new context of axtp_stream_registry_register.
Fresh(id, name) == [id |-> id, name |-> StoredName[name], hasSeq |-> FALSE, expected |-> 0]

\* Opening either changes nothing, or takes a free context for an id that no
\* stream has and, when exclusive, for a name that none has.
LEMMA RegisterEffect ==
  ASSUME RegistryTypeOK, NEW id \in StreamIds, NEW name \in Names, NEW exclusive \in BOOLEAN,
         Register(id, name, exclusive)
  PROVE  /\ RegistryTypeOK'
         /\ UNCHANGED <<closing, stats>>
         /\ \/ RegisterStatus(id, name, exclusive) # "SUCCESS" /\ UNCHANGED streams
            \/ /\ RegisterStatus(id, name, exclusive) = "SUCCESS"
               /\ ~HasStream(id)
               /\ exclusive => ~HasOpenStream(name)
               /\ \E i \in 1..Slots :
                    /\ streams[i] = Free
                    /\ streams' = [streams EXCEPT ![i] = Fresh(id, name)]
<1>1. UNCHANGED <<closing, stats>>
  BY DEF Register
<1>2. CASE RegisterStatus(id, name, exclusive) # "SUCCESS"
  BY <1>1, <1>2 DEF Register, RegistryTypeOK
<1>3. CASE RegisterStatus(id, name, exclusive) = "SUCCESS"
  <2>1. ~HasStream(id) /\ (exclusive => ~HasOpenStream(name))
    BY <1>3 DEF RegisterStatus
  <2>2. PICK i \in 1..Slots :
          streams[i] = Free /\ streams' = [streams EXCEPT ![i] = Fresh(id, name)]
    BY <1>3 DEF Register, IsFirstFree, Fresh
  <2>3. 0 \in SeqIds /\ StoredName[name] \in Names
    BY RegistryAssumption DEF SeqIds
  <2>4. Fresh(id, name) \in Open
    BY <2>3 DEF Fresh, Open
  <2>5. RegistryTypeOK'
    BY <1>1, <2>2, <2>4 DEF RegistryTypeOK
  <2> QED
    BY <1>1, <1>3, <2>1, <2>2, <2>5
<1> QED
  BY <1>2, <1>3

\* A close call looks up an active context of its id and keeps it.
LEMMA BeginCloseEffect ==
  ASSUME RegistryTypeOK, NEW id \in StreamIds, BeginClose(id)
  PROVE  /\ RegistryTypeOK'
         /\ UNCHANGED streams
         /\ \E i \in 1..Slots :
              /\ streams[i] # Free /\ streams[i].id = id
              /\ closing' = Append(closing, [slot |-> i, id |-> id])
<1>1. PICK i \in 1..Slots :
        /\ streams[i] # Free /\ streams[i].id = id
        /\ closing' = Append(closing, [slot |-> i, id |-> id])
        /\ UNCHANGED <<streams, stats>>
  BY DEF BeginClose, IsContextOf
<1>2. RegistryTypeOK'
  BY <1>1 DEF RegistryTypeOK
<1> QED
  BY <1>1, <1>2

\* The end of a close call frees the context that it kept.
LEMMA EndCloseEffect ==
  ASSUME RegistryTypeOK, EndClose
  PROVE  /\ RegistryTypeOK'
         /\ Last(closing) \in [slot : 1..Slots, id : StreamIds]
         /\ streams' = [streams EXCEPT ![Last(closing).slot] = Free]
         /\ closing' = Front(closing)
<1>1. closing # <<>>
  BY DEF EndClose
<1> QED
  BY <1>1, ClosingParts DEF EndClose, RegistryTypeOK

\* A chunk leaves every context free, or active with its id and its name.
LEMMA HandleEffect ==
  ASSUME RegistryTypeOK, NEW id \in StreamIds, NEW seq \in SeqIds, Handle(id, seq)
  PROVE  /\ RegistryTypeOK'
         /\ UNCHANGED closing
         /\ \A j \in 1..Slots :
              /\ streams'[j] = Free <=> streams[j] = Free
              /\ streams[j] # Free => /\ streams'[j].id = streams[j].id
                                      /\ streams'[j].name = streams[j].name
<1>1. UNCHANGED closing
  BY DEF Handle
<1>2. CASE ~HasStream(id)
  <2>1. UNCHANGED streams /\ stats' = [stats EXCEPT !.unknown = @ + 1]
    BY <1>2 DEF Handle, HasStream, IsContextOf
  <2>2. stats' \in [Counters -> Nat]
    <3>1. "unknown" \in Counters
      BY DEF Counters
    <3>2. stats["unknown"] + 1 \in Nat
      BY <3>1 DEF RegistryTypeOK
    <3> QED
      BY <2>1, <3>2 DEF RegistryTypeOK
  <2> QED
    BY <1>1, <2>1, <2>2 DEF RegistryTypeOK
<1>3. CASE HasStream(id)
  <2>1. PICK i \in 1..Slots :
          /\ streams[i] # Free
          /\ stats' = [c \in Counters |->
                         IF c \in Counted(streams[i], seq) THEN stats[c] + 1 ELSE stats[c]]
          /\ streams' = [streams EXCEPT ![i].hasSeq = TRUE, ![i].expected = Next32(seq)]
    BY <1>3 DEF Handle, IsContextOf
  <2>2. stats' \in [Counters -> Nat]
    <3> DEFINE T == Counted(streams[i], seq)
    <3>1. stats' = [c \in Counters |-> IF c \in T THEN stats[c] + 1 ELSE stats[c]]
      BY <2>1
    <3> HIDE DEF T
    <3>2. \A c \in Counters : stats[c] \in Nat
      BY DEF RegistryTypeOK
    <3>3. \A c \in Counters : (IF c \in T THEN stats[c] + 1 ELSE stats[c]) \in Nat
      BY <3>2
    <3> QED
      BY <3>1, <3>3
  <2>3. streams[i] \in Open
    BY <2>1 DEF RegistryTypeOK
  <2> DEFINE c == [streams[i] EXCEPT !.hasSeq = TRUE, !.expected = Next32(seq)]
  <2>4. c \in Open /\ c.id = streams[i].id /\ c.name = streams[i].name
    BY <2>3, NextType DEF Open
  <2>5. streams' = [streams EXCEPT ![i] = c]
    BY <2>1, <2>3 DEF RegistryTypeOK
  <2>6. c # Free
    BY <2>4, FreeIsNotOpen
  <2> HIDE DEF c
  <2>7. streams' \in [1..Slots -> Open \cup {Free}]
    BY <2>4, <2>5 DEF RegistryTypeOK
  <2>8. RegistryTypeOK'
    BY <1>1, <2>2, <2>7 DEF RegistryTypeOK
  <2>9. ASSUME NEW j \in 1..Slots
        PROVE  /\ streams'[j] = Free <=> streams[j] = Free
               /\ streams[j] # Free => /\ streams'[j].id = streams[j].id
                                       /\ streams'[j].name = streams[j].name
    BY <2>1, <2>4, <2>5, <2>6 DEF RegistryTypeOK
  <2> QED
    BY <1>1, <2>8, <2>9
<1> QED
  BY <1>2, <1>3

-----------------------------------------------------------------------------
(* The registry in use.                                                    *)

\* Close calls within a call erase contexts of their own, unless one of them
\* closes the stream of that call once more.
ErasedElsewhere ==
  \A k, m \in DOMAIN closing : k < m /\ k \notin again => closing[m].slot # closing[k].slot

RegistryInv ==
  /\ RegistryTypeOK
  /\ UniqueStreams
  /\ ContextStaysItsOwn
  /\ ErasedElsewhere

\* Opening a stream keeps the invariant.
LEMMA OpenKeepsInv ==
  ASSUME RegistryInv, NEW id \in StreamIds, NEW name \in Names, NEW exclusive \in BOOLEAN,
         OpenStream(id, name, exclusive)
  PROVE  RegistryInv'
<1>1. RegistryTypeOK' /\ UNCHANGED <<closing, again>>
  BY RegisterEffect DEF RegistryInv, OpenStream
<1>2. CASE UNCHANGED streams
  BY <1>1, <1>2 DEF RegistryInv, UniqueStreams, ContextStaysItsOwn, ErasedElsewhere
<1>3. ASSUME ~HasStream(id), NEW i \in 1..Slots, streams[i] = Free,
             streams' = [streams EXCEPT ![i] = Fresh(id, name)]
      PROVE  RegistryInv'
  <2>1. streams'[i].id = id /\ \A j \in 1..Slots : j # i => streams'[j] = streams[j]
    BY <1>3 DEF RegistryInv, RegistryTypeOK, Fresh
  <2>2. \A j \in 1..Slots : streams[j] # Free => streams[j].id # id
    BY <1>3 DEF HasStream
  <2>3. UniqueStreams'
    BY <2>1, <2>2 DEF RegistryInv, UniqueStreams
  <2>4. ContextStaysItsOwn'
    <3> SUFFICES ASSUME NEW k \in DOMAIN closing \ again
                 PROVE  /\ streams'[closing[k].slot] # Free
                        /\ streams'[closing[k].slot].id = closing[k].id
      BY <1>1 DEF ContextStaysItsOwn
    <3>1. closing[k].slot \in 1..Slots
      BY ClosingTypes DEF RegistryInv
    <3>2. streams[closing[k].slot] # Free /\ streams[closing[k].slot].id = closing[k].id
      BY DEF RegistryInv, ContextStaysItsOwn
    <3> QED
      BY <1>3, <2>1, <3>1, <3>2
  <2> QED
    BY <1>1, <2>3, <2>4 DEF RegistryInv, ErasedElsewhere
<1> QED
  BY <1>2, <1>3, RegisterEffect DEF RegistryInv, OpenStream

\* A close call that starts keeps the invariant: only a call for the same
\* stream can keep the same context.
LEMMA StartKeepsInv ==
  ASSUME RegistryInv, NEW id \in StreamIds, CallClose(id)
  PROVE  RegistryInv'
<1>1. RegistryTypeOK' /\ UNCHANGED streams
  BY BeginCloseEffect DEF RegistryInv, CallClose
<1>2. PICK i \in 1..Slots :
        /\ streams[i] # Free /\ streams[i].id = id
        /\ closing' = Append(closing, [slot |-> i, id |-> id])
  BY BeginCloseEffect DEF RegistryInv, CallClose
<1> DEFINE n == Len(closing)
<1>3. DOMAIN closing = 1..n /\ n \in Nat
  BY DEF RegistryInv, RegistryTypeOK
<1>4. /\ DOMAIN closing' = 1..(n + 1)
      /\ closing'[n + 1] = [slot |-> i, id |-> id]
      /\ \A k \in 1..n : closing'[k] = closing[k]
  BY <1>2, <1>3 DEF RegistryInv, RegistryTypeOK
<1>5. \A k \in 1..n : k \notin again' => k \notin again /\ closing[k].id # id
  BY <1>3 DEF CallClose
<1> HIDE DEF n
<1>6. ASSUME NEW k \in 1..n, k \notin again'
      PROVE  /\ streams[closing[k].slot] # Free /\ streams[closing[k].slot].id = closing[k].id
             /\ closing[k].slot # i
  <2>1. streams[closing[k].slot] # Free /\ streams[closing[k].slot].id = closing[k].id
    BY <1>3, <1>5, <1>6 DEF RegistryInv, ContextStaysItsOwn
  <2> QED
    BY <1>2, <1>5, <1>6, <2>1
<1>7. \A k \in 1..(n + 1) : k \in 1..n \/ k = n + 1
  BY <1>3
<1>8. ContextStaysItsOwn'
  <2> SUFFICES ASSUME NEW k \in 1..(n + 1), k \notin again'
               PROVE  /\ streams[closing'[k].slot] # Free
                      /\ streams[closing'[k].slot].id = closing'[k].id
    BY <1>1, <1>4 DEF ContextStaysItsOwn
  <2>1. CASE k \in 1..n
    BY <1>4, <1>6, <2>1
  <2>2. CASE k = n + 1
    BY <1>2, <1>4, <2>2
  <2> QED
    BY <1>7, <2>1, <2>2
<1>9. ErasedElsewhere'
  <2> SUFFICES ASSUME NEW k \in 1..(n + 1), NEW m \in 1..(n + 1), k < m, k \notin again'
               PROVE  closing'[m].slot # closing'[k].slot
    BY <1>4 DEF ErasedElsewhere
  <2>1. k \in 1..n
    BY <1>3
  <2>2. CASE m \in 1..n
    BY <1>3, <1>4, <1>5, <2>1, <2>2 DEF RegistryInv, ErasedElsewhere
  <2>3. CASE m = n + 1
    BY <1>4, <1>6, <2>1, <2>3
  <2> QED
    BY <1>7, <2>2, <2>3
<1> QED
  BY <1>1, <1>8, <1>9 DEF RegistryInv, UniqueStreams

\* The end of a close call keeps the invariant.
LEMMA EndKeepsInv ==
  ASSUME RegistryInv, CloseReturns
  PROVE  RegistryInv'
<1>1. /\ RegistryTypeOK'
      /\ Last(closing) \in [slot : 1..Slots, id : StreamIds]
      /\ streams' = [streams EXCEPT ![Last(closing).slot] = Free]
      /\ closing' = Front(closing)
  BY EndCloseEffect DEF RegistryInv, CloseReturns
<1>2. closing # <<>> /\ again' = again \ {Len(closing)}
  BY DEF CloseReturns, EndClose
<1> DEFINE n == Len(closing)
<1>3. /\ n \in Nat /\ DOMAIN closing = 1..n /\ n \in DOMAIN closing
      /\ Last(closing) = closing[n]
      /\ DOMAIN closing' = 1..(n - 1)
      /\ \A k \in 1..(n - 1) : closing'[k] = closing[k]
  <2>1. RegistryTypeOK
    BY DEF RegistryInv
  <2>2. Front(closing) \in Seq([slot : 1..Slots, id : StreamIds]) /\ Len(Front(closing)) = n - 1
    BY <1>2, <2>1, ClosingParts
  <2> QED
    BY <1>1, <1>2, <2>1, <2>2, ClosingParts DEF RegistryTypeOK
<1> HIDE DEF n
<1>4. \A k \in 1..(n - 1) :
        k \in DOMAIN closing /\ k < n /\ (k \notin again' => k \notin again)
  <2>1. again' = again \ {n}
    BY <1>2 DEF n
  <2>2. \A k \in 1..(n - 1) : k \in 1..n /\ k < n /\ k # n
    BY <1>3
  <2> QED
    BY <1>3, <2>1, <2>2
<1>5. UniqueStreams'
  BY <1>1 DEF RegistryInv, RegistryTypeOK, UniqueStreams
<1>6. ContextStaysItsOwn'
  <2> SUFFICES ASSUME NEW k \in 1..(n - 1), k \notin again'
               PROVE  /\ streams'[closing[k].slot] # Free
                      /\ streams'[closing[k].slot].id = closing[k].id
    BY <1>3 DEF ContextStaysItsOwn
  <2>1. closing[k].slot # closing[n].slot
    BY <1>3, <1>4 DEF RegistryInv, ErasedElsewhere
  <2>2. closing[k].slot \in 1..Slots /\ closing[k].slot # Last(closing).slot
    BY <1>3, <1>4, <2>1, ClosingTypes DEF RegistryInv
  <2>3. streams'[closing[k].slot] = streams[closing[k].slot]
    BY <1>1, <2>2 DEF RegistryInv, RegistryTypeOK
  <2> QED
    BY <1>4, <2>3 DEF RegistryInv, ContextStaysItsOwn
<1>7. ErasedElsewhere'
  BY <1>3, <1>4 DEF RegistryInv, ErasedElsewhere
<1> QED
  BY <1>1, <1>5, <1>6, <1>7 DEF RegistryInv

\* A chunk keeps the invariant.
LEMMA HandleKeepsInv ==
  ASSUME RegistryInv, NEW id \in StreamIds, NEW seq \in SeqIds, Chunk(id, seq)
  PROVE  RegistryInv'
<1>1. /\ RegistryTypeOK'
      /\ UNCHANGED <<closing, again>>
      /\ \A j \in 1..Slots : /\ streams'[j] = Free <=> streams[j] = Free
                             /\ streams[j] # Free => streams'[j].id = streams[j].id
  BY HandleEffect DEF RegistryInv, Chunk
<1>2. UniqueStreams'
  BY <1>1 DEF RegistryInv, UniqueStreams
<1>3. \A k \in DOMAIN closing : closing[k].slot \in 1..Slots
  BY ClosingTypes DEF RegistryInv
<1>4. ContextStaysItsOwn'
  BY <1>1, <1>3 DEF RegistryInv, ContextStaysItsOwn
<1> QED
  BY <1>1, <1>2, <1>4 DEF RegistryInv, ErasedElsewhere

\* However streams are opened, closed and used, also from within the sink, the
\* invariant holds.
THEOREM RegistryInvHolds == UseSpec => []RegistryInv
<1>1. UseInit => RegistryInv
  <2> SUFFICES ASSUME UseInit PROVE RegistryInv
    OBVIOUS
  <2>1. RegistryTypeOK
    BY DEF UseInit, RegistryInit, RegistryTypeOK
  <2>2. closing = <<>> /\ \A i \in 1..Slots : streams[i] = Free
    BY DEF UseInit, RegistryInit
  <2> QED
    BY <2>1, <2>2 DEF RegistryInv, UniqueStreams, ContextStaysItsOwn, ErasedElsewhere
<1>2. RegistryInv /\ [UseNext]_useVars => RegistryInv'
  <2> SUFFICES ASSUME RegistryInv, [UseNext]_useVars PROVE RegistryInv'
    OBVIOUS
  <2>1. ASSUME NEW id \in StreamIds, NEW n \in Names, NEW ex \in BOOLEAN, OpenStream(id, n, ex)
        PROVE  RegistryInv'
    BY <2>1, OpenKeepsInv
  <2>2. ASSUME NEW id \in StreamIds, CallClose(id) PROVE RegistryInv'
    BY <2>2, StartKeepsInv
  <2>3. CASE CloseReturns
    BY <2>3, EndKeepsInv
  <2>4. ASSUME NEW id \in StreamIds, NEW seq \in SeqIds, Chunk(id, seq) PROVE RegistryInv'
    BY <2>4, HandleKeepsInv
  <2>5. CASE UNCHANGED useVars
    BY <2>5 DEF useVars, registryVars, RegistryInv, RegistryTypeOK, UniqueStreams,
                ContextStaysItsOwn, ErasedElsewhere
  <2> QED
    BY <2>1, <2>2, <2>3, <2>4, <2>5 DEF UseNext
<1> QED
  BY <1>1, <1>2, PTL DEF UseSpec

\* No two active contexts have the same stream id, so looking a stream up
\* always finds the one (stream.c:24).
THEOREM StreamsUnique == UseSpec => []UniqueStreams
<1>1. RegistryInv => UniqueStreams
  BY DEF RegistryInv
<1> QED
  BY <1>1, RegistryInvHolds, PTL

\* A context that a close call keeps across the sink is given to no other stream
\* before the call erases it (stream.c:147), at any depth of calls and whatever
\* the sink opens and closes, unless it closes that same stream once more.
THEOREM ContextKept == UseSpec => []ContextStaysItsOwn
<1>1. RegistryInv => ContextStaysItsOwn
  BY DEF RegistryInv
<1> QED
  BY <1>1, RegistryInvHolds, PTL

-----------------------------------------------------------------------------
(* What the counters say.                                                  *)

\* What a context expects next follows from what its stream heard last; one
\* that has heard nothing expects nothing.
ExpectsWhatFollows ==
  \A i \in 1..Slots : streams[i] # Free =>
    LET s == heard[streams[i].id]
    IN  /\ streams[i].hasSeq <=> s # <<>>
        /\ s # <<>> => streams[i].expected = Next32(Last(s))

\* Only sets that are finite can be counted.
LapsesFinite == \A kind \in Lapses : IsFiniteSet(LapsesIn(kind, heard, OpenIds))

AccountInv ==
  /\ UseTypeOK
  /\ ExpectsWhatFollows
  /\ LapsesFinite
  /\ AccountingExact

\* Two numbers with the same successor are the same, also where they wrap.
LEMMA NextInjective ==
  ASSUME NEW a \in SeqIds, NEW b \in SeqIds, Next32(a) = Next32(b)
  PROVE  a = b
<1> DEFINE m == SeqLimit
<1>1. m \in Nat \ {0} /\ a \in 0..(m - 1) /\ b \in 0..(m - 1)
  BY RegistryAssumption DEF SeqIds
<1>2. (a + 1) % m = (b + 1) % m
  BY DEF Next32
<1> HIDE DEF m
<1>3. \A x \in 0..(m - 1) : (x + 1) % m = IF x + 1 = m THEN 0 ELSE x + 1
  BY <1>1
<1> QED
  BY <1>1, <1>2, <1>3

\* What it means to be a lapse that is counted.
LEMMA LapseMeans ==
  ASSUME NEW kind, NEW h, NEW ids, NEW p
  PROVE  p \in LapsesIn(kind, h, ids) <=>
           \E id \in ids : \E i \in 2..Len(h[id]) :
             p = <<id, i>> /\ LapseOf(h[id][i - 1], h[id][i]) = kind
BY DEF LapsesIn

\* Streams that heard the same have the same lapses.
LEMMA LapsesSame ==
  ASSUME NEW kind, NEW h, NEW g, NEW ids, \A id \in ids : h[id] = g[id]
  PROVE  LapsesIn(kind, h, ids) = LapsesIn(kind, g, ids)
<1>1. ASSUME NEW p, p \in LapsesIn(kind, h, ids) PROVE p \in LapsesIn(kind, g, ids)
  <2>1. PICK id \in ids : \E i \in 2..Len(h[id]) :
          p = <<id, i>> /\ LapseOf(h[id][i - 1], h[id][i]) = kind
    BY <1>1, LapseMeans
  <2>2. h[id] = g[id]
    OBVIOUS
  <2> QED
    BY <2>1, <2>2, LapseMeans, Zenon
<1>2. ASSUME NEW p, p \in LapsesIn(kind, g, ids) PROVE p \in LapsesIn(kind, h, ids)
  <2>1. PICK id \in ids : \E i \in 2..Len(g[id]) :
          p = <<id, i>> /\ LapseOf(g[id][i - 1], g[id][i]) = kind
    BY <1>2, LapseMeans
  <2>2. h[id] = g[id]
    OBVIOUS
  <2> QED
    BY <2>1, <2>2, LapseMeans, Zenon
<1> QED
  BY <1>1, <1>2

\* The lapses of disjoint sets of streams are disjoint.
LEMMA LapsesSplit ==
  ASSUME NEW kind, NEW h, NEW ids, NEW part \in SUBSET ids
  PROVE  /\ LapsesIn(kind, h, ids) = LapsesIn(kind, h, part) \cup LapsesIn(kind, h, ids \ part)
         /\ LapsesIn(kind, h, part) \cap LapsesIn(kind, h, ids \ part) = {}
<1>1. \A p : p \in LapsesIn(kind, h, ids) <=>
               p \in LapsesIn(kind, h, part) \/ p \in LapsesIn(kind, h, ids \ part)
  BY LapseMeans
<1>2. \A p : ~(p \in LapsesIn(kind, h, part) /\ p \in LapsesIn(kind, h, ids \ part))
  <2> SUFFICES ASSUME NEW p, p \in LapsesIn(kind, h, part), p \in LapsesIn(kind, h, ids \ part)
               PROVE  FALSE
    OBVIOUS
  <2>1. PICK id \in part : \E i : p = <<id, i>>
    BY LapseMeans
  <2>2. PICK jd \in ids \ part : \E j : p = <<jd, j>>
    BY LapseMeans
  <2> QED
    BY <2>1, <2>2
<1> QED
  BY <1>1, <1>2

\* The lapses of one stream apart from those of the others.
LEMMA LapsesOfOne ==
  ASSUME NEW kind, NEW h, NEW ids, NEW id \in ids
  PROVE  LapsesIn(kind, h, ids) = LapsesIn(kind, h, {id}) \cup LapsesIn(kind, h, ids \ {id})
<1>1. {id} \in SUBSET ids
  OBVIOUS
<1> QED
  BY <1>1, LapsesSplit

\* A stream that has heard nothing has no lapses.
LEMMA NoLapses ==
  ASSUME NEW kind, NEW h, NEW id, h[id] = <<>>
  PROVE  LapsesIn(kind, h, {id}) = {}
<1>1. 2..Len(h[id]) = {}
  OBVIOUS
<1>2. \A p : p \notin LapsesIn(kind, h, {id})
  BY <1>1, LapseMeans
<1> QED
  BY <1>2

\* No lapse is counted at a place that no chunk has taken yet.
LEMMA LapseIsNew ==
  ASSUME NEW kind, NEW ids, NEW h, NEW id \in ids, Len(h[id]) \in Nat
  PROVE  <<id, Len(h[id]) + 1>> \notin LapsesIn(kind, h, ids)
<1> SUFFICES ASSUME <<id, Len(h[id]) + 1>> \in LapsesIn(kind, h, ids) PROVE FALSE
  OBVIOUS
<1>1. PICK jd \in ids : \E i \in 2..Len(h[jd]) : <<id, Len(h[id]) + 1>> = <<jd, i>>
  BY LapseMeans
<1> QED
  BY <1>1

\* Among some streams one has heard one chunk more.
IsLonger(h, g, id, ids) ==
  /\ id \in ids /\ Len(h[id]) \in Nat /\ Len(g[id]) = Len(h[id]) + 1
  /\ \A jd \in ids : jd # id => g[jd] = h[jd]
  /\ \A i \in 2..Len(h[id]) :
       LapseOf(g[id][i - 1], g[id][i]) = LapseOf(h[id][i - 1], h[id][i])

\* The lapses of a stream whose sequence is longer by one.
LEMMA LapsesLonger ==
  ASSUME NEW kind, NEW ids, NEW h, NEW g, NEW id, IsLonger(h, g, id, ids)
  PROVE  LapsesIn(kind, g, ids) =
           IF Len(h[id]) # 0 /\ LapseOf(g[id][Len(h[id])], g[id][Len(h[id]) + 1]) = kind
             THEN LapsesIn(kind, h, ids) \cup {<<id, Len(h[id]) + 1>>}
             ELSE LapsesIn(kind, h, ids)
<1> DEFINE n == Len(h[id])
           adds == n # 0 /\ LapseOf(g[id][n], g[id][n + 1]) = kind
           p == <<id, n + 1>>
<1>1. n \in Nat /\ Len(h[id]) = n /\ Len(g[id]) = n + 1 /\ id \in ids
  BY DEF IsLonger
<1>2. ASSUME NEW q
      PROVE  q \in LapsesIn(kind, g, ids) <=> q \in LapsesIn(kind, h, ids) \/ (adds /\ q = p)
  <2>1. ASSUME NEW jd \in ids, jd # id
        PROVE  (\E i \in 2..Len(g[jd]) :
                  q = <<jd, i>> /\ LapseOf(g[jd][i - 1], g[jd][i]) = kind)
                 <=> \E i \in 2..Len(h[jd]) :
                       q = <<jd, i>> /\ LapseOf(h[jd][i - 1], h[jd][i]) = kind
    BY <2>1 DEF IsLonger
  <2> HIDE DEF n
  <2>2. (\E i \in 2..(n + 1) : q = <<id, i>> /\ LapseOf(g[id][i - 1], g[id][i]) = kind)
          <=> \/ \E i \in 2..n : q = <<id, i>> /\ LapseOf(h[id][i - 1], h[id][i]) = kind
              \/ adds /\ q = p
    <3>1. \A i : i \in 2..(n + 1) <=> i \in 2..n \/ (n # 0 /\ i = n + 1)
      BY <1>1
    <3>2. (n + 1) - 1 = n
      BY <1>1
    <3>3. \A i \in 2..n : LapseOf(g[id][i - 1], g[id][i]) = LapseOf(h[id][i - 1], h[id][i])
      BY DEF n, IsLonger
    <3> QED
      BY <3>1, <3>2, <3>3, Zenon
  <2> HIDE DEF p, adds
  <2>3. q \in LapsesIn(kind, g, ids) <=>
          \E jd \in ids : \E i \in 2..Len(g[jd]) :
            q = <<jd, i>> /\ LapseOf(g[jd][i - 1], g[jd][i]) = kind
    BY LapseMeans
  <2>4. q \in LapsesIn(kind, h, ids) <=>
          \E jd \in ids : \E i \in 2..Len(h[jd]) :
            q = <<jd, i>> /\ LapseOf(h[jd][i - 1], h[jd][i]) = kind
    BY LapseMeans
  <2> QED
    BY <1>1, <2>1, <2>2, <2>3, <2>4, Zenon
<1>3. LapsesIn(kind, g, ids) = IF adds THEN LapsesIn(kind, h, ids) \cup {p}
                                       ELSE LapsesIn(kind, h, ids)
  <2> HIDE DEF p, adds
  <2> QED
    BY <1>2
<1> QED
  BY <1>3

\* Among some streams one hears a chunk.
Hears(h, g, id, ids, seq) ==
  /\ id \in ids /\ h[id] \in Seq(SeqIds) /\ seq \in SeqIds
  /\ g[id] = Append(h[id], seq)
  /\ \A jd \in ids : jd # id => g[jd] = h[jd]

\* One chunk more is one lapse more, when it does not follow the one before.
LEMMA LapseAdded ==
  ASSUME NEW kind, NEW ids, NEW h, NEW g, NEW id, NEW seq, Hears(h, g, id, ids, seq)
  PROVE  LapsesIn(kind, g, ids) =
           IF h[id] # <<>> /\ LapseOf(Last(h[id]), seq) = kind
             THEN LapsesIn(kind, h, ids) \cup {<<id, Len(h[id]) + 1>>}
             ELSE LapsesIn(kind, h, ids)
<1> DEFINE s == h[id]
           n == Len(s)
           adds == s # <<>> /\ LapseOf(Last(s), seq) = kind
<1>1. s \in Seq(SeqIds) /\ n \in Nat /\ seq \in SeqIds /\ g[id] = Append(s, seq)
  BY DEF Hears
<1> HIDE DEF s
<1>2. /\ Len(g[id]) = n + 1 /\ g[id][n + 1] = seq
      /\ \A i \in 1..n : g[id][i] = s[i]
  BY <1>1
<1>3. \A i \in 2..n : LapseOf(g[id][i - 1], g[id][i]) = LapseOf(s[i - 1], s[i])
  <2> SUFFICES ASSUME NEW i \in 2..n
               PROVE  LapseOf(g[id][i - 1], g[id][i]) = LapseOf(s[i - 1], s[i])
    OBVIOUS
  <2>1. i - 1 \in 1..n /\ i \in 1..n
    BY <1>1
  <2>2. g[id][i - 1] = s[i - 1] /\ g[id][i] = s[i]
    BY <1>2, <2>1
  <2> QED
    BY <2>2
<1>4. s # <<>> <=> n # 0
  BY <1>1
<1>5. n # 0 => Last(s) = g[id][n]
  <2>1. n # 0 => n \in 1..n
    BY <1>1
  <2> QED
    BY <1>2, <2>1 DEF Last
<1>6. adds <=> n # 0 /\ LapseOf(g[id][n], g[id][n + 1]) = kind
  BY <1>2, <1>4, <1>5
<1> HIDE DEF adds, n
<1>7. IsLonger(h, g, id, ids)
  BY <1>1, <1>2, <1>3 DEF IsLonger, Hears, n, s
<1>8. LapsesIn(kind, g, ids) =
        IF Len(h[id]) # 0 /\ LapseOf(g[id][Len(h[id])], g[id][Len(h[id]) + 1]) = kind
          THEN LapsesIn(kind, h, ids) \cup {<<id, Len(h[id]) + 1>>}
          ELSE LapsesIn(kind, h, ids)
  BY <1>7, LapsesLonger
<1>9. Len(h[id]) # 0 /\ LapseOf(g[id][Len(h[id])], g[id][Len(h[id]) + 1]) = kind
         <=> h[id] # <<>> /\ LapseOf(Last(h[id]), seq) = kind
  BY <1>6 DEF adds, n, s
<1> QED
  BY <1>8, <1>9, Zenon

\* The open ids are those of the active contexts.
LEMMA OpenIdsMeans ==
  \A id : id \in OpenIds <=> \E i \in 1..Slots : streams[i] # Free /\ streams[i].id = id
BY DEF OpenIds

LEMMA OpenIdsMeansNext ==
  \A id : id \in OpenIds' <=> \E i \in 1..Slots : streams'[i] # Free /\ streams'[i].id = id
BY DEF OpenIds

\* Streams that are open have ids of the type.
LEMMA OpenIdsType ==
  ASSUME RegistryTypeOK
  PROVE  OpenIds \subseteq StreamIds
<1> SUFFICES ASSUME NEW id \in OpenIds PROVE id \in StreamIds
  OBVIOUS
<1>1. PICK i \in 1..Slots : streams[i] # Free /\ streams[i].id = id
  BY OpenIdsMeans
<1>2. streams[i] \in Open
  BY <1>1 DEF RegistryTypeOK
<1> QED
  BY <1>1, <1>2 DEF Open

\* A step that leaves the lapses of the open streams and their counters alone
\* leaves the counts right.
LEMMA CountsKept ==
  ASSUME LapsesFinite, AccountingExact, UNCHANGED settled,
         \A kind \in Lapses :
           /\ stats'[kind] = stats[kind]
           /\ LapsesIn(kind, heard, OpenIds)' = LapsesIn(kind, heard, OpenIds)
  PROVE  LapsesFinite' /\ AccountingExact'
<1>1. ASSUME NEW kind \in Lapses
      PROVE  /\ IsFiniteSet(LapsesIn(kind, heard, OpenIds)')
             /\ stats'[kind] = settled'[kind] + Cardinality(LapsesIn(kind, heard, OpenIds)')
  <2>1. IsFiniteSet(LapsesIn(kind, heard, OpenIds))
    BY DEF LapsesFinite
  <2>2. stats[kind] = settled[kind] + Cardinality(LapsesIn(kind, heard, OpenIds))
    BY DEF AccountingExact
  <2> QED
    BY <2>1, <2>2, Zenon
<1> QED
  BY <1>1 DEF LapsesFinite, AccountingExact

\* Opening a stream keeps the accounts: its sequence starts anew.
LEMMA OpenKeepsAccounts ==
  ASSUME RegistryInv, AccountInv, NEW id \in StreamIds, NEW name \in Names,
         NEW exclusive \in BOOLEAN, OpenStream(id, name, exclusive)
  PROVE  AccountInv'
<1>1. /\ RegistryTypeOK' /\ UNCHANGED <<closing, stats>>
      /\ \/ RegisterStatus(id, name, exclusive) # "SUCCESS" /\ UNCHANGED streams
         \/ /\ RegisterStatus(id, name, exclusive) = "SUCCESS"
            /\ ~HasStream(id)
            /\ \E i \in 1..Slots :
                 streams[i] = Free /\ streams' = [streams EXCEPT ![i] = Fresh(id, name)]
  BY RegisterEffect DEF OpenStream, RegistryInv
<1>2. /\ heard \in [StreamIds -> Seq(SeqIds)] /\ UNCHANGED <<settled, again>>
      /\ again \subseteq DOMAIN closing
  BY DEF AccountInv, UseTypeOK, OpenStream
<1>3. CASE RegisterStatus(id, name, exclusive) # "SUCCESS"
  <2>1. UNCHANGED streams /\ UNCHANGED heard
    BY <1>1, <1>3 DEF OpenStream
  <2>2. UseTypeOK'
    BY <1>1, <1>2, <2>1 DEF AccountInv, UseTypeOK
  <2>3. ExpectsWhatFollows'
    BY <2>1 DEF AccountInv, ExpectsWhatFollows
  <2>4. LapsesFinite' /\ AccountingExact'
    BY <1>1, <1>2, <2>1, CountsKept DEF AccountInv, OpenIds
  <2> QED
    BY <2>2, <2>3, <2>4 DEF AccountInv
<1>4. CASE RegisterStatus(id, name, exclusive) = "SUCCESS"
  <2>1. PICK i \in 1..Slots :
          streams[i] = Free /\ streams' = [streams EXCEPT ![i] = Fresh(id, name)]
    BY <1>1, <1>4
  <2>2. /\ streams'[i] = Fresh(id, name)
        /\ \A j \in 1..Slots : j # i => streams'[j] = streams[j]
    BY <2>1 DEF RegistryInv, RegistryTypeOK
  <2>3. \A j \in 1..Slots : streams[j] # Free => streams[j].id # id
    BY <1>1, <1>4 DEF HasStream
  <2>4. heard' = [heard EXCEPT ![id] = <<>>]
    BY <1>4 DEF OpenStream
  <2>5. heard'[id] = <<>> /\ \A jd \in StreamIds : jd # id => heard'[jd] = heard[jd]
    BY <1>2, <2>4
  <2>6. UseTypeOK'
    <3>1. <<>> \in Seq(SeqIds)
      OBVIOUS
    <3>2. heard' \in [StreamIds -> Seq(SeqIds)]
      BY <1>2, <2>4, <3>1
    <3> QED
      BY <1>1, <1>2, <3>2 DEF AccountInv, UseTypeOK
  <2>7. ExpectsWhatFollows'
    <3> SUFFICES ASSUME NEW j \in 1..Slots, streams'[j] # Free
                 PROVE  LET s == heard'[streams'[j].id]
                        IN  /\ streams'[j].hasSeq <=> s # <<>>
                            /\ s # <<>> => streams'[j].expected = Next32(Last(s))
      BY DEF ExpectsWhatFollows
    <3>1. CASE j = i
      BY <2>2, <2>5, <3>1 DEF Fresh
    <3>2. CASE j # i
      <4>1. streams'[j] = streams[j] /\ streams[j] # Free
        BY <2>2, <3>2
      <4>2. streams[j].id \in StreamIds
        BY <4>1, OpenIdsMeans, OpenIdsType DEF RegistryInv
      <4>3. heard'[streams[j].id] = heard[streams[j].id]
        BY <2>3, <2>5, <4>1, <4>2
      <4> QED
        BY <4>1, <4>3 DEF AccountInv, ExpectsWhatFollows
    <3> QED
      BY <3>1, <3>2
  <2>8. OpenIds' \ {id} = OpenIds /\ id \in OpenIds'
    <3>1. ASSUME NEW jd PROVE jd \in OpenIds' <=> jd \in OpenIds \/ jd = id
      <4>1. Fresh(id, name).id = id
        BY DEF Fresh
      <4>2. Fresh(id, name) # Free
        BY RegistryAssumption, FreeIsNotOpen DEF Fresh, Free
      <4> QED
        BY <2>1, <2>2, <4>1, <4>2, OpenIdsMeans, OpenIdsMeansNext
    <3>2. id \notin OpenIds
      BY <2>3, OpenIdsMeans
    <3> QED
      BY <3>1, <3>2
  <2>9. ASSUME NEW kind \in Lapses
        PROVE  LapsesIn(kind, heard, OpenIds)' = LapsesIn(kind, heard, OpenIds)
    <3>1. LapsesIn(kind, heard', OpenIds') =
            LapsesIn(kind, heard', {id}) \cup LapsesIn(kind, heard', OpenIds' \ {id})
      BY <2>8, LapsesOfOne
    <3>2. LapsesIn(kind, heard', {id}) = {}
      BY <2>5, NoLapses
    <3>3. \A jd \in OpenIds : heard'[jd] = heard[jd]
      BY <2>3, <2>5, OpenIdsMeans, OpenIdsType DEF RegistryInv
    <3>4. LapsesIn(kind, heard', OpenIds) = LapsesIn(kind, heard, OpenIds)
      BY <3>3, LapsesSame
    <3> QED
      BY <2>8, <3>1, <3>2, <3>4
  <2>10. LapsesFinite' /\ AccountingExact'
    BY <1>1, <1>2, <2>9, CountsKept DEF AccountInv
  <2> QED
    BY <2>6, <2>7, <2>10 DEF AccountInv
<1> QED
  BY <1>3, <1>4

\* A close call that starts keeps the accounts.
LEMMA StartKeepsAccounts ==
  ASSUME RegistryInv, AccountInv, NEW id \in StreamIds, CallClose(id)
  PROVE  AccountInv'
<1>1. RegistryTypeOK' /\ UNCHANGED <<streams, stats, heard, settled>>
  BY BeginCloseEffect DEF RegistryInv, CallClose, BeginClose
<1>2. UseTypeOK'
  <2>1. DOMAIN closing \subseteq DOMAIN closing'
    <3>1. PICK i \in 1..Slots : closing' = Append(closing, [slot |-> i, id |-> id])
      BY BeginCloseEffect DEF RegistryInv, CallClose
    <3> QED
      BY <3>1 DEF RegistryInv, RegistryTypeOK
  <2>2. again' \subseteq DOMAIN closing'
    BY <2>1 DEF AccountInv, UseTypeOK, CallClose
  <2> QED
    BY <1>1, <2>2 DEF AccountInv, UseTypeOK
<1>3. ExpectsWhatFollows'
  BY <1>1 DEF AccountInv, ExpectsWhatFollows
<1>4. LapsesFinite' /\ AccountingExact'
  BY <1>1, CountsKept DEF AccountInv, OpenIds
<1> QED
  BY <1>2, <1>3, <1>4 DEF AccountInv

\* The end of a close call keeps the accounts: what the stream that it erases
\* heard is settled, whichever that is.
LEMMA EndKeepsAccounts ==
  ASSUME RegistryInv, AccountInv, CloseReturns
  PROVE  AccountInv'
<1> DEFINE slot == Last(closing).slot
           gone == OpenIds \ OpenIds'
<1>1. /\ RegistryTypeOK'
      /\ Last(closing) \in [slot : 1..Slots, id : StreamIds]
      /\ streams' = [streams EXCEPT ![slot] = Free]
      /\ closing' = Front(closing)
      /\ UNCHANGED <<stats, heard>>
  BY EndCloseEffect DEF CloseReturns, RegistryInv, EndClose
<1>2. settled' = [kind \in Lapses |->
                    settled[kind] + Cardinality(LapsesIn(kind, heard, gone))]
  BY DEF CloseReturns
<1>3. /\ streams'[slot] = Free
      /\ \A j \in 1..Slots : j # slot => streams'[j] = streams[j]
  BY <1>1 DEF RegistryInv, RegistryTypeOK
<1> HIDE DEF slot
<1>4. OpenIds' \subseteq OpenIds
  BY <1>3, OpenIdsMeans, OpenIdsMeansNext
<1>5. OpenIds \ gone = OpenIds' /\ gone \in SUBSET OpenIds
  BY <1>4
<1> HIDE DEF gone
<1>6. again' \subseteq DOMAIN closing'
  <2> DEFINE n == Len(closing)
  <2>1. closing # <<>> /\ again' = again \ {n}
    BY DEF CloseReturns, EndClose
  <2>2. RegistryTypeOK /\ again \subseteq DOMAIN closing
    BY DEF AccountInv, UseTypeOK
  <2>3. /\ n \in Nat /\ DOMAIN closing = 1..n
        /\ Front(closing) \in Seq([slot : 1..Slots, id : StreamIds])
        /\ Len(Front(closing)) = n - 1
    BY <2>1, <2>2, ClosingParts DEF RegistryTypeOK
  <2> HIDE DEF n
  <2>4. DOMAIN closing' = 1..(n - 1)
    BY <1>1, <2>3
  <2> QED
    BY <2>1, <2>2, <2>3, <2>4
<1>7. ASSUME NEW kind \in Lapses
      PROVE  /\ IsFiniteSet(LapsesIn(kind, heard, OpenIds)')
             /\ settled'[kind] \in Nat
             /\ stats'[kind] = settled'[kind] + Cardinality(LapsesIn(kind, heard, OpenIds)')
  <2> DEFINE K == LapsesIn(kind, heard, gone)
             R == LapsesIn(kind, heard, OpenIds \ gone)
             A == LapsesIn(kind, heard, OpenIds)
  <2>1. A = K \cup R /\ K \cap R = {}
    BY <1>5, LapsesSplit
  <2>2. R = LapsesIn(kind, heard, OpenIds)'
    BY <1>1, <1>5
  <2>3. IsFiniteSet(A) /\ stats[kind] = settled[kind] + Cardinality(A)
    BY DEF AccountInv, LapsesFinite, AccountingExact
  <2>4. settled[kind] \in Nat
    BY DEF AccountInv, UseTypeOK
  <2>5. settled'[kind] = settled[kind] + Cardinality(K) /\ stats' = stats
    BY <1>1, <1>2
  <2> HIDE DEF K, R, A
  <2>6. IsFiniteSet(K) /\ IsFiniteSet(R)
    BY <2>1, <2>3, FS_Subset
  <2>7. /\ Cardinality(A) = Cardinality(K) + Cardinality(R)
        /\ Cardinality(K) \in Nat /\ Cardinality(R) \in Nat
    <3>1. Cardinality(A) = Cardinality(K) + Cardinality(R) - Cardinality(K \cap R)
      BY <2>1, <2>6, FS_Union
    <3>2. Cardinality(K) \in Nat /\ Cardinality(R) \in Nat
      BY <2>6, FS_CardinalityType
    <3>3. Cardinality(K \cap R) = 0
      BY <2>1, FS_EmptySet
    <3> QED
      BY <3>1, <3>2, <3>3
  <2>8. /\ settled'[kind] \in Nat
        /\ stats'[kind] = settled'[kind] + Cardinality(R)
    BY <2>3, <2>4, <2>5, <2>7
  <2> QED
    BY <2>2, <2>6, <2>8
<1>8. LapsesFinite' /\ AccountingExact'
  BY <1>7 DEF LapsesFinite, AccountingExact
<1>9. UseTypeOK'
  <2>1. settled' \in [Lapses -> Nat]
    <3>1. DOMAIN settled' = Lapses /\ settled' = [kind \in Lapses |-> settled'[kind]]
      BY <1>2
    <3> QED
      BY <1>7, <3>1
  <2> QED
    BY <1>1, <1>6, <2>1 DEF AccountInv, UseTypeOK
<1>10. ExpectsWhatFollows'
  BY <1>1, <1>3 DEF AccountInv, ExpectsWhatFollows
<1> QED
  BY <1>8, <1>9, <1>10 DEF AccountInv

\* A chunk keeps the accounts: what the context expects tells whether the chunk
\* follows the one before.
LEMMA ChunkKeepsAccounts ==
  ASSUME RegistryInv, AccountInv, NEW id \in StreamIds, NEW seq \in SeqIds, Chunk(id, seq)
  PROVE  AccountInv'
<1>1. /\ RegistryTypeOK'
      /\ UNCHANGED <<closing, settled, again>>
      /\ again' \subseteq DOMAIN closing'
  BY HandleEffect DEF Chunk, RegistryInv, AccountInv, UseTypeOK
<1>2. heard \in [StreamIds -> Seq(SeqIds)] /\ RegistryTypeOK
  BY DEF AccountInv, UseTypeOK
<1>3. CASE ~HasStream(id)
  <2>1. /\ UNCHANGED <<streams, heard>>
        /\ stats' = [stats EXCEPT !.unknown = @ + 1]
    BY <1>3 DEF Chunk, Handle, HasStream, IsContextOf
  <2>2. \A kind \in Lapses : stats'[kind] = stats[kind]
    BY <1>2, <2>1 DEF Lapses, RegistryTypeOK, Counters
  <2>3. UseTypeOK'
    BY <1>1, <2>1 DEF AccountInv, UseTypeOK
  <2>4. ExpectsWhatFollows'
    BY <2>1 DEF AccountInv, ExpectsWhatFollows
  <2>5. LapsesFinite' /\ AccountingExact'
    BY <1>1, <2>1, <2>2, CountsKept DEF AccountInv, OpenIds
  <2> QED
    BY <2>3, <2>4, <2>5 DEF AccountInv
<1>4. CASE HasStream(id)
  <2>1. PICK i \in 1..Slots :
          /\ streams[i] # Free /\ streams[i].id = id
          /\ stats' = [c \in Counters |->
                         IF c \in Counted(streams[i], seq) THEN stats[c] + 1 ELSE stats[c]]
          /\ streams' = [streams EXCEPT ![i].hasSeq = TRUE, ![i].expected = Next32(seq)]
    BY <1>4 DEF Chunk, Handle, IsContextOf
  <2>2. heard' = [heard EXCEPT ![id] = Append(@, seq)]
    BY <1>4 DEF Chunk
  <2>3. /\ heard' \in [StreamIds -> Seq(SeqIds)]
        /\ heard'[id] = Append(heard[id], seq)
        /\ \A jd \in StreamIds : jd # id => heard'[jd] = heard[jd]
    BY <1>2, <2>2
  <2>4. UseTypeOK'
    BY <1>1, <2>3 DEF AccountInv, UseTypeOK
  <2>5. streams[i] \in Open
    BY <1>2, <2>1 DEF RegistryTypeOK
  <2>6. /\ streams'[i].id = id /\ streams'[i].hasSeq = TRUE /\ streams'[i].expected = Next32(seq)
        /\ streams'[i] # Free
        /\ \A j \in 1..Slots : j # i => streams'[j] = streams[j]
    <3> DEFINE c == [streams[i] EXCEPT !.hasSeq = TRUE, !.expected = Next32(seq)]
    <3>1. c \in Open /\ c.id = id /\ c.hasSeq = TRUE /\ c.expected = Next32(seq)
      BY <2>1, <2>5, NextType DEF Open
    <3>2. streams' = [streams EXCEPT ![i] = c]
      BY <1>2, <2>1, <2>5 DEF RegistryTypeOK
    <3> HIDE DEF c
    <3> QED
      BY <1>2, <3>1, <3>2, FreeIsNotOpen DEF RegistryTypeOK
  <2>7. ExpectsWhatFollows'
    <3> SUFFICES ASSUME NEW j \in 1..Slots, streams'[j] # Free
                 PROVE  LET s == heard'[streams'[j].id]
                        IN  /\ streams'[j].hasSeq <=> s # <<>>
                            /\ s # <<>> => streams'[j].expected = Next32(Last(s))
      BY DEF ExpectsWhatFollows
    <3>1. CASE j = i
      <4>1. heard[id] \in Seq(SeqIds)
        BY <1>2
      <4>2. heard'[id] # <<>> /\ Last(heard'[id]) = seq
        BY <2>3, <4>1 DEF Last
      <4> QED
        BY <2>6, <3>1, <4>2
    <3>2. CASE j # i
      <4>1. streams'[j] = streams[j] /\ streams[j] # Free
        BY <2>6, <3>2
      <4>2. streams[j].id \in StreamIds /\ streams[j].id # id
        BY <1>2, <2>1, <3>2, <4>1, OpenIdsMeans, OpenIdsType DEF RegistryInv, UniqueStreams
      <4>3. heard'[streams[j].id] = heard[streams[j].id]
        BY <2>3, <4>2
      <4> QED
        BY <4>1, <4>3 DEF AccountInv, ExpectsWhatFollows
    <3> QED
      BY <3>1, <3>2
  <2>8. OpenIds' = OpenIds /\ id \in OpenIds
    <3>1. \A j \in 1..Slots : /\ streams'[j] # Free <=> streams[j] # Free
                              /\ streams[j] # Free => streams'[j].id = streams[j].id
      BY <2>1, <2>6
    <3>2. \A jd : jd \in OpenIds' <=> jd \in OpenIds
      BY <3>1, OpenIdsMeans, OpenIdsMeansNext
    <3> QED
      BY <2>1, <3>2, OpenIdsMeans
  <2>9. ASSUME NEW kind \in Lapses
        PROVE  /\ IsFiniteSet(LapsesIn(kind, heard, OpenIds)')
               /\ stats'[kind] = settled'[kind] + Cardinality(LapsesIn(kind, heard, OpenIds)')
    <3> DEFINE before == Last(heard[id])
               lapse == heard[id] # <<>> /\ LapseOf(before, seq) = kind
               A == LapsesIn(kind, heard, OpenIds)
               p == <<id, Len(heard[id]) + 1>>
    <3>1. heard[id] # <<>> => before \in SeqIds
      BY <1>2, SeqParts
    <3>2. /\ streams[i].hasSeq <=> heard[id] # <<>>
          /\ heard[id] # <<>> => streams[i].expected = Next32(before)
      BY <2>1 DEF AccountInv, ExpectsWhatFollows
    <3>3. kind \in Counters
      BY DEF Lapses, Counters
    <3>4. kind \in Counted(streams[i], seq) <=> lapse
      <4>1. CASE heard[id] = <<>>
        BY <3>2, <4>1 DEF Counted, Lapses
      <4>2. CASE heard[id] # <<>>
        <5>1. Next32(seq) = Next32(before) <=> seq = before
          BY <3>1, <4>2, NextInjective
        <5>2. streams[i].hasSeq /\ streams[i].expected = Next32(before)
          BY <3>2, <4>2
        <5> HIDE DEF before
        <5>3. CASE kind = "duplicates"
          BY <4>2, <5>1, <5>2, <5>3 DEF Counted, LapseOf
        <5>4. CASE kind = "gaps"
          BY <4>2, <5>1, <5>2, <5>4 DEF Counted, LapseOf
        <5> QED
          BY <5>3, <5>4 DEF Lapses
      <4> QED
        BY <4>1, <4>2
    <3>5. /\ p \notin A
          /\ LapsesIn(kind, heard, OpenIds)' = IF lapse THEN A \cup {p} ELSE A
      <4>1. OpenIds \subseteq StreamIds
        BY <1>2, OpenIdsType
      <4>2. \A jd \in OpenIds : jd # id => heard'[jd] = heard[jd]
        BY <2>3, <4>1
      <4>3. heard[id] \in Seq(SeqIds) /\ heard'[id] = Append(heard[id], seq)
        BY <1>2, <2>3
      <4>4. p \notin A
        BY <2>8, <4>3, LapseIsNew
      <4>5. Hears(heard, heard', id, OpenIds, seq)
        BY <2>8, <4>2, <4>3 DEF Hears
      <4>6. LapsesIn(kind, heard', OpenIds) = IF lapse THEN A \cup {p} ELSE A
        BY <4>5, LapseAdded
      <4> QED
        BY <2>8, <4>4, <4>6
    <3>6. stats'[kind] = IF lapse THEN stats[kind] + 1 ELSE stats[kind]
      BY <2>1, <3>3, <3>4
    <3>7. IsFiniteSet(A) /\ stats[kind] = settled[kind] + Cardinality(A)
      BY DEF AccountInv, LapsesFinite, AccountingExact
    <3>8. settled[kind] \in Nat /\ settled' = settled
      BY <1>1 DEF AccountInv, UseTypeOK
    <3> HIDE DEF lapse, A, p
    <3>9. IsFiniteSet(A \cup {p}) /\ Cardinality(A \cup {p}) = Cardinality(A) + 1
      BY <3>5, <3>7, FS_AddElement
    <3>10. Cardinality(A) \in Nat
      BY <3>7, FS_CardinalityType
    <3>11. CASE lapse
      BY <3>5, <3>6, <3>7, <3>8, <3>9, <3>10, <3>11
    <3>12. CASE ~lapse
      BY <3>5, <3>6, <3>7, <3>8, <3>12
    <3> QED
      BY <3>11, <3>12
  <2>10. LapsesFinite' /\ AccountingExact'
    BY <2>9 DEF LapsesFinite, AccountingExact
  <2> QED
    BY <2>4, <2>7, <2>10 DEF AccountInv
<1> QED
  BY <1>3, <1>4

\* The counters of gaps and duplicates say what was heard (stream.c:160): every
\* stream is counted from the first chunk it hears, also where the numbers wrap
\* and where ids and contexts are used again.
THEOREM CountersAreExact == UseSpec => []AccountingExact
<1>1. UseInit => AccountInv
  <2> SUFFICES ASSUME UseInit PROVE AccountInv
    OBVIOUS
  <2>1. \A i \in 1..Slots : streams[i] = Free
    BY DEF UseInit, RegistryInit
  <2>2. UseTypeOK
    <3>1. RegistryTypeOK
      BY DEF UseInit, RegistryInit, RegistryTypeOK
    <3>2. <<>> \in Seq(SeqIds)
      OBVIOUS
    <3> QED
      BY <3>1, <3>2 DEF UseInit, UseTypeOK
  <2>3. ExpectsWhatFollows
    BY <2>1 DEF ExpectsWhatFollows
  <2>4. OpenIds = {}
    BY <2>1, OpenIdsMeans
  <2>5. ASSUME NEW kind \in Lapses
        PROVE  IsFiniteSet(LapsesIn(kind, heard, OpenIds))
               /\ stats[kind] = settled[kind] + Cardinality(LapsesIn(kind, heard, OpenIds))
    <3>1. LapsesIn(kind, heard, OpenIds) = {}
      BY <2>4 DEF LapsesIn
    <3>2. stats[kind] = 0 /\ settled[kind] = 0
      BY DEF UseInit, RegistryInit, Lapses, Counters
    <3> QED
      BY <3>1, <3>2, FS_EmptySet
  <2>6. LapsesFinite /\ AccountingExact
    BY <2>5 DEF LapsesFinite, AccountingExact
  <2> QED
    BY <2>2, <2>3, <2>6 DEF AccountInv
<1>2. RegistryInv /\ AccountInv /\ [UseNext]_useVars => AccountInv'
  <2> SUFFICES ASSUME RegistryInv, AccountInv, [UseNext]_useVars PROVE AccountInv'
    OBVIOUS
  <2>1. ASSUME NEW id \in StreamIds, NEW n \in Names, NEW ex \in BOOLEAN, OpenStream(id, n, ex)
        PROVE  AccountInv'
    BY <2>1, OpenKeepsAccounts
  <2>2. ASSUME NEW id \in StreamIds, CallClose(id) PROVE AccountInv'
    BY <2>2, StartKeepsAccounts
  <2>3. CASE CloseReturns
    BY <2>3, EndKeepsAccounts
  <2>4. ASSUME NEW id \in StreamIds, NEW seq \in SeqIds, Chunk(id, seq) PROVE AccountInv'
    BY <2>4, ChunkKeepsAccounts
  <2>5. CASE UNCHANGED useVars
    <3>1. UNCHANGED <<streams, closing, stats, heard, settled, again>>
      BY <2>5 DEF useVars, registryVars
    <3>2. UseTypeOK' /\ ExpectsWhatFollows'
      BY <3>1 DEF AccountInv, UseTypeOK, RegistryTypeOK, ExpectsWhatFollows
    <3>3. LapsesFinite' /\ AccountingExact'
      BY <3>1, CountsKept DEF AccountInv, OpenIds
    <3> QED
      BY <3>2, <3>3 DEF AccountInv
  <2> QED
    BY <2>1, <2>2, <2>3, <2>4, <2>5 DEF UseNext
<1>3. AccountInv => AccountingExact
  BY DEF AccountInv
<1> QED
  BY <1>1, <1>2, <1>3, RegistryInvHolds, PTL DEF UseSpec

-----------------------------------------------------------------------------
(* The media host.                                                         *)

-----------------------------------------------------------------------------
(* Types.                                                                  *)

\* What the tasks of the queue hold.
LEMMA TaskTypes ==
  ASSUME NEW t \in Tasks
  PROVE  /\ t.kind \in Kinds
         /\ t.type = "open" => t.source \in Sources /\ t.supported \in BOOLEAN
         /\ t.type = "close" => t.id \in StreamIds
         /\ t.type = "chunk" => t.id \in StreamIds /\ t.session \in Nat /\ t.seq \in SeqIds
  BY MediaAssumption DEF Tasks

\* A task that is appended is the last, one that is taken was the first.
LEMMA QueueParts ==
  ASSUME NEW S, NEW s \in Seq(S)
  PROVE  /\ \A e \in S : /\ Append(s, e) \in Seq(S)
                         /\ Len(Append(s, e)) = Len(s) + 1
                         /\ Append(s, e)[Len(s) + 1] = e
                         /\ \A n \in DOMAIN s : Append(s, e)[n] = s[n]
         /\ s # <<>> => /\ Head(s) \in S /\ Head(s) = s[1] /\ 1 \in DOMAIN s
                        /\ Tail(s) \in Seq(S)
                        /\ Len(Tail(s)) = Len(s) - 1
                        /\ \A n \in DOMAIN Tail(s) : n + 1 \in DOMAIN s /\ Tail(s)[n] = s[n + 1]
         /\ DOMAIN s = 1..Len(s) /\ Len(s) \in Nat
  OBVIOUS

\* The next task, and the others.
LEMMA NextTaskParts ==
  ASSUME TypeOK, NEW type, NextTask(type)
  PROVE  /\ Head(tasks) \in Tasks /\ Head(tasks).type = type
         /\ Head(tasks) = tasks[1] /\ 1 \in DOMAIN tasks
         /\ tasks' \in Seq(Tasks) /\ Len(tasks') <= QueueCapacity
         /\ \A n \in DOMAIN tasks' : n + 1 \in DOMAIN tasks /\ tasks'[n] = tasks[n + 1]
         /\ closing = <<>>
<1>1. tasks # <<>> /\ tasks' = Tail(tasks) /\ Head(tasks).type = type /\ closing = <<>>
  BY DEF NextTask
<1>2. tasks \in Seq(Tasks) /\ Len(tasks) <= QueueCapacity /\ QueueCapacity \in Nat
  BY MediaAssumption DEF TypeOK
<1>3. /\ Head(tasks) \in Tasks /\ Head(tasks) = tasks[1] /\ 1 \in DOMAIN tasks
      /\ Tail(tasks) \in Seq(Tasks) /\ Len(Tail(tasks)) = Len(tasks) - 1
      /\ \A n \in DOMAIN Tail(tasks) : n + 1 \in DOMAIN tasks /\ Tail(tasks)[n] = tasks[n + 1]
      /\ Len(tasks) \in Nat
  BY <1>1, <1>2, QueueParts
<1> QED
  BY <1>1, <1>2, <1>3

\* Submitting changes the queue by at most one task at its end.
LEMMA SubmitParts ==
  ASSUME TypeOK, NEW t \in Tasks, Submit(t)
  PROVE  /\ tasks' \in Seq(Tasks) /\ Len(tasks') <= QueueCapacity
         /\ \A n \in DOMAIN tasks' : (n \in DOMAIN tasks /\ tasks'[n] = tasks[n]) \/ tasks'[n] = t
<1>1. tasks \in Seq(Tasks) /\ Len(tasks) <= QueueCapacity /\ QueueCapacity \in Nat
  BY MediaAssumption DEF TypeOK
<1>2. CASE tasks' = tasks
  BY <1>1, <1>2
<1>3. CASE Len(tasks) < QueueCapacity /\ tasks' = Append(tasks, t)
  <2>1. /\ tasks' \in Seq(Tasks) /\ Len(tasks') = Len(tasks) + 1
        /\ tasks'[Len(tasks) + 1] = t /\ \A n \in DOMAIN tasks : tasks'[n] = tasks[n]
        /\ DOMAIN tasks = 1..Len(tasks) /\ Len(tasks) \in Nat
    BY <1>1, <1>3, QueueParts
  <2>2. DOMAIN tasks' = 1..(Len(tasks) + 1)
    BY <2>1, QueueParts
  <2> QED
    BY <1>1, <1>3, <2>1, <2>2
<1> QED
  BY <1>1, <1>2, <1>3, QueueParts DEF Submit

\* The answer that a handler gives, if the queue has room for it.
AnswerOf(type, kind, id, n, status) ==
  [type |-> type, kind |-> kind, id |-> id, session |-> n, status |-> status]

\* An answer changes the results by at most one at their end.
LEMMA AnswerParts ==
  ASSUME TypeOK, NEW type, NEW kind, NEW id, NEW n, NEW status,
         AnswerOf(type, kind, id, n, status) \in Answers,
         Answer(type, kind, id, n, status)
  PROVE  /\ results' \in Seq(Answers) /\ Len(results') <= QueueCapacity
         /\ \A m \in DOMAIN results' :
              \/ m \in DOMAIN results /\ m <= Len(results) /\ results'[m] = results[m]
              \/ results'[m] = AnswerOf(type, kind, id, n, status)
<1> DEFINE a == AnswerOf(type, kind, id, n, status)
<1>1. results \in Seq(Answers) /\ Len(results) <= QueueCapacity /\ QueueCapacity \in Nat
  BY MediaAssumption DEF TypeOK
<1>2. results' = results \/ (Len(results) < QueueCapacity /\ results' = Append(results, a))
  BY <1>1, QueueParts DEF Answer, AnswerOf
<1>3. a \in Answers
  OBVIOUS
<1> HIDE DEF a
<1>4. CASE results' = results
  <2>1. DOMAIN results = 1..Len(results) /\ Len(results) \in Nat
    BY <1>1, QueueParts
  <2> QED
    BY <1>1, <1>4, <2>1
<1>5. CASE Len(results) < QueueCapacity /\ results' = Append(results, a)
  <2>1. /\ results' \in Seq(Answers) /\ Len(results') = Len(results) + 1
        /\ results'[Len(results) + 1] = a /\ \A m \in DOMAIN results : results'[m] = results[m]
        /\ DOMAIN results = 1..Len(results) /\ Len(results) \in Nat
    BY <1>1, <1>3, <1>5, QueueParts
  <2>2. DOMAIN results' = 1..(Len(results) + 1)
    BY <2>1, QueueParts
  <2>3. \A m \in DOMAIN results' :
          \/ m \in DOMAIN results /\ m <= Len(results) /\ results'[m] = results[m]
          \/ results'[m] = a
    BY <2>1, <2>2
  <2>4. Len(results') <= QueueCapacity
    BY <1>1, <1>5, <2>1
  <2> QED
    BY <2>1, <2>3, <2>4 DEF a
<1> QED
  BY <1>2, <1>4, <1>5

\* Ids wrap within the ids there are, and below the limit they do not wrap.
LEMMA IdStep ==
  ASSUME NEW id \in StreamIds
  PROVE  /\ (id + 1) % IdLimit \in StreamIds
         /\ id + 1 < IdLimit => (id + 1) % IdLimit = id + 1
<1>1. id + 1 \in Nat /\ IdLimit \in Nat \ {0} /\ StreamIds = 0..(IdLimit - 1)
  BY MediaAssumption
<1>2. (id + 1) % IdLimit \in 0..(IdLimit - 1)
  BY <1>1
<1>3. id + 1 < IdLimit => (id + 1) % IdLimit = id + 1
  BY <1>1
<1> QED
  BY <1>1, <1>2, <1>3

\* A request to open names a stream that the registry can keep, as it is.
LEMMA OpenNameType ==
  ASSUME NEW t \in Tasks, t.type = "open"
  PROVE  /\ OpenName(t) \in Names
         /\ OpenName(t).kind = t.kind
         /\ StoredName[OpenName(t)] = OpenName(t)
<1>1. t.kind \in Kinds /\ t.source \in Sources /\ CutSource[t.source] \in Sources
  BY TaskTypes, MediaAssumption
<1> QED
  BY <1>1, MediaAssumption DEF OpenName, MediaName

\* The answers that the actions give have the type of answers.
LEMMA AnswerTypes ==
  /\ \A kind \in Kinds, status \in {"RPC_PARAM_INVALID", "NOT_SUPPORTED", "MEDIA_CODEC_UNSUPPORTED"} :
       AnswerOf("open", kind, 0, 0, status) \in Answers
  /\ \A kind \in Kinds, id \in StreamIds, n \in Nat, status \in Statuses :
       AnswerOf("open", kind, id, n, status) \in Answers
  /\ \A kind \in Kinds, id \in StreamIds,
        status \in {"SUCCESS", "RPC_PARAM_MISSING", "STREAM_NOT_FOUND"} :
       AnswerOf("close", kind, id, 0, status) \in Answers
<1>1. 0 \in StreamIds /\ "SUCCESS" \in Statuses
  BY MediaAssumption DEF Statuses
<1> QED
  BY <1>1 DEF AnswerOf, Answers

\* A refusal is one of the three, and a registration has a status.
LEMMA StatusTypes ==
  /\ \A t : Refusal(t) # "none" =>
       Refusal(t) \in {"RPC_PARAM_INVALID", "NOT_SUPPORTED", "MEDIA_CODEC_UNSUPPORTED"}
  /\ \A t : CloseStatus(t) \in {"SUCCESS", "RPC_PARAM_MISSING", "STREAM_NOT_FOUND"}
  /\ \A id, name : RegisterStatus(id, name, TRUE) \in Statuses
  BY DEF Refusal, CloseStatus, RegisterStatus, Statuses

\* An open request that is refused.
LEMMA RefuseOpenType ==
  ASSUME TypeOK, RefuseOpen
  PROVE  TypeOK'
<1>1. NextTask("open") /\ Refusal(Head(tasks)) # "none"
  BY DEF RefuseOpen
<1>2. Head(tasks) \in Tasks /\ tasks' \in Seq(Tasks) /\ Len(tasks') <= QueueCapacity
  BY <1>1, NextTaskParts
<1>3. AnswerOf("open", Head(tasks).kind, 0, 0, Refusal(Head(tasks))) \in Answers
  BY <1>1, <1>2, TaskTypes, StatusTypes, AnswerTypes
<1>4. results' \in Seq(Answers) /\ Len(results') <= QueueCapacity
  BY <1>3, AnswerParts DEF RefuseOpen
<1> QED
  BY <1>2, <1>4 DEF RefuseOpen, TypeOK, RegistryTypeOK, registryVars

\* An open request that the registry decides on.
LEMMA AcceptOpenType ==
  ASSUME TypeOK, AcceptOpen
  PROVE  /\ TypeOK'
         /\ nextId[Head(tasks).kind] \in StreamIds
         /\ AnswerOf("open", Head(tasks).kind, nextId[Head(tasks).kind],
                     session[nextId[Head(tasks).kind]] + 1,
                     RegisterStatus(nextId[Head(tasks).kind], OpenName(Head(tasks)), TRUE)) \in Answers
<1> DEFINE kind   == Head(tasks).kind
           id     == nextId[kind]
           status == RegisterStatus(id, OpenName(Head(tasks)), TRUE)
<1>1. NextTask("open")
  BY DEF AcceptOpen
<1>2. /\ Head(tasks) \in Tasks /\ Head(tasks).type = "open"
      /\ tasks' \in Seq(Tasks) /\ Len(tasks') <= QueueCapacity
  BY <1>1, NextTaskParts
<1>3. kind \in Kinds /\ id \in StreamIds /\ OpenName(Head(tasks)) \in Names
  BY <1>2, TaskTypes, OpenNameType DEF TypeOK
<1>4. session[id] + 1 \in Nat
  BY <1>3 DEF TypeOK
<1>5. AnswerOf("open", kind, id, session[id] + 1, status) \in Answers
  BY <1>3, <1>4, StatusTypes, AnswerTypes
<1>6. results' \in Seq(Answers) /\ Len(results') <= QueueCapacity
  BY <1>5, AnswerParts DEF AcceptOpen
<1>7. RegistryTypeOK'
  <2>1. Register(id, OpenName(Head(tasks)), TRUE)
    BY DEF AcceptOpen
  <2> QED
    BY <1>3, <2>1, RegisterEffect DEF TypeOK
<1>8. nextId' \in [Kinds -> StreamIds] /\ taken' \in [Kinds -> Nat]
  <2>1. nextId' = [nextId EXCEPT ![kind] = (id + 1) % IdLimit]
    BY DEF AcceptOpen, TakeId
  <2>2. taken' = [taken EXCEPT ![kind] = taken[kind] + 1]
    BY DEF AcceptOpen, TakeId
  <2>3. (id + 1) % IdLimit \in StreamIds /\ taken[kind] + 1 \in Nat
    BY <1>3, IdStep DEF TypeOK
  <2> QED
    BY <1>3, <2>1, <2>2, <2>3 DEF TypeOK
<1>9. session' \in [StreamIds -> Nat]
  <2>1. session' = session \/ session' = [session EXCEPT ![id] = session[id] + 1]
    BY DEF AcceptOpen
  <2> QED
    BY <1>4, <2>1 DEF TypeOK
<1>10. UNCHANGED <<options, kindChunks, asked, told>>
  BY DEF AcceptOpen
<1> QED
  BY <1>2, <1>3, <1>5, <1>6, <1>7, <1>8, <1>9, <1>10 DEF TypeOK

\* A close request that closes nothing.
LEMMA CloseNothingType ==
  ASSUME TypeOK, CloseNothing
  PROVE  TypeOK'
<1>1. /\ Head(tasks) \in Tasks /\ Head(tasks).type = "close"
      /\ tasks' \in Seq(Tasks) /\ Len(tasks') <= QueueCapacity
  BY NextTaskParts DEF CloseNothing
<1>2. AnswerOf("close", Head(tasks).kind, Head(tasks).id, 0, CloseStatus(Head(tasks))) \in Answers
  BY <1>1, TaskTypes, StatusTypes, AnswerTypes
<1>3. results' \in Seq(Answers) /\ Len(results') <= QueueCapacity
  BY <1>2, AnswerParts DEF CloseNothing
<1> QED
  BY <1>1, <1>3 DEF CloseNothing, TypeOK, RegistryTypeOK, registryVars

\* A close call that starts.
LEMMA CloseOpenType ==
  ASSUME TypeOK, CloseOpen
  PROVE  TypeOK' /\ Head(tasks).id \in StreamIds
<1>1. /\ Head(tasks) \in Tasks /\ Head(tasks).type = "close"
      /\ tasks' \in Seq(Tasks) /\ Len(tasks') <= QueueCapacity
  BY NextTaskParts DEF CloseOpen
<1>2. Head(tasks).id \in StreamIds
  BY <1>1, TaskTypes
<1>3. RegistryTypeOK'
  BY <1>2, BeginCloseEffect DEF CloseOpen, TypeOK
<1> QED
  BY <1>1, <1>2, <1>3 DEF CloseOpen, TypeOK

\* A chunk that is delivered.
LEMMA DeliverChunkType ==
  ASSUME TypeOK, DeliverChunk
  PROVE  TypeOK' /\ Head(tasks).id \in StreamIds /\ Head(tasks).seq \in SeqIds
<1>1. /\ Head(tasks) \in Tasks /\ Head(tasks).type = "chunk"
      /\ tasks' \in Seq(Tasks) /\ Len(tasks') <= QueueCapacity
  BY NextTaskParts DEF DeliverChunk
<1>2. Head(tasks).id \in StreamIds /\ Head(tasks).seq \in SeqIds
  BY <1>1, TaskTypes
<1>3. RegistryTypeOK'
  BY <1>2, HandleEffect DEF DeliverChunk, TypeOK
<1>4. kindChunks' \in [Kinds -> Nat]
  <2> DEFINE P(k) == \E i \in 1..Slots : IsContextOf(i, Head(tasks).id) /\ streams[i].name.kind = k
  <2>1. kindChunks' = [k \in Kinds |-> IF P(k) THEN kindChunks[k] + 1 ELSE kindChunks[k]]
    BY DEF DeliverChunk
  <2>2. \A k \in Kinds : kindChunks[k] \in Nat /\ kindChunks[k] + 1 \in Nat
    BY DEF TypeOK
  <2> HIDE DEF P
  <2> QED
    BY <2>1, <2>2
<1>5. UNCHANGED <<options, nextId, results, asked, taken, session, told>>
  BY DEF DeliverChunk
<1> QED
  BY <1>1, <1>2, <1>3, <1>4, <1>5 DEF TypeOK

-----------------------------------------------------------------------------
(* The streams.                                                            *)

\* An id has one context at most.
UniqueIds ==
  \A i, j \in 1..Slots :
    streams[i] # Free /\ streams[j] # Free /\ streams[i].id = streams[j].id => i = j

\* The sink does not call the registry, so at most one close call is in
\* progress, and the context that it keeps is the one it looked up.
ClosingKept ==
  closing # <<>> =>
    /\ Len(closing) = 1
    /\ streams[Last(closing).slot] # Free
    /\ streams[Last(closing).slot].id = Last(closing).id

StreamsInv ==
  /\ TypeOK
  /\ UniqueIds
  /\ OneStreamPerSource
  /\ ClosingKept

\* A close call that ends keeps the types and the streams apart.
LEMMA FinishCloseKeeps ==
  ASSUME StreamsInv, FinishClose
  PROVE  /\ StreamsInv'
         /\ streams[Last(closing).slot].name.kind \in Kinds
         /\ Last(closing).id \in StreamIds
<1>1. EndClose
  BY DEF FinishClose
<1>2. /\ RegistryTypeOK'
      /\ Last(closing) \in [slot : 1..Slots, id : StreamIds]
      /\ streams' = [streams EXCEPT ![Last(closing).slot] = Free]
      /\ closing' = Front(closing)
  BY <1>1, EndCloseEffect DEF StreamsInv, TypeOK
<1>3. closing # <<>>
  BY <1>1 DEF EndClose
<1>4. streams[Last(closing).slot] \in Open
  BY <1>2, <1>3 DEF StreamsInv, ClosingKept, TypeOK, RegistryTypeOK
<1>5. streams[Last(closing).slot].name.kind \in Kinds
  <2>1. streams[Last(closing).slot].name \in Names
    BY <1>4 DEF Open
  <2>2. PICK k \in Kinds, n \in Sources : streams[Last(closing).slot].name = MediaName(k, n)
    BY <2>1, MediaAssumption
  <2> QED
    BY <2>2 DEF MediaName
<1>6. closing' = <<>>
  <2>1. RegistryTypeOK
    BY DEF StreamsInv, TypeOK
  <2>2. /\ Front(closing) \in Seq([slot : 1..Slots, id : StreamIds])
        /\ Len(Front(closing)) = Len(closing) - 1
    BY <1>3, <2>1, ClosingParts
  <2>3. Len(closing) = 1
    BY <1>3 DEF StreamsInv, ClosingKept
  <2> DEFINE S == [slot : 1..Slots, id : StreamIds]
  <2>4. Front(closing) \in Seq(S)
    BY <2>2
  <2> HIDE DEF S
  <2> QED
    BY <1>2, <2>2, <2>3, <2>4
<1>7. AnswerOf("close", streams[Last(closing).slot].name.kind, Last(closing).id, 0, "SUCCESS") \in Answers
  BY <1>2, <1>5, AnswerTypes
<1>8. results' \in Seq(Answers) /\ Len(results') <= QueueCapacity
  BY <1>7, AnswerParts DEF FinishClose, StreamsInv
<1>9. TypeOK'
  BY <1>2, <1>8 DEF FinishClose, StreamsInv, TypeOK
<1>10. UniqueIds' /\ OneStreamPerSource'
  BY <1>2 DEF StreamsInv, TypeOK, RegistryTypeOK, UniqueIds, OneStreamPerSource
<1>11. ClosingKept'
  BY <1>6 DEF ClosingKept
<1> QED
  BY <1>2, <1>5, <1>9, <1>10, <1>11 DEF StreamsInv

\* A stream that is opened has an id and a name of its own.
LEMMA AcceptOpenKeeps ==
  ASSUME StreamsInv, AcceptOpen
  PROVE  StreamsInv'
<1> DEFINE kind == Head(tasks).kind
           id   == nextId[kind]
           name == OpenName(Head(tasks))
<1>1. TypeOK' /\ id \in StreamIds
  BY AcceptOpenType DEF StreamsInv
<1>2. Head(tasks) \in Tasks /\ Head(tasks).type = "open" /\ closing = <<>>
  BY NextTaskParts DEF AcceptOpen, StreamsInv
<1>3. name \in Names /\ StoredName[name] = name
  BY <1>2, OpenNameType
<1>4. Register(id, name, TRUE)
  BY DEF AcceptOpen
<1>5. RegistryTypeOK
  BY DEF StreamsInv, TypeOK
<1>6. /\ UNCHANGED closing
      /\ \/ UNCHANGED streams
         \/ /\ ~HasStream(id) /\ ~HasOpenStream(name)
            /\ \E i \in 1..Slots :
                 streams[i] = Free /\ streams' = [streams EXCEPT ![i] = Fresh(id, name)]
  BY <1>1, <1>3, <1>4, <1>5, RegisterEffect
<1>7. CASE UNCHANGED streams
  BY <1>1, <1>2, <1>6, <1>7 DEF StreamsInv, UniqueIds, OneStreamPerSource, ClosingKept
<1>8. ASSUME ~HasStream(id), ~HasOpenStream(name), NEW i \in 1..Slots, streams[i] = Free,
             streams' = [streams EXCEPT ![i] = Fresh(id, name)]
      PROVE  UniqueIds' /\ OneStreamPerSource'
  <2>1. /\ streams'[i].id = id /\ streams'[i].name = name
        /\ \A j \in 1..Slots : j # i => streams'[j] = streams[j]
    BY <1>3, <1>5, <1>8 DEF RegistryTypeOK, Fresh
  <2>2. \A j \in 1..Slots : streams[j] # Free => streams[j].id # id /\ streams[j].name # name
    BY <1>8 DEF HasStream, HasOpenStream
  <2> HIDE DEF id, name, kind
  <2> QED
    BY <2>1, <2>2 DEF StreamsInv, UniqueIds, OneStreamPerSource
<1> QED
  BY <1>1, <1>2, <1>6, <1>7, <1>8 DEF StreamsInv, ClosingKept

\* A close call that starts keeps a context that is its own.
LEMMA CloseOpenKeeps ==
  ASSUME StreamsInv, CloseOpen
  PROVE  StreamsInv'
<1>1. TypeOK' /\ Head(tasks).id \in StreamIds
  BY CloseOpenType DEF StreamsInv
<1>2. closing = <<>>
  BY DEF CloseOpen, NextTask
<1>3. BeginClose(Head(tasks).id) /\ RegistryTypeOK
  BY DEF CloseOpen, StreamsInv, TypeOK
<1>4. UNCHANGED streams
  BY <1>1, <1>3, BeginCloseEffect
<1>5. PICK i \in 1..Slots :
        /\ streams[i] # Free /\ streams[i].id = Head(tasks).id
        /\ closing' = Append(closing, [slot |-> i, id |-> Head(tasks).id])
  BY <1>1, <1>3, BeginCloseEffect
<1>6. closing' = <<[slot |-> i, id |-> Head(tasks).id]>>
  BY <1>2, <1>5
<1>7. Len(closing') = 1 /\ closing'[1] = [slot |-> i, id |-> Head(tasks).id]
  BY <1>6
<1>8. Last(closing') = [slot |-> i, id |-> Head(tasks).id]
  BY <1>7 DEF Last
<1>9. ClosingKept'
  BY <1>4, <1>5, <1>7, <1>8 DEF ClosingKept
<1> QED
  BY <1>1, <1>4, <1>9 DEF StreamsInv, UniqueIds, OneStreamPerSource

\* A chunk moves no stream.
LEMMA DeliverChunkKeeps ==
  ASSUME StreamsInv, DeliverChunk
  PROVE  StreamsInv'
<1>1. TypeOK' /\ Head(tasks).id \in StreamIds /\ Head(tasks).seq \in SeqIds
  BY DeliverChunkType DEF StreamsInv
<1>2. Handle(Head(tasks).id, Head(tasks).seq) /\ RegistryTypeOK /\ closing = <<>>
  BY DEF DeliverChunk, NextTask, StreamsInv, TypeOK
<1>3. /\ UNCHANGED closing
      /\ \A j \in 1..Slots :
           /\ streams'[j] = Free <=> streams[j] = Free
           /\ streams[j] # Free => /\ streams'[j].id = streams[j].id
                                   /\ streams'[j].name = streams[j].name
  BY <1>1, <1>2, HandleEffect
<1> QED
  BY <1>1, <1>2, <1>3 DEF StreamsInv, UniqueIds, OneStreamPerSource, ClosingKept

\* The stream that an answer tells of.
AsTold(a) == [kind |-> a.kind, id |-> a.id, session |-> a.session]

\* A submission or a result that is taken moves no stream.
LEMMA QueueStepKeeps ==
  ASSUME StreamsInv,
         \/ \E request \in OpenRequests : AskOpen(request)
         \/ \E request \in CloseRequests : AskClose(request)
         \/ \E stream \in told, seq \in SeqIds : SendChunk(stream, seq)
         \/ TakeAnswer
  PROVE  StreamsInv' /\ UNCHANGED registryVars
<1>1. UNCHANGED registryVars
  BY DEF AskOpen, AskClose, SendChunk, TakeAnswer
<1>2. TypeOK'
  <2>1. ASSUME NEW request \in OpenRequests, AskOpen(request) PROVE TypeOK'
    <3>1. request \in Tasks
      BY DEF Tasks
    <3>2. tasks' \in Seq(Tasks) /\ Len(tasks') <= QueueCapacity
      BY <2>1, <3>1, SubmitParts DEF AskOpen, StreamsInv
    <3> QED
      BY <2>1, <3>2 DEF AskOpen, StreamsInv, TypeOK, RegistryTypeOK, registryVars
  <2>2. ASSUME NEW request \in CloseRequests, AskClose(request) PROVE TypeOK'
    <3>1. request \in Tasks
      BY DEF Tasks
    <3>2. tasks' \in Seq(Tasks) /\ Len(tasks') <= QueueCapacity
      BY <2>2, <3>1, SubmitParts DEF AskClose, StreamsInv
    <3> QED
      BY <2>2, <3>2 DEF AskClose, StreamsInv, TypeOK, RegistryTypeOK, registryVars
  <2>3. ASSUME NEW stream \in told, NEW seq \in SeqIds, SendChunk(stream, seq) PROVE TypeOK'
    <3> DEFINE t == [type |-> "chunk", kind |-> stream.kind, id |-> stream.id,
                     session |-> stream.session, seq |-> seq]
    <3>1. t \in Tasks
      BY DEF StreamsInv, TypeOK, Tasks
    <3>2. tasks' \in Seq(Tasks) /\ Len(tasks') <= QueueCapacity
      BY <2>3, <3>1, SubmitParts DEF SendChunk, StreamsInv
    <3> QED
      BY <2>3, <3>2 DEF SendChunk, StreamsInv, TypeOK, RegistryTypeOK, registryVars
  <2>4. ASSUME TakeAnswer PROVE TypeOK'
    <3>1. results \in Seq(Answers) /\ results # <<>> /\ Len(results) <= QueueCapacity
      BY <2>4 DEF TakeAnswer, StreamsInv, TypeOK
    <3>2. /\ Head(results) \in Answers /\ results' \in Seq(Answers)
          /\ Len(results') <= QueueCapacity
      BY <2>4, <3>1, QueueParts, MediaAssumption DEF TakeAnswer
    <3>3. told' \subseteq told \cup {AsTold(Head(results))}
      BY <2>4 DEF TakeAnswer, AsTold
    <3>4. \A a \in Answers : AsTold(a) \in [kind : Kinds, id : StreamIds, session : Nat]
      BY DEF AsTold, Answers
    <3>5. told \subseteq [kind : Kinds, id : StreamIds, session : Nat]
      BY DEF StreamsInv, TypeOK
    <3>6. told' \subseteq [kind : Kinds, id : StreamIds, session : Nat]
      BY <3>2, <3>3, <3>4, <3>5
    <3> QED
      BY <2>4, <3>2, <3>6 DEF TakeAnswer, StreamsInv, TypeOK, RegistryTypeOK, registryVars
  <2> QED
    BY <2>1, <2>2, <2>3, <2>4
<1> QED
  BY <1>1, <1>2 DEF registryVars, StreamsInv, UniqueIds, OneStreamPerSource, ClosingKept

\* Every step keeps the types and the streams apart.
LEMMA StepKeepsStreams ==
  ASSUME StreamsInv, [Next]_vars
  PROVE  StreamsInv'
<1>1. CASE RefuseOpen
  <2>1. TypeOK'
    BY <1>1, RefuseOpenType DEF StreamsInv
  <2> QED
    BY <1>1, <2>1 DEF RefuseOpen, registryVars, StreamsInv, UniqueIds, OneStreamPerSource,
                      ClosingKept
<1>2. CASE CloseNothing
  <2>1. TypeOK'
    BY <1>2, CloseNothingType DEF StreamsInv
  <2> QED
    BY <1>2, <2>1 DEF CloseNothing, registryVars, StreamsInv, UniqueIds, OneStreamPerSource,
                      ClosingKept
<1>3. CASE UNCHANGED vars
  BY <1>3 DEF vars, registryVars, mediaVars, StreamsInv, TypeOK, RegistryTypeOK, UniqueIds,
              OneStreamPerSource, ClosingKept
<1> QED
  BY <1>1, <1>2, <1>3, AcceptOpenKeeps, CloseOpenKeeps, FinishCloseKeeps, DeliverChunkKeeps,
     QueueStepKeeps DEF Next

\* The invariant of the streams holds in every execution.
THEOREM StreamsInvHolds == Spec => []StreamsInv
<1>1. Init => StreamsInv
  <2> SUFFICES ASSUME Init PROVE StreamsInv
    OBVIOUS
  <2>1. closing = <<>> /\ \A i \in 1..Slots : streams[i] = Free
    BY DEF Init, RegistryInit
  <2>2. RegistryTypeOK
    BY DEF Init, RegistryInit, RegistryTypeOK
  <2>3. Base \in [Kinds -> StreamIds] /\ QueueCapacity \in Nat
    BY MediaAssumption DEF Base
  <2>4. TypeOK
    BY <2>2, <2>3 DEF Init, TypeOK
  <2> QED
    BY <2>1, <2>4 DEF StreamsInv, UniqueIds, OneStreamPerSource, ClosingKept
<1> QED
  BY <1>1, StepKeepsStreams, PTL DEF Spec

\* The queues of the host stay within the capacity, and its ids are ids.
THEOREM MediaTypeCorrect == Spec => []TypeOK
<1>1. StreamsInv => TypeOK
  BY DEF StreamsInv
<1> QED
  BY <1>1, StreamsInvHolds, PTL

\* A source has one stream at most, for sources of any length: what is compared
\* is what is kept (media_profile.c:205, stream.c:80).
THEOREM SourcesApart == Spec => []OneStreamPerSource
<1>1. StreamsInv => OneStreamPerSource
  BY DEF StreamsInv
<1> QED
  BY <1>1, StreamsInvHolds, PTL

-----------------------------------------------------------------------------
(* The ids.                                                                *)

\* The ids that the opens of a kind take while nothing wraps, given how many
\* there were.
Used(count, kind, id) == Base[kind] <= id /\ id < Base[kind] + count[kind]

\* A chunk, an answer or something told speaks of the latest stream that had
\* its id, and the id was taken for its kind.
Known(count, latest, t) == Used(count, t.kind, t.id) /\ t.session = latest[t.id]

Opened(a) == a.type = "open" /\ a.status = "SUCCESS"

IdsFollow ==
  \A k \in Kinds : Base[k] + taken[k] < IdLimit => nextId[k] = Base[k] + taken[k]

StreamsUsed ==
  \A i \in 1..Slots : streams[i] # Free => Used(taken, streams[i].name.kind, streams[i].id)

ToldKnown == \A t \in told : Known(taken, session, t)

ChunksKnown ==
  \A n \in DOMAIN tasks : tasks[n].type = "chunk" => Known(taken, session, tasks[n])

AnswersKnown ==
  \A n \in DOMAIN results : Opened(results[n]) => Known(taken, session, results[n])

RangeInv ==
  Apart => IdsFollow /\ StreamsUsed /\ ToldKnown /\ ChunksKnown /\ AnswersKnown

\* Every name has one of the two kinds.
LEMMA NameKinds ==
  ASSUME NEW name \in Names
  PROVE  name.kind \in Kinds
<1>1. PICK k \in Kinds, n \in Sources : name = MediaName(k, n)
  BY MediaAssumption
<1> QED
  BY <1>1 DEF MediaName

\* The ids of the two kinds do not meet while the ranges are apart.
LEMMA RangesDisjoint ==
  ASSUME TypeOK, Apart, NEW k \in Kinds, NEW l \in Kinds, NEW id \in StreamIds,
         Used(taken, k, id), Used(taken, l, id)
  PROVE  k = l
<1>1. taken["video"] \in Nat /\ taken["audio"] \in Nat /\ id \in Nat
  BY MediaAssumption DEF TypeOK, Kinds
<1>2. Base["video"] = VideoBase /\ Base["audio"] = AudioBase
  BY DEF Base, Kinds
<1>3. VideoBase \in Nat /\ AudioBase \in Nat
  BY MediaAssumption
<1> QED
  BY <1>1, <1>2, <1>3 DEF Used, Apart, Kinds

\* Steps that take no id and open no stream keep the invariant, if they keep
\* what is known of chunks and answers.
LEMMA RangeStays ==
  ASSUME RangeInv,
         UNCHANGED <<nextId, taken, session>>,
         \A j \in 1..Slots : streams'[j] # Free =>
           streams[j] # Free /\ streams'[j].id = streams[j].id /\ streams'[j].name = streams[j].name,
         Apart => ToldKnown' /\ ChunksKnown' /\ AnswersKnown'
  PROVE  RangeInv'
<1>1. Apart' <=> Apart
  BY DEF Apart
<1>2. ASSUME Apart PROVE IdsFollow' /\ StreamsUsed'
  <2>1. IdsFollow /\ StreamsUsed
    BY <1>2 DEF RangeInv
  <2>2. IdsFollow'
    BY <2>1 DEF IdsFollow
  <2>3. StreamsUsed'
    BY <2>1 DEF StreamsUsed
  <2> QED
    BY <2>2, <2>3
<1> QED
  BY <1>1, <1>2, Zenon DEF RangeInv

\* A queue that was taken from holds nothing unknown.
LEMMA ChunksShift ==
  ASSUME RangeInv, Apart, UNCHANGED <<taken, session>>,
         \A n \in DOMAIN tasks' : n + 1 \in DOMAIN tasks /\ tasks'[n] = tasks[n + 1]
  PROVE  ChunksKnown'
  BY DEF RangeInv, ChunksKnown

\* A queue that was given an answer of a close or of a refusal holds nothing
\* unknown.
LEMMA AnswerAdded ==
  ASSUME RangeInv, Apart, UNCHANGED <<taken, session>>, NEW a, ~Opened(a),
         \A m \in DOMAIN results' :
           \/ m \in DOMAIN results /\ m <= Len(results) /\ results'[m] = results[m]
           \/ results'[m] = a
  PROVE  AnswersKnown'
  BY DEF RangeInv, AnswersKnown

\* What is known stays known when the sessions and the queues do not change.
LEMMA KnownKept ==
  ASSUME RangeInv, Apart, UNCHANGED <<taken, session>>
  PROVE  /\ UNCHANGED told => ToldKnown'
         /\ UNCHANGED tasks => ChunksKnown'
         /\ UNCHANGED results => AnswersKnown'
<1>1. UNCHANGED told => ToldKnown'
  BY DEF RangeInv, ToldKnown
<1>2. UNCHANGED tasks => ChunksKnown'
  BY DEF RangeInv, ChunksKnown
<1>3. UNCHANGED results => AnswersKnown'
  BY DEF RangeInv, AnswersKnown
<1> QED
  BY <1>1, <1>2, <1>3

\* Submissions and results that are taken keep the ids.
LEMMA QueueStepKeepsRange ==
  ASSUME StreamsInv, RangeInv,
         \/ \E request \in OpenRequests : AskOpen(request)
         \/ \E request \in CloseRequests : AskClose(request)
         \/ \E stream \in told, seq \in SeqIds : SendChunk(stream, seq)
         \/ TakeAnswer
  PROVE  RangeInv'
<1>1. TypeOK
  BY DEF StreamsInv
<1>2. ASSUME NEW request \in OpenRequests \cup CloseRequests, AskOpen(request) \/ AskClose(request)
      PROVE  RangeInv'
  <2>1. UNCHANGED <<streams, nextId, results, taken, session, told>> /\ Submit(request)
    BY <1>2 DEF AskOpen, AskClose, registryVars
  <2>2. request \in Tasks /\ request.type # "chunk"
    BY MediaAssumption DEF Tasks
  <2>3. \A n \in DOMAIN tasks' : (n \in DOMAIN tasks /\ tasks'[n] = tasks[n]) \/ tasks'[n] = request
    BY <1>1, <2>1, <2>2, SubmitParts
  <2>4. Apart => ChunksKnown'
    BY <2>1, <2>2, <2>3 DEF RangeInv, ChunksKnown
  <2> QED
    BY <2>1, <2>4, KnownKept, RangeStays
<1>3. ASSUME NEW stream \in told, NEW seq \in SeqIds, SendChunk(stream, seq)
      PROVE  RangeInv'
  <2> DEFINE t == [type |-> "chunk", kind |-> stream.kind, id |-> stream.id,
                   session |-> stream.session, seq |-> seq]
  <2>1. UNCHANGED <<streams, nextId, results, taken, session, told>> /\ Submit(t)
    BY <1>3 DEF SendChunk, registryVars
  <2>2. t \in Tasks
    BY <1>1 DEF TypeOK, Tasks
  <2>3. \A n \in DOMAIN tasks' : (n \in DOMAIN tasks /\ tasks'[n] = tasks[n]) \/ tasks'[n] = t
    BY <1>1, <2>1, <2>2, SubmitParts
  <2>4. Apart => Known(taken, session, t)
    BY DEF RangeInv, ToldKnown, Known
  <2> HIDE DEF t
  <2>5. Apart => ChunksKnown'
    BY <2>1, <2>3, <2>4 DEF RangeInv, ChunksKnown
  <2> QED
    BY <2>1, <2>5, KnownKept, RangeStays
<1>4. CASE TakeAnswer
  <2>1. /\ UNCHANGED <<streams, nextId, tasks, taken, session>>
        /\ results # <<>> /\ results' = Tail(results)
    BY <1>4 DEF TakeAnswer, registryVars
  <2>2. /\ Head(results) = results[1] /\ 1 \in DOMAIN results
        /\ \A n \in DOMAIN results' : n + 1 \in DOMAIN results /\ results'[n] = results[n + 1]
    BY <1>1, <2>1, QueueParts DEF TypeOK
  <2>3. Apart => AnswersKnown'
    BY <2>1, <2>2 DEF RangeInv, AnswersKnown
  <2>4. \A t \in told' : t \in told \/ (Opened(Head(results)) /\ t = AsTold(Head(results)))
    BY <1>4 DEF TakeAnswer, Opened, AsTold
  <2>5. Apart => (Opened(Head(results)) => Known(taken, session, AsTold(Head(results))))
    BY <2>2 DEF RangeInv, AnswersKnown, Known, AsTold
  <2>6. Apart => ToldKnown'
    BY <2>1, <2>4, <2>5 DEF RangeInv, ToldKnown
  <2> QED
    BY <2>1, <2>3, <2>6, KnownKept, RangeStays
<1> QED
  BY <1>2, <1>3, <1>4

\* Refusals, closes and chunks keep the ids.
LEMMA HandlerKeepsRange ==
  ASSUME StreamsInv, RangeInv,
         RefuseOpen \/ CloseNothing \/ CloseOpen \/ FinishClose \/ DeliverChunk
  PROVE  RangeInv'
<1>1. TypeOK /\ RegistryTypeOK
  BY DEF StreamsInv, TypeOK
<1>2. UNCHANGED <<nextId, taken, session, told>>
  BY DEF RefuseOpen, CloseNothing, CloseOpen, FinishClose, DeliverChunk
<1>3. Apart => ToldKnown'
  BY <1>2, KnownKept
<1>4. CASE RefuseOpen
  <2>1. /\ Head(tasks) \in Tasks
        /\ \A n \in DOMAIN tasks' : n + 1 \in DOMAIN tasks /\ tasks'[n] = tasks[n + 1]
    BY <1>1, <1>4, NextTaskParts DEF RefuseOpen
  <2> DEFINE a == AnswerOf("open", Head(tasks).kind, 0, 0, Refusal(Head(tasks)))
  <2>2. a \in Answers /\ ~Opened(a)
    BY <1>4, <2>1, TaskTypes, StatusTypes, AnswerTypes DEF RefuseOpen, Opened, AnswerOf
  <2>3. \A m \in DOMAIN results' :
          \/ m \in DOMAIN results /\ m <= Len(results) /\ results'[m] = results[m]
          \/ results'[m] = a
    BY <1>1, <1>4, <2>2, AnswerParts DEF RefuseOpen
  <2>4. UNCHANGED streams
    BY <1>4 DEF RefuseOpen, registryVars
  <2> HIDE DEF a
  <2>5. Apart => AnswersKnown'
    BY <1>2, <2>2, <2>3, AnswerAdded
  <2> QED
    BY <1>2, <1>3, <2>1, <2>4, <2>5, ChunksShift, RangeStays
<1>5. CASE CloseNothing
  <2>1. /\ Head(tasks) \in Tasks /\ Head(tasks).type = "close"
        /\ \A n \in DOMAIN tasks' : n + 1 \in DOMAIN tasks /\ tasks'[n] = tasks[n + 1]
    BY <1>1, <1>5, NextTaskParts DEF CloseNothing
  <2> DEFINE a == AnswerOf("close", Head(tasks).kind, Head(tasks).id, 0, CloseStatus(Head(tasks)))
  <2>2. a \in Answers /\ ~Opened(a)
    BY <2>1, TaskTypes, StatusTypes, AnswerTypes DEF Opened, AnswerOf
  <2>3. \A m \in DOMAIN results' :
          \/ m \in DOMAIN results /\ m <= Len(results) /\ results'[m] = results[m]
          \/ results'[m] = a
    BY <1>1, <1>5, <2>2, AnswerParts DEF CloseNothing
  <2>4. UNCHANGED streams
    BY <1>5 DEF CloseNothing, registryVars
  <2> HIDE DEF a
  <2>5. Apart => AnswersKnown'
    BY <1>2, <2>2, <2>3, AnswerAdded
  <2> QED
    BY <1>2, <1>3, <2>1, <2>4, <2>5, ChunksShift, RangeStays
<1>6. CASE CloseOpen
  <2>1. \A n \in DOMAIN tasks' : n + 1 \in DOMAIN tasks /\ tasks'[n] = tasks[n + 1]
    BY <1>1, <1>6, NextTaskParts DEF CloseOpen
  <2>2. UNCHANGED <<streams, results>>
    BY <1>6 DEF CloseOpen, BeginClose
  <2> QED
    BY <1>2, <1>3, <2>1, <2>2, ChunksShift, KnownKept, RangeStays
<1>7. CASE FinishClose
  <2>1. /\ streams[Last(closing).slot].name.kind \in Kinds
        /\ Last(closing).id \in StreamIds
    BY <1>7, FinishCloseKeeps
  <2> DEFINE a == AnswerOf("close", streams[Last(closing).slot].name.kind, Last(closing).id, 0, "SUCCESS")
  <2>2. a \in Answers /\ ~Opened(a)
    BY <2>1, AnswerTypes DEF Opened, AnswerOf
  <2>3. \A m \in DOMAIN results' :
          \/ m \in DOMAIN results /\ m <= Len(results) /\ results'[m] = results[m]
          \/ results'[m] = a
    BY <1>1, <1>7, <2>2, AnswerParts DEF FinishClose
  <2>4. EndClose /\ UNCHANGED tasks
    BY <1>7 DEF FinishClose
  <2>5. \A j \in 1..Slots : streams'[j] # Free => streams'[j] = streams[j]
    BY <1>1, <2>4, EndCloseEffect DEF RegistryTypeOK
  <2> HIDE DEF a
  <2>6. Apart => AnswersKnown'
    BY <1>2, <2>2, <2>3, AnswerAdded
  <2>7. \A j \in 1..Slots : streams'[j] # Free =>
          streams[j] # Free /\ streams'[j].id = streams[j].id /\ streams'[j].name = streams[j].name
    BY <2>5
  <2> QED
    BY <1>2, <1>3, <2>4, <2>6, <2>7, KnownKept, RangeStays
<1>8. CASE DeliverChunk
  <2>1. \A n \in DOMAIN tasks' : n + 1 \in DOMAIN tasks /\ tasks'[n] = tasks[n + 1]
    BY <1>1, <1>8, NextTaskParts DEF DeliverChunk
  <2>2. Head(tasks).id \in StreamIds /\ Head(tasks).seq \in SeqIds
    BY <1>1, <1>8, DeliverChunkType
  <2>3. Handle(Head(tasks).id, Head(tasks).seq) /\ UNCHANGED results
    BY <1>8 DEF DeliverChunk
  <2>4. \A j \in 1..Slots : streams'[j] # Free =>
          streams[j] # Free /\ streams'[j].id = streams[j].id /\ streams'[j].name = streams[j].name
    BY <1>1, <2>2, <2>3, HandleEffect
  <2> QED
    BY <1>2, <1>3, <2>1, <2>3, <2>4, ChunksShift, KnownKept, RangeStays
<1> QED
  BY <1>4, <1>5, <1>6, <1>7, <1>8

\* An open takes the id after those that its kind used, which neither a stream
\* nor anything that is known has, and it leaves everything else known.
LEMMA AcceptOpenTakes ==
  ASSUME StreamsInv, RangeInv, AcceptOpen, Apart'
  PROVE  /\ Apart
         /\ nextId[Head(tasks).kind] = Base[Head(tasks).kind] + taken[Head(tasks).kind]
         /\ nextId[Head(tasks).kind] + 1 <= IdLimit
         /\ ~HasStream(nextId[Head(tasks).kind])
         /\ \A k \in Kinds : ~Used(taken, k, nextId[Head(tasks).kind])
         /\ \A k \in Kinds, id \in StreamIds : Used(taken, k, id) => Used(taken', k, id)
         /\ Used(taken', Head(tasks).kind, nextId[Head(tasks).kind])
<1> DEFINE kind == Head(tasks).kind
           id   == nextId[kind]
<1>1. TypeOK /\ RegistryTypeOK
  BY DEF StreamsInv, TypeOK
<1>2. kind \in Kinds /\ id \in StreamIds
  BY <1>1, NextTaskParts, TaskTypes, AcceptOpenType DEF AcceptOpen
<1>3. taken' = [taken EXCEPT ![kind] = taken[kind] + 1]
  BY DEF AcceptOpen, TakeId
<1> HIDE DEF kind, id
<1>4. /\ taken["video"] \in Nat /\ taken["audio"] \in Nat
      /\ taken'[kind] = taken[kind] + 1
      /\ \A k \in Kinds : k # kind => taken'[k] = taken[k]
  BY <1>1, <1>2, <1>3 DEF TypeOK, Kinds
<1>5. /\ VideoBase \in Nat /\ AudioBase \in Nat /\ IdLimit \in Nat /\ AudioBase < IdLimit
      /\ Base["video"] = VideoBase /\ Base["audio"] = AudioBase
  BY MediaAssumption DEF Base, Kinds
<1>6. /\ VideoBase + taken'["video"] <= AudioBase
      /\ AudioBase + taken'["audio"] <= IdLimit
  BY DEF Apart
<1>7. Apart
  BY <1>2, <1>4, <1>5, <1>6 DEF Apart, Kinds
<1>8. Base[kind] + taken[kind] < IdLimit
  BY <1>2, <1>4, <1>5, <1>6 DEF Kinds
<1>9. id = Base[kind] + taken[kind]
  BY <1>2, <1>7, <1>8 DEF RangeInv, IdsFollow, id
<1>10. \A k \in Kinds : ~Used(taken, k, id)
  BY <1>2, <1>4, <1>5, <1>6, <1>9 DEF Used, Kinds
<1>11. ~HasStream(id)
  <2> SUFFICES ASSUME NEW i \in 1..Slots, streams[i] # Free, streams[i].id = id PROVE FALSE
    BY DEF HasStream
  <2>1. Used(taken, streams[i].name.kind, id)
    BY <1>7 DEF RangeInv, StreamsUsed
  <2>2. streams[i].name \in Names
    BY <1>1 DEF RegistryTypeOK, Open
  <2>3. streams[i].name.kind \in Kinds
    BY <2>2, NameKinds
  <2> QED
    BY <1>10, <2>1, <2>3
<1>12. \A k \in Kinds, i \in StreamIds : Used(taken, k, i) => Used(taken', k, i)
  <2> SUFFICES ASSUME NEW k \in Kinds, NEW i \in StreamIds, Used(taken, k, i)
               PROVE  Used(taken', k, i)
    OBVIOUS
  <2>1. i \in Nat
    BY MediaAssumption
  <2> QED
    BY <1>4, <1>5, <2>1 DEF Used, Kinds
<1>13. Used(taken', kind, id) /\ id + 1 <= IdLimit
  BY <1>2, <1>4, <1>5, <1>8, <1>9 DEF Used, Kinds
<1> QED
  BY <1>7, <1>9, <1>10, <1>11, <1>12, <1>13 DEF kind, id

\* What was known stays known when an id is taken that nothing had.
LEMMA KnownSurvives ==
  ASSUME StreamsInv, RangeInv, AcceptOpen, Apart',
         NEW t, t.kind \in Kinds, t.id \in StreamIds, Known(taken, session, t)
  PROVE  Known(taken', session', t)
<1>1. Used(taken', t.kind, t.id) /\ t.id # nextId[Head(tasks).kind]
  BY AcceptOpenTakes DEF Known
<1>2. session' = session \/
        session' = [session EXCEPT ![nextId[Head(tasks).kind]] = session[nextId[Head(tasks).kind]] + 1]
  BY DEF AcceptOpen
<1>3. session'[t.id] = session[t.id]
  BY <1>1, <1>2 DEF StreamsInv, TypeOK
<1> QED
  BY <1>1, <1>3 DEF Known

\* An open keeps the ids.
LEMMA AcceptOpenKeepsRange ==
  ASSUME StreamsInv, RangeInv, AcceptOpen
  PROVE  RangeInv'
<1> SUFFICES ASSUME Apart'
             PROVE  IdsFollow' /\ StreamsUsed' /\ ToldKnown' /\ ChunksKnown' /\ AnswersKnown'
  BY DEF RangeInv
<1> DEFINE kind   == Head(tasks).kind
           id     == nextId[kind]
           name   == OpenName(Head(tasks))
           status == RegisterStatus(id, name, TRUE)
<1>1. TypeOK /\ RegistryTypeOK /\ TypeOK'
  BY AcceptOpenType DEF StreamsInv, TypeOK
<1>2. /\ Head(tasks) \in Tasks /\ Head(tasks).type = "open"
      /\ \A n \in DOMAIN tasks' : n + 1 \in DOMAIN tasks /\ tasks'[n] = tasks[n + 1]
  BY <1>1, NextTaskParts DEF AcceptOpen
<1>3. kind \in Kinds /\ id \in StreamIds /\ name \in Names /\ name.kind = kind
      /\ StoredName[name] = name
  BY <1>1, <1>2, TaskTypes, OpenNameType, AcceptOpenType
<1>4. /\ Apart /\ id = Base[kind] + taken[kind]
      /\ \A k \in Kinds, i \in StreamIds : Used(taken, k, i) => Used(taken', k, i)
      /\ Used(taken', kind, id)
  BY AcceptOpenTakes
<1>5. IdsFollow'
  <2>1. /\ nextId' = [nextId EXCEPT ![kind] = (id + 1) % IdLimit]
        /\ taken' = [taken EXCEPT ![kind] = taken[kind] + 1]
    BY DEF AcceptOpen, TakeId
  <2>2. id + 1 < IdLimit => (id + 1) % IdLimit = id + 1
    BY <1>3, IdStep
  <2>3. Base' = Base /\ Base[kind] \in Nat /\ taken[kind] \in Nat
    BY <1>1, <1>3, MediaAssumption DEF Base, TypeOK
  <2>4. IdsFollow
    BY <1>4 DEF RangeInv
  <2> HIDE DEF kind, id
  <2> SUFFICES ASSUME NEW k \in Kinds, Base[k] + taken'[k] < IdLimit
               PROVE  nextId'[k] = Base[k] + taken'[k]
    BY <2>3 DEF IdsFollow
  <2>5. CASE k = kind
    <3>1. taken'[k] = taken[k] + 1 /\ nextId'[k] = (id + 1) % IdLimit
      BY <1>1, <1>3, <2>1, <2>5 DEF TypeOK
    <3>2. id + 1 = Base[k] + taken'[k]
      BY <1>4, <2>3, <2>5, <3>1
    <3> QED
      BY <2>2, <3>1, <3>2
  <2>6. CASE k # kind
    BY <1>1, <2>1, <2>4, <2>6 DEF TypeOK, IdsFollow
  <2> QED
    BY <2>5, <2>6
<1>6. StreamsUsed'
  <2>1. \A i \in 1..Slots : streams[i] # Free => Used(taken', streams[i].name.kind, streams[i].id)
    <3> SUFFICES ASSUME NEW i \in 1..Slots, streams[i] # Free
                 PROVE  Used(taken', streams[i].name.kind, streams[i].id)
      OBVIOUS
    <3>1. streams[i].name \in Names /\ streams[i].id \in StreamIds
      BY <1>1 DEF RegistryTypeOK, Open
    <3>2. Used(taken, streams[i].name.kind, streams[i].id)
      BY <1>4 DEF RangeInv, StreamsUsed
    <3> QED
      BY <1>4, <3>1, <3>2, NameKinds
  <2>2. Register(id, name, TRUE)
    BY DEF AcceptOpen
  <2> HIDE DEF kind, id, name, status
  <2>3. \/ UNCHANGED streams
        \/ \E i \in 1..Slots : streams' = [streams EXCEPT ![i] = Fresh(id, name)]
    BY <1>1, <1>3, <2>2, RegisterEffect
  <2>4. CASE UNCHANGED streams
    BY <2>1, <2>4 DEF StreamsUsed
  <2>5. ASSUME NEW i \in 1..Slots, streams' = [streams EXCEPT ![i] = Fresh(id, name)]
        PROVE  StreamsUsed'
    <3>1. /\ streams'[i].id = id /\ streams'[i].name = name
          /\ \A j \in 1..Slots : j # i => streams'[j] = streams[j]
      BY <1>1, <1>3, <2>5 DEF RegistryTypeOK, Fresh
    <3> SUFFICES ASSUME NEW j \in 1..Slots, streams'[j] # Free
                 PROVE  Used(taken', streams'[j].name.kind, streams'[j].id)
      BY DEF StreamsUsed
    <3> QED
      BY <1>3, <1>4, <2>1, <3>1
  <2> QED
    BY <2>3, <2>4, <2>5
<1>7. ToldKnown'
  <2> SUFFICES ASSUME NEW t \in told PROVE Known(taken', session', t)
    BY DEF AcceptOpen, ToldKnown
  <2>1. t.kind \in Kinds /\ t.id \in StreamIds
    BY <1>1 DEF TypeOK
  <2>2. Known(taken, session, t)
    BY <1>4 DEF RangeInv, ToldKnown
  <2> QED
    BY <2>1, <2>2, KnownSurvives
<1>8. ChunksKnown'
  <2> SUFFICES ASSUME NEW n \in DOMAIN tasks', tasks'[n].type = "chunk"
               PROVE  Known(taken', session', tasks'[n])
    BY DEF ChunksKnown
  <2>1. tasks'[n] \in Tasks
    BY <1>1, QueueParts DEF TypeOK
  <2>2. tasks'[n].kind \in Kinds /\ tasks'[n].id \in StreamIds
    BY <2>1, TaskTypes
  <2>3. Known(taken, session, tasks'[n])
    BY <1>2, <1>4 DEF RangeInv, ChunksKnown
  <2> QED
    BY <2>2, <2>3, KnownSurvives
<1>9. AnswersKnown'
  <2> DEFINE a == AnswerOf("open", kind, id, session[id] + 1, status)
  <2>1. a \in Answers
    BY <1>1, AcceptOpenType
  <2>2. Answer("open", kind, id, session[id] + 1, status)
    BY DEF AcceptOpen
  <2>3. \A m \in DOMAIN results' :
          \/ m \in DOMAIN results /\ m <= Len(results) /\ results'[m] = results[m]
          \/ results'[m] = a
    <3> HIDE DEF kind, id, name, status
    <3> QED
      BY <1>1, <2>1, <2>2, AnswerParts
  <2>4. Opened(a) => Known(taken', session', a)
    <3> SUFFICES ASSUME Opened(a) PROVE Known(taken', session', a)
      OBVIOUS
    <3>1. status = "SUCCESS" /\ a.kind = kind /\ a.id = id /\ a.session = session[id] + 1
      BY DEF Opened, AnswerOf
    <3>2. session' = [session EXCEPT ![id] = session[id] + 1]
      BY <3>1 DEF AcceptOpen
    <3>3. session'[id] = session[id] + 1
      BY <1>1, <1>3, <3>2 DEF TypeOK
    <3> QED
      BY <1>4, <3>1, <3>3 DEF Known
  <2> HIDE DEF a
  <2> SUFFICES ASSUME NEW m \in DOMAIN results', Opened(results'[m])
               PROVE  Known(taken', session', results'[m])
    BY DEF AnswersKnown
  <2>5. CASE results'[m] = a
    BY <2>4, <2>5
  <2>6. CASE m \in DOMAIN results /\ results'[m] = results[m]
    <3>1. results[m] \in Answers
      BY <1>1, <2>6, QueueParts DEF TypeOK
    <3>2. results[m].kind \in Kinds /\ results[m].id \in StreamIds
      BY <3>1 DEF Answers
    <3>3. Known(taken, session, results[m])
      BY <1>4, <2>6 DEF RangeInv, AnswersKnown
    <3> QED
      BY <2>6, <3>2, <3>3, KnownSurvives
  <2> QED
    BY <2>3, <2>5, <2>6
<1> QED
  BY <1>5, <1>6, <1>7, <1>8, <1>9

\* The invariants of the streams and of the ids hold in every execution.
THEOREM RangeInvHolds == Spec => [](StreamsInv /\ RangeInv)
<1>1. Init => RangeInv
  <2> SUFFICES ASSUME Init PROVE RangeInv
    OBVIOUS
  <2>1. IdsFollow
    BY MediaAssumption DEF Init, IdsFollow, Base
  <2>2. StreamsUsed
    BY DEF Init, RegistryInit, StreamsUsed
  <2>3. ToldKnown /\ ChunksKnown /\ AnswersKnown
    BY DEF Init, ToldKnown, ChunksKnown, AnswersKnown
  <2> QED
    BY <2>1, <2>2, <2>3 DEF RangeInv
<1>2. StreamsInv /\ RangeInv /\ [Next]_vars => RangeInv'
  <2> SUFFICES ASSUME StreamsInv, RangeInv, [Next]_vars PROVE RangeInv'
    OBVIOUS
  <2>1. CASE UNCHANGED vars
    BY <2>1 DEF vars, registryVars, mediaVars, RangeInv, IdsFollow, StreamsUsed, ToldKnown,
                ChunksKnown, AnswersKnown, Apart, Known, Used, Base
  <2> QED
    BY <2>1, QueueStepKeepsRange, HandlerKeepsRange, AcceptOpenKeepsRange DEF Next
<1> QED
  BY <1>1, <1>2, StreamsInvHolds, PTL DEF Spec

\* While the ranges are apart, a chunk is counted only for the stream it was sent
\* to, for every length of the queues and however late it comes
\* (media_profile.c:219, 245, 282).
THEOREM ChunksApart == Spec => ChunksReachTheirStream
<1>1. ASSUME StreamsInv, RangeInv, [Next]_vars, NEW k \in Kinds, Apart, kindChunks'[k] > kindChunks[k]
      PROVE  Head(tasks).kind = k /\ Head(tasks).session = session[Head(tasks).id]
  <2>1. TypeOK /\ RegistryTypeOK /\ kindChunks[k] \in Nat
    BY <1>1 DEF StreamsInv, TypeOK
  <2>2. kindChunks' # kindChunks
    BY <1>1, <2>1
  <2>3. DeliverChunk
    BY <1>1, <2>2 DEF Next, vars, mediaVars, AskOpen, AskClose, SendChunk, TakeAnswer, RefuseOpen,
                      AcceptOpen, CloseNothing, CloseOpen, FinishClose
  <2>4. /\ Head(tasks) \in Tasks /\ Head(tasks).type = "chunk"
        /\ Head(tasks) = tasks[1] /\ 1 \in DOMAIN tasks
    BY <2>1, <2>3, NextTaskParts DEF DeliverChunk
  <2>5. Head(tasks).kind \in Kinds /\ Head(tasks).id \in StreamIds
    BY <2>4, TaskTypes
  <2>6. Known(taken, session, Head(tasks))
    BY <1>1, <2>4 DEF RangeInv, ChunksKnown
  <2>7. PICK i \in 1..Slots :
          streams[i] # Free /\ streams[i].id = Head(tasks).id /\ streams[i].name.kind = k
    <3> DEFINE P(l) == \E i \in 1..Slots : IsContextOf(i, Head(tasks).id) /\ streams[i].name.kind = l
    <3>1. kindChunks' = [l \in Kinds |-> IF P(l) THEN kindChunks[l] + 1 ELSE kindChunks[l]]
      BY <2>3 DEF DeliverChunk
    <3> HIDE DEF P
    <3>2. P(k)
      BY <1>1, <2>1, <3>1
    <3> QED
      BY <3>2 DEF P, IsContextOf
  <2>8. Used(taken, k, Head(tasks).id)
    BY <1>1, <2>7 DEF RangeInv, StreamsUsed
  <2>9. Head(tasks).kind = k
    BY <1>1, <2>1, <2>5, <2>6, <2>8, RangesDisjoint DEF Known
  <2> QED
    BY <2>6, <2>9 DEF Known
<1>2. StreamsInv /\ RangeInv /\ [Next]_vars =>
        [ \A k \in Kinds :
            Apart /\ kindChunks'[k] > kindChunks[k] =>
              Head(tasks).kind = k /\ Head(tasks).session = session[Head(tasks).id] ]_vars
  BY <1>1
<1> QED
  BY <1>2, RangeInvHolds, PTL DEF Spec, ChunksReachTheirStream

\* While the ranges are apart, the ids that the host picks are never in use, so
\* only a source that has a stream is refused as open (media_profile.c:219, 245).
THEOREM IdsNeverInTheWay == Spec => OnlyBusySourcesRefused
<1> DEFINE id   == nextId[Head(tasks).kind]
           name == OpenName(Head(tasks))
<1>1. ASSUME StreamsInv, RangeInv, AcceptOpen, Apart'
      PROVE  RegisterStatus(id, name, TRUE) # "STREAM_ALREADY_OPEN" \/ HasOpenStream(name)
  <2>1. ~HasStream(id)
    BY <1>1, AcceptOpenTakes
  <2> QED
    BY <2>1 DEF RegisterStatus
<1>2. StreamsInv /\ RangeInv /\ [Next]_vars =>
        [ AcceptOpen /\ Apart' =>
            \/ RegisterStatus(nextId[Head(tasks).kind], OpenName(Head(tasks)), TRUE)
                 # "STREAM_ALREADY_OPEN"
            \/ HasOpenStream(OpenName(Head(tasks))) ]_vars
  BY <1>1
<1> QED
  BY <1>2, RangeInvHolds, PTL DEF Spec, OnlyBusySourcesRefused

\* A close that is answered with success leaves no stream with that id behind
\* (media_profile.c:256-276).
THEOREM ClosedForGood == Spec => ClosedWhenToldSo
<1>1. ASSUME StreamsInv, [Next]_vars, NEW n \in DOMAIN results', n > Len(results),
             results'[n].type = "close", results'[n].status = "SUCCESS"
      PROVE  results'[n].id \notin OpenIds'
  <2>1. TypeOK /\ RegistryTypeOK
    BY <1>1 DEF StreamsInv, TypeOK
  <2>2. DOMAIN results = 1..Len(results) /\ Len(results) \in Nat
    BY <2>1, QueueParts DEF TypeOK
  <2>3. CASE UNCHANGED results
    BY <1>1, <2>2, <2>3
  <2>4. CASE TakeAnswer
    <3>1. results' = Tail(results) /\ results # <<>>
      BY <2>4 DEF TakeAnswer
    <3>2. \A m \in DOMAIN Tail(results) : m + 1 \in DOMAIN results
      BY <2>1, <3>1, QueueParts DEF TypeOK
    <3>3. results' \in Seq(Answers) /\ DOMAIN results' = 1..Len(results')
      BY <2>1, <3>1, QueueParts DEF TypeOK
    <3> QED
      BY <1>1, <2>2, <3>1, <3>2, <3>3
  <2>5. ASSUME NEW kind, NEW id, NEW s, NEW status,
               AnswerOf("open", kind, id, s, status) \in Answers,
               Answer("open", kind, id, s, status)
        PROVE  FALSE
    <3>1. results'[n] = AnswerOf("open", kind, id, s, status)
      BY <1>1, <2>1, <2>2, <2>5, AnswerParts
    <3> QED
      BY <1>1, <3>1 DEF AnswerOf
  <2>6. CASE RefuseOpen
    <3>1. AnswerOf("open", Head(tasks).kind, 0, 0, Refusal(Head(tasks))) \in Answers
      BY <2>1, <2>6, NextTaskParts, TaskTypes, StatusTypes, AnswerTypes DEF RefuseOpen
    <3> QED
      BY <2>5, <2>6, <3>1 DEF RefuseOpen
  <2>7. CASE AcceptOpen
    <3>1. AnswerOf("open", Head(tasks).kind, nextId[Head(tasks).kind],
                   session[nextId[Head(tasks).kind]] + 1,
                   RegisterStatus(nextId[Head(tasks).kind], OpenName(Head(tasks)), TRUE)) \in Answers
      BY <2>1, <2>7, AcceptOpenType
    <3> QED
      BY <2>5, <2>7, <3>1 DEF AcceptOpen
  <2>8. CASE CloseNothing
    <3>1. Head(tasks) \in Tasks /\ Head(tasks).type = "close"
      BY <2>1, <2>8, NextTaskParts DEF CloseNothing
    <3>2. AnswerOf("close", Head(tasks).kind, Head(tasks).id, 0, CloseStatus(Head(tasks))) \in Answers
      BY <3>1, TaskTypes, StatusTypes, AnswerTypes
    <3>3. results'[n] = AnswerOf("close", Head(tasks).kind, Head(tasks).id, 0, CloseStatus(Head(tasks)))
      BY <1>1, <2>1, <2>2, <2>8, <3>2, AnswerParts DEF CloseNothing
    <3>4. results'[n].id = Head(tasks).id /\ CloseStatus(Head(tasks)) = "SUCCESS"
      BY <1>1, <3>3 DEF AnswerOf
    <3>5. ~HasStream(Head(tasks).id)
      BY <3>4 DEF CloseStatus
    <3>6. OpenIds' = OpenIds
      BY <2>8 DEF CloseNothing, registryVars, OpenIds
    <3> QED
      BY <3>4, <3>5, <3>6 DEF OpenIds, HasStream
  <2>9. CASE FinishClose
    <3> DEFINE slot == Last(closing).slot
               id   == Last(closing).id
    <3>1. streams[slot].name.kind \in Kinds /\ id \in StreamIds
      BY <1>1, <2>9, FinishCloseKeeps
    <3>2. EndClose /\ closing # <<>>
      BY <2>9 DEF FinishClose, EndClose
    <3>3. /\ slot \in 1..Slots
          /\ streams' = [streams EXCEPT ![slot] = Free]
      BY <2>1, <3>2, EndCloseEffect
    <3>4. AnswerOf("close", streams[slot].name.kind, id, 0, "SUCCESS") \in Answers
      BY <3>1, AnswerTypes
    <3>5. results'[n] = AnswerOf("close", streams[slot].name.kind, id, 0, "SUCCESS")
      BY <1>1, <2>1, <2>2, <2>9, <3>4, AnswerParts DEF FinishClose
    <3>6. results'[n].id = id
      BY <3>5 DEF AnswerOf
    <3>7. streams[slot] # Free /\ streams[slot].id = id
      BY <1>1, <3>2 DEF StreamsInv, ClosingKept
    <3>8. \A j \in 1..Slots : streams'[j] # Free => streams'[j].id # id
      BY <1>1, <2>1, <3>3, <3>7 DEF StreamsInv, UniqueIds, RegistryTypeOK
    <3> QED
      BY <3>6, <3>8 DEF OpenIds
  <2> QED
    BY <1>1, <2>3, <2>4, <2>6, <2>7, <2>8, <2>9
       DEF Next, vars, mediaVars, AskOpen, AskClose, SendChunk, CloseOpen, DeliverChunk
<1>2. StreamsInv /\ [Next]_vars =>
        [ \A n \in DOMAIN results' :
            n > Len(results) /\ results'[n].type = "close" /\ results'[n].status = "SUCCESS" =>
              results'[n].id \notin OpenIds' ]_vars
  BY <1>1
<1> QED
  BY <1>2, StreamsInvHolds, PTL DEF Spec, ClosedWhenToldSo
================================================================================
