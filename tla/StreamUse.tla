------------------------------ MODULE StreamUse ------------------------------
(***************************************************************************)
(* A registry of streams in use: streams are opened and closed and chunks  *)
(* come in, also from within the sink's on_stream_closed.  That the sink   *)
(* may do to any stream, also to the one that it is told is closed: its    *)
(* context is still active then, so a close of it calls the sink again.    *)
(***************************************************************************)
EXTENDS StreamRegistry

CONSTANTS
  MaxHeard,    \* bound on the chunks that come in
  MaxNested    \* bound on the close calls in progress at a time

ASSUME UseAssumption == MaxHeard \in Nat /\ MaxNested \in Nat

VARIABLES
  heard,     \* history: the sequence numbers of each open stream so far
  settled,   \* history: the gaps and duplicates of the streams closed so far
  again      \* history: the close calls whose stream is closed once more within them

useVars == <<registryVars, heard, settled, again>>

Lapses == {"gaps", "duplicates"}

UseInit ==
  /\ RegistryInit
  /\ heard = [id \in StreamIds |-> <<>>]
  /\ settled = [kind \in Lapses |-> 0]
  /\ again = {}

\* What the counters mean: a chunk that repeats the one before is a duplicate,
\* any other that does not follow it shows a gap.
LapseOf(before, seq) ==
  IF seq = before THEN "duplicates" ELSE IF seq # Next32(before) THEN "gaps" ELSE "none"

\* The lapses of a kind in what each of some streams heard: the ids, and the
\* places in their sequences.
LapsesIn(kind, h, ids) ==
  UNION {{<<id, i>> : i \in {j \in 2..Len(h[id]) : LapseOf(h[id][j - 1], h[id][j]) = kind}} :
         id \in ids}

OpenStream(id, name, exclusive) ==
  /\ Register(id, name, exclusive)
  /\ heard' = IF RegisterStatus(id, name, exclusive) = "SUCCESS"
                THEN [heard EXCEPT ![id] = <<>>] ELSE heard
  /\ UNCHANGED <<settled, again>>

CallClose(id) ==
  /\ Len(closing) < MaxNested
  /\ BeginClose(id)
  /\ again' = again \cup {k \in DOMAIN closing : closing[k].id = id}
  /\ UNCHANGED <<heard, settled>>

\* The stream that the call erases need not be the one it was called for.
CloseReturns ==
  /\ EndClose
  /\ settled' = [kind \in Lapses |->
                   settled[kind] + Cardinality(LapsesIn(kind, heard, OpenIds \ OpenIds'))]
  /\ again' = again \ {Len(closing)}
  /\ UNCHANGED heard

Chunk(id, seq) ==
  /\ stats.chunks + stats.unknown < MaxHeard
  /\ Handle(id, seq)
  /\ heard' = IF HasStream(id) THEN [heard EXCEPT ![id] = Append(@, seq)] ELSE heard
  /\ UNCHANGED <<settled, again>>

UseNext ==
  \/ \E id \in StreamIds, n \in Names, ex \in BOOLEAN : OpenStream(id, n, ex)
  \/ \E id \in StreamIds : CallClose(id)
  \/ CloseReturns
  \/ \E id \in StreamIds, seq \in SeqIds : Chunk(id, seq)

UseSpec == UseInit /\ [][UseNext]_useVars

-----------------------------------------------------------------------------

\* The values that the variables range over.
UseTypeOK ==
  /\ RegistryTypeOK
  /\ heard \in [StreamIds -> Seq(SeqIds)]
  /\ settled \in [Lapses -> Nat]
  /\ again \subseteq DOMAIN closing

\* A stream id has one context at most, so find_context (stream.c:24) cannot
\* meet a wrong one, whatever was opened and closed in slots used before.
UniqueStreams ==
  \A i, j \in 1..Slots :
    streams[i] # Free /\ streams[j] # Free /\ streams[i].id = streams[j].id => i = j

\* The pointer that a close call keeps across the sink (stream.c:134, 147)
\* still points to the stream it was looked up for, however the sink opened
\* and closed others meanwhile and closed streams of other calls once more: the
\* memset erases no other stream, unless this very stream was closed again.
ContextStaysItsOwn ==
  \A k \in DOMAIN closing \ again :
    streams[closing[k].slot] # Free /\ streams[closing[k].slot].id = closing[k].id

\* The same of every call, which does not hold: a sink that closes the stream
\* once more and then opens another in the context that is free by then has
\* that one erased, without being told, when the outer call returns.
CloseErasesOnlyItsOwn ==
  [][ CloseReturns => OpenIds \ OpenIds' \subseteq {Last(closing).id} ]_useVars

\* The counters say what was heard: each stream accounts for its own sequence
\* from the chunk it first hears, also with wrapping numbers, slots and ids
\* used again, and streams that are interleaved (stream.c:160-168).
AccountingExact ==
  \A kind \in Lapses :
    stats[kind] = settled[kind] + Cardinality(LapsesIn(kind, heard, OpenIds))

=============================================================================
