--------------------------- MODULE StreamRegistry ----------------------------
(***************************************************************************)
(* The registry of open streams (src/stream.c): a fixed array of stream    *)
(* contexts and the counters of axtp_stream_stats_t.                       *)
(*                                                                         *)
(* Opening a stream and delivering a chunk call the sink as their last     *)
(* act, so what the sink calls in turn happens as if it were called next.  *)
(* Closing calls the sink in the middle: BeginClose is the part up to that *)
(* call, EndClose what follows it, and closing holds the calls that are in *)
(* between, the innermost one last.  The copy that the sink is shown       *)
(* (last_closed) is left out: the registry itself never reads it.          *)
(***************************************************************************)
EXTENDS Naturals, Sequences, SequencesExt

CONSTANTS
  Slots,       \* AXTP_STREAM_REGISTRY_CAPACITY
  StreamIds,   \* the stream ids in use (uint32_t in the code)
  Names,       \* pairs of a kind and a source, as far as strcmp tells them apart
  Kindless,    \* the names whose kind is missing or empty
  StoredName,  \* what the character arrays of a context keep of a name
  SeqLimit     \* 2^32, where sequence numbers wrap

ASSUME RegistryAssumption ==
  /\ Slots \in Nat \ {0}
  /\ StreamIds \subseteq Nat
  /\ Kindless \subseteq Names
  /\ StoredName \in [Names -> Names]
  /\ \A n \in Names : StoredName[StoredName[n]] = StoredName[n]
  /\ SeqLimit \in Nat \ {0}

VARIABLES
  streams,   \* the contexts, Free where none is active
  closing,   \* the close calls whose sink is being called
  stats

registryVars == <<streams, closing, stats>>

SeqIds == 0..(SeqLimit - 1)

Open == [id : StreamIds, name : Names, hasSeq : BOOLEAN, expected : SeqIds]
Free == [id |-> 0]

Statuses ==
  {"SUCCESS", "STREAM_ID_INVALID", "STREAM_PAYLOAD_INVALID", "STREAM_ALREADY_OPEN",
   "RESOURCE_EXHAUSTED"}

Counters == {"chunks", "unknown", "gaps", "duplicates"}

RegistryTypeOK ==
  /\ streams \in [1..Slots -> Open \cup {Free}]
  /\ closing \in Seq([slot : 1..Slots, id : StreamIds])
  /\ stats \in [Counters -> Nat]

RegistryInit ==
  /\ streams = [i \in 1..Slots |-> Free]
  /\ closing = <<>>
  /\ stats = [c \in Counters |-> 0]

-----------------------------------------------------------------------------
(* Looking up.                                                             *)

\* find_context: the first active context with the id.  Ids of open streams
\* are never 0, which is what tells an active context from a zeroed one.
IsContextOf(i, id) ==
  /\ i \in 1..Slots
  /\ streams[i] # Free
  /\ streams[i].id = id
  /\ \A j \in 1..(i - 1) : streams[j] # Free => streams[j].id # id

HasStream(id) == \E i \in 1..Slots : streams[i] # Free /\ streams[i].id = id

HasOpenStream(name) == \E i \in 1..Slots : streams[i] # Free /\ streams[i].name = name

IsFirstFree(i) ==
  /\ i \in 1..Slots
  /\ streams[i] = Free
  /\ \A j \in 1..(i - 1) : streams[j] # Free

OpenIds == {streams[i].id : i \in {j \in 1..Slots : streams[j] # Free}}

-----------------------------------------------------------------------------
(* axtp_stream_registry_register.                                          *)

\* Mutant: an id that is open is not refused.
RegisterStatusAnyId(id, name, exclusive) ==
  IF id = 0 THEN "STREAM_ID_INVALID"
  ELSE IF name \in Kindless THEN "STREAM_PAYLOAD_INVALID"
  ELSE IF exclusive /\ HasOpenStream(name) THEN "STREAM_ALREADY_OPEN"
  ELSE IF \A i \in 1..Slots : streams[i] # Free THEN "RESOURCE_EXHAUSTED"
  ELSE "SUCCESS"

\* The refusals in the order of the code.  The name is compared as the caller
\* gives it with the names as they are stored.
RegisterStatus(id, name, exclusive) ==
  IF id = 0 THEN "STREAM_ID_INVALID"
  ELSE IF name \in Kindless THEN "STREAM_PAYLOAD_INVALID"
  ELSE IF HasStream(id) \/ (exclusive /\ HasOpenStream(name)) THEN "STREAM_ALREADY_OPEN"
  ELSE IF \A i \in 1..Slots : streams[i] # Free THEN "RESOURCE_EXHAUSTED"
  ELSE "SUCCESS"

Register(id, name, exclusive) ==
  /\ IF RegisterStatus(id, name, exclusive) = "SUCCESS"
       THEN \E i \in 1..Slots :
              /\ IsFirstFree(i)
              /\ streams' = [streams EXCEPT ![i] =
                   [id |-> id, name |-> StoredName[name], hasSeq |-> FALSE, expected |-> 0]]
       ELSE UNCHANGED streams
  /\ UNCHANGED <<closing, stats>>

-----------------------------------------------------------------------------
(* axtp_stream_registry_close.  Closing a stream that is not open returns  *)
(* false and changes nothing.                                              *)

\* Mutant: the context is given up before the sink is called.
BeginCloseEarly(id) ==
  \E i \in 1..Slots :
    /\ IsContextOf(i, id)
    /\ closing' = Append(closing, [slot |-> i, id |-> id])
    /\ streams' = [streams EXCEPT ![i] = Free]
    /\ UNCHANGED stats

BeginClose(id) ==
  \E i \in 1..Slots :
    /\ IsContextOf(i, id)
    /\ closing' = Append(closing, [slot |-> i, id |-> id])
    /\ UNCHANGED <<streams, stats>>

EndClose ==
  /\ closing # <<>>
  /\ streams' = [streams EXCEPT ![Last(closing).slot] = Free]
  /\ closing' = Front(closing)
  /\ UNCHANGED stats

-----------------------------------------------------------------------------
(* axtp_stream_registry_handle.                                            *)

Next32(seq) == (seq + 1) % SeqLimit

\* What a chunk adds to the counters.
Counted(context, seq) ==
  {"chunks"}
    \cup {c \in {"duplicates"} : context.hasSeq /\ Next32(seq) = context.expected}
    \cup {c \in {"gaps"} : /\ context.hasSeq
                           /\ Next32(seq) # context.expected
                           /\ seq # context.expected}

\* Mutant: a gap is not caught up with.
HandleKeepsExpected(id, seq) ==
  /\ \/ /\ ~HasStream(id)
        /\ stats' = [stats EXCEPT !.unknown = @ + 1]
        /\ UNCHANGED streams
     \/ \E i \in 1..Slots :
          /\ IsContextOf(i, id)
          /\ stats' = [c \in Counters |->
                         IF c \in Counted(streams[i], seq) THEN stats[c] + 1 ELSE stats[c]]
          /\ streams' = [streams EXCEPT ![i].hasSeq = TRUE,
                                        ![i].expected = IF streams[i].hasSeq /\ seq # @ THEN @ ELSE Next32(seq)]
  /\ UNCHANGED closing

Handle(id, seq) ==
  /\ \/ /\ ~HasStream(id)
        /\ stats' = [stats EXCEPT !.unknown = @ + 1]
        /\ UNCHANGED streams
     \/ \E i \in 1..Slots :
          /\ IsContextOf(i, id)
          /\ stats' = [c \in Counters |->
                         IF c \in Counted(streams[i], seq) THEN stats[c] + 1 ELSE stats[c]]
          /\ streams' = [streams EXCEPT ![i].hasSeq = TRUE, ![i].expected = Next32(seq)]
  /\ UNCHANGED closing

=============================================================================
