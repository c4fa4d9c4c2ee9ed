----------------------------- MODULE MediaHost -------------------------------
(***************************************************************************)
(* The media profile of a host (src/media_profile.c) on its broker: a      *)
(* producer opens and closes video and audio streams by requests, and      *)
(* sends chunks to the streams it was told of.                             *)
(*                                                                         *)
(* The broker is reduced to its two queues (AxtpBroker has the rest): the  *)
(* four media methods and the stream handler are installed, so every task  *)
(* is handled.  What params say is reduced to what the handlers make of    *)
(* it: the source, cut to the handler's buffer; whether codec and format   *)
(* are supported; and the stream id.  The sink of the media profile does   *)
(* not call the registry, but it may submit tasks and poll results.        *)
(***************************************************************************)
EXTENDS StreamRegistry

CONSTANTS
  QueueCapacity,  \* AXTP_QUEUE_CAPACITY
  Sources,        \* the sources that a request may name
  OpenRequests,   \* the open requests that a producer may make
  CloseRequests,  \* the close requests that it may make
  CutSource,      \* what source[128] keeps of a source
  VideoBase,      \* 0x1001
  AudioBase,      \* 0x2001
  IdLimit,        \* 2^32, where stream ids wrap
  MaxOpens,       \* bound on the open requests
  MaxChunks       \* bound on the chunks that are sent

Kinds == {"video", "audio"}

MediaName(kind, source) == [kind |-> kind, source |-> source]

\* The profile's buffer is as long as the registry's (AXTP_STREAM_SOURCE_CAPACITY).
ASSUME MediaAssumption ==
  /\ QueueCapacity \in Nat \ {0}
  /\ CutSource \in [Sources -> Sources]
  /\ OpenRequests \subseteq [type : {"open"}, kind : Kinds, source : Sources, supported : BOOLEAN]
  /\ CloseRequests \subseteq [type : {"close"}, kind : Kinds, id : StreamIds]
  /\ Names = {MediaName(k, s) : k \in Kinds, s \in Sources}
  /\ Kindless = {}
  /\ \A k \in Kinds, s \in Sources :
       StoredName[MediaName(k, CutSource[s])] = MediaName(k, CutSource[s])
  /\ VideoBase \in Nat /\ AudioBase \in Nat /\ IdLimit \in Nat
  /\ 0 < VideoBase /\ VideoBase < AudioBase /\ AudioBase < IdLimit
  /\ StreamIds = 0..(IdLimit - 1)
  /\ MaxOpens \in Nat /\ MaxChunks \in Nat

VARIABLES
  options,     \* open_mode, accept_video and accept_audio
  nextId,      \* next_video_stream_id and next_audio_stream_id
  kindChunks,  \* video_chunks and audio_chunks of the statistics
  tasks,       \* the broker's tasks, oldest first
  results,     \* the broker's results, oldest first
  asked,       \* history: the open requests submitted so far
  taken,       \* history: the ids handed out so far, of each kind
  session,     \* history: the number of the latest stream with an id
  told         \* history: the streams that the producer was told of

mediaVars == <<options, nextId, kindChunks, tasks, results, asked, taken, session, told>>
vars == <<registryVars, mediaVars>>

Options == [producerOpen : BOOLEAN, accepted : SUBSET Kinds]

Tasks ==
  OpenRequests \cup CloseRequests
    \cup [type : {"chunk"}, kind : Kinds, id : StreamIds, session : Nat, seq : SeqIds]

Answers ==
  [type : {"open", "close"}, kind : Kinds, id : StreamIds, session : Nat,
   status : Statuses \cup {"RPC_PARAM_INVALID", "RPC_PARAM_MISSING", "NOT_SUPPORTED",
                           "MEDIA_CODEC_UNSUPPORTED", "STREAM_NOT_FOUND"}]

TypeOK ==
  /\ RegistryTypeOK
  /\ options \in Options
  /\ nextId \in [Kinds -> StreamIds]
  /\ kindChunks \in [Kinds -> Nat]
  /\ tasks \in Seq(Tasks) /\ Len(tasks) <= QueueCapacity
  /\ results \in Seq(Answers) /\ Len(results) <= QueueCapacity
  /\ asked \in Nat
  /\ taken \in [Kinds -> Nat]
  /\ session \in [StreamIds -> Nat]
  /\ told \subseteq [kind : Kinds, id : StreamIds, session : Nat]

\* Mutant: both kinds take their ids from one range.
BaseShared == [k \in Kinds |-> VideoBase]

Base == [k \in Kinds |-> IF k = "video" THEN VideoBase ELSE AudioBase]

Init ==
  /\ RegistryInit
  /\ options \in Options
  /\ nextId = Base
  /\ kindChunks = [k \in Kinds |-> 0]
  /\ tasks = <<>>
  /\ results = <<>>
  /\ asked = 0
  /\ taken = [k \in Kinds |-> 0]
  /\ session = [id \in StreamIds |-> 0]
  /\ told = {}

-----------------------------------------------------------------------------
(* The producer's requests and chunks reach the broker.                    *)

Submit(task) == tasks' = IF Len(tasks) >= QueueCapacity THEN tasks ELSE Append(tasks, task)

AskOpen(request) ==
  /\ asked < MaxOpens
  /\ asked' = asked + 1
  /\ Submit(request)
  /\ UNCHANGED <<registryVars, options, nextId, kindChunks, results, taken, session, told>>

AskClose(request) ==
  /\ Submit(request)
  /\ UNCHANGED <<registryVars, options, nextId, kindChunks, results, asked, taken, session, told>>

SendChunk(stream, seq) ==
  /\ stats.chunks + stats.unknown < MaxChunks
  /\ Submit([type |-> "chunk", kind |-> stream.kind, id |-> stream.id,
             session |-> stream.session, seq |-> seq])
  /\ UNCHANGED <<registryVars, options, nextId, kindChunks, results, asked, taken, session, told>>

\* The producer is told of the stream that an open request opened.
TakeAnswer ==
  /\ results # <<>>
  /\ results' = Tail(results)
  /\ told' = told \cup
       {[kind |-> a.kind, id |-> a.id, session |-> a.session] :
          a \in {b \in {Head(results)} : b.type = "open" /\ b.status = "SUCCESS"}}
  /\ UNCHANGED <<registryVars, options, nextId, kindChunks, tasks, asked, taken, session>>

-----------------------------------------------------------------------------
(* axtp_broker_poll runs the tasks in order.                               *)

\* A result that finds the queue full is gone (push_result).
Answer(type, kind, id, n, status) ==
  results' = IF Len(results) >= QueueCapacity THEN results
             ELSE Append(results, [type |-> type, kind |-> kind, id |-> id,
                                   session |-> n, status |-> status])

NextTask(type) ==
  /\ closing = <<>>
  /\ tasks # <<>>
  /\ Head(tasks).type = type
  /\ tasks' = Tail(tasks)

\* accept_producer_open up to open_accepted: what refuses a request before an
\* id is taken.
Refusal(task) ==
  IF ~options.producerOpen THEN "RPC_PARAM_INVALID"
  ELSE IF task.kind \notin options.accepted THEN "NOT_SUPPORTED"
  ELSE IF ~task.supported THEN "MEDIA_CODEC_UNSUPPORTED"
  ELSE "none"

\* Mutant: the handler's buffer holds more of a source than the registry's.
OpenNameUncut(task) == MediaName(task.kind, task.source)

OpenName(task) == MediaName(task.kind, CutSource[task.source])

RefuseOpen ==
  /\ NextTask("open")
  /\ Refusal(Head(tasks)) # "none"
  /\ Answer("open", Head(tasks).kind, 0, 0, Refusal(Head(tasks)))
  /\ UNCHANGED <<registryVars, options, nextId, kindChunks, asked, taken, session, told>>

\* Mutant: the counter stays where it is.
TakeIdAgain(kind) ==
  /\ taken' = [taken EXCEPT ![kind] = @ + 1]
  /\ UNCHANGED nextId

\* The id is consumed whether or not the registry then accepts it.
TakeId(kind) ==
  /\ nextId' = [nextId EXCEPT ![kind] = (@ + 1) % IdLimit]
  /\ taken' = [taken EXCEPT ![kind] = @ + 1]

AcceptOpen ==
  /\ NextTask("open")
  /\ Refusal(Head(tasks)) = "none"
  /\ LET kind   == Head(tasks).kind
         id     == nextId[kind]
         status == RegisterStatus(id, OpenName(Head(tasks)), TRUE)
         latest == session[id] + 1
     IN  /\ TakeId(kind)
         /\ Register(id, OpenName(Head(tasks)), TRUE)
         /\ session' = IF status = "SUCCESS" THEN [session EXCEPT ![id] = latest] ELSE session
         /\ Answer("open", kind, id, latest, status)
  /\ UNCHANGED <<options, kindChunks, asked, told>>

\* The streams that a close request may close: those of its own kind.
ClosesOf(task) ==
  {i \in 1..Slots : IsContextOf(i, task.id) /\ streams[i].name.kind = task.kind}

\* Mutant: a stream of the other kind counts as closed.
CloseStatusAnyKind(task) == IF task.id = 0 THEN "RPC_PARAM_MISSING" ELSE "SUCCESS"

\* close_stream when it closes nothing: an id that is not open counts as
\* closed already.
CloseStatus(task) ==
  IF task.id = 0 THEN "RPC_PARAM_MISSING"
  ELSE IF HasStream(task.id) THEN "STREAM_NOT_FOUND" ELSE "SUCCESS"

CloseNothing ==
  /\ NextTask("close")
  /\ ClosesOf(Head(tasks)) = {}
  /\ Answer("close", Head(tasks).kind, Head(tasks).id, 0, CloseStatus(Head(tasks)))
  /\ UNCHANGED <<registryVars, options, nextId, kindChunks, asked, taken, session, told>>

CloseOpen ==
  /\ NextTask("close")
  /\ ClosesOf(Head(tasks)) # {}
  /\ BeginClose(Head(tasks).id)
  /\ UNCHANGED <<options, nextId, kindChunks, results, asked, taken, session, told>>

\* The sink's on_stream_closed returns, and then the handler.
FinishClose ==
  /\ EndClose
  /\ LET closed == streams[Last(closing).slot]
     IN  Answer("close", closed.name.kind, Last(closing).id, 0, "SUCCESS")
  /\ UNCHANGED <<options, nextId, kindChunks, tasks, asked, taken, session, told>>

\* stream_chunk counts the chunk for the kind of the stream that has the id.
DeliverChunk ==
  /\ NextTask("chunk")
  /\ Handle(Head(tasks).id, Head(tasks).seq)
  /\ kindChunks' =
       [k \in Kinds |->
          IF \E i \in 1..Slots : IsContextOf(i, Head(tasks).id) /\ streams[i].name.kind = k
            THEN kindChunks[k] + 1 ELSE kindChunks[k]]
  /\ UNCHANGED <<options, nextId, results, asked, taken, session, told>>

Next ==
  \/ \E request \in OpenRequests : AskOpen(request)
  \/ \E request \in CloseRequests : AskClose(request)
  \/ \E stream \in told, seq \in SeqIds : SendChunk(stream, seq)
  \/ TakeAnswer
  \/ RefuseOpen
  \/ AcceptOpen
  \/ CloseNothing
  \/ CloseOpen
  \/ FinishClose
  \/ DeliverChunk

Spec == Init /\ [][Next]_vars

-----------------------------------------------------------------------------

\* At most one stream is open per kind and source, also for sources that
\* differ only beyond what the buffers keep (media_profile.c:205, 195 and
\* stream.c:80, 117).
OneStreamPerSource ==
  \A i, j \in 1..Slots :
    streams[i] # Free /\ streams[j] # Free /\ streams[i].name = streams[j].name => i = j

\* Neither counter has run into the other's range or wrapped.  Nothing in
\* media_profile.c:219 keeps them apart: after 0x1000 video streams, the refused
\* ones included, ids are shared, chunks are counted for a stream of the other
\* kind, and free sources are refused.
Apart ==
  /\ VideoBase + taken["video"] <= AudioBase
  /\ AudioBase + taken["audio"] <= IdLimit

\* While the ranges are apart, a chunk is counted only for the stream it was
\* sent to: the latest with its id and of its kind.  A chunk that comes late,
\* behind a close, finds no stream at all (media_profile.c:219, 245, 282 and
\* the broker's first-in, first-out queue).
ChunksReachTheirStream ==
  [][ \A k \in Kinds :
        Apart /\ kindChunks'[k] > kindChunks[k] =>
          Head(tasks).kind = k /\ Head(tasks).session = session[Head(tasks).id] ]_vars

\* While the ranges are apart, an open request is refused as already open only
\* when its source is: the ids that the host picks are never in use.
OnlyBusySourcesRefused ==
  [][ AcceptOpen /\ Apart' =>
        \/ RegisterStatus(nextId[Head(tasks).kind], OpenName(Head(tasks)), TRUE)
             # "STREAM_ALREADY_OPEN"
        \/ HasOpenStream(OpenName(Head(tasks))) ]_vars

\* When a close is answered with success, no stream of that id and kind is open
\* any more, also when the answer says that it was closed already.
ClosedWhenToldSo ==
  [][ \A n \in DOMAIN results' :
        n > Len(results) /\ results'[n].type = "close" /\ results'[n].status = "SUCCESS" =>
          results'[n].id \notin OpenIds' ]_vars

=============================================================================
