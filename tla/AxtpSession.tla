----------------------------- MODULE AxtpSession ------------------------------
(***************************************************************************)
(* A client and a server of the SDK (src/sdk.c) over two transports that   *)
(* queue what they are given, as the mock transport does                   *)
(* (src/testing_mock_transport.c), and the bridge between them.            *)
(*                                                                         *)
(* The client is its core (AxtpCore): its endpoint never has events, tasks *)
(* or results, so a send and a poll of the client only flush, and neither  *)
(* the flush nor send_bytes calls back.  The server is what AxtpEndpoint   *)
(* is proved to implement (OrderedAnswers): it takes a request in or turns *)
(* it away, and answers in order or drops.  The bridge belongs to the      *)
(* user; this one keeps the order, and may lose frames, repeat them and    *)
(* deliver several in one call of the sink.                                *)
(* A ticket numbers the sends of the client.                               *)
(***************************************************************************)
EXTENDS AxtpCore

CONSTANTS
  MaxRequestId,  \* 2^32 - 1
  MaxSends,      \* bound on the requests that the client sends
  MaxCopies      \* bound on the frames that the bridge repeats

ASSUME SessionAssumption ==
  /\ MaxRequestId \in Nat \ {0}
  /\ RequestIds = 1..MaxRequestId
  /\ MaxSends \in Nat /\ MaxCopies \in Nat

VARIABLES
  nextRequestId,
  hasTransport, \* whether the client has its transport
  toServer,   \* frames in the client's transport, oldest first
  serving,    \* requests that the server has taken in
  toClient,   \* frames in the server's transport, oldest first
  sent,       \* history: the number of sends so far
  copies,     \* history: the number of frames repeated so far
  lost,       \* history: the requests and responses lost so far, by id
  lastTicket, \* history: the last send with an id, 0 at first
  reused      \* history: ids that were in use yet when they were last given

histories == <<lastTicket, reused>>
sessionVars == <<nextRequestId, hasTransport, toServer, serving, toClient, sent, copies,
                 lost, histories>>
vars == <<coreVars, sessionVars>>

\* The values that the variables range over.
TypeOK ==
  /\ CoreTypeOK
  /\ nextRequestId \in RequestIds /\ hasTransport \in BOOLEAN
  /\ toServer \in Queue(Rpc) /\ toClient \in Queue(Rpc)
  /\ serving \in Seq(Rpc)
  /\ sent \in Nat /\ copies \in Nat
  /\ lost \in [RequestIds -> Nat] /\ lastTicket \in [RequestIds -> Nat]
  /\ reused \subseteq RequestIds

Init ==
  /\ CoreInit
  /\ nextRequestId = 1
  /\ hasTransport = FALSE
  /\ toServer = <<>>
  /\ serving = <<>>
  /\ toClient = <<>>
  /\ sent = 0
  /\ copies = 0
  /\ lost = [id \in RequestIds |-> 0]
  /\ lastTicket = [id \in RequestIds |-> 0]
  /\ reused = {}

Payloads(frames) == [i \in DOMAIN frames |-> frames[i].rpc]

Occurrences(id, rpcs) == Cardinality({i \in DOMAIN rpcs : rpcs[i].id = id})

LoseAll(rpcs) == lost' = [id \in RequestIds |-> lost[id] + Occurrences(id, rpcs)]

Lose(rpc) == LoseAll(<<rpc>>)

-----------------------------------------------------------------------------
(* The client.                                                             *)

NextRequestId(id) == IF id = MaxRequestId THEN 1 ELSE id + 1

\* axtp_client_attach_transport.  Nothing is flushed before the next call.
Attach ==
  /\ hasTransport' = TRUE
  /\ UNCHANGED <<coreVars, nextRequestId, toServer, serving, toClient, sent,
                 copies, lost, histories>>

\* flush_outbound: frames wait for a transport; the first frame that the
\* transport refuses is lost, and those behind it wait.  A full transport
\* refuses, and any may.
Flush(frames) ==
  \/ /\ ~hasTransport
     /\ outbound' = frames
     /\ UNCHANGED <<toServer, lost>>
  \/ /\ hasTransport
     /\ Len(toServer) + Len(frames) <= QueueCapacity
     /\ toServer' = toServer \o Payloads(frames)
     /\ outbound' = <<>>
     /\ UNCHANGED lost
  \/ \E taken \in 0..(Len(frames) - 1) :
       /\ hasTransport
       /\ Len(toServer) + taken <= QueueCapacity
       /\ toServer' = toServer \o Payloads(SubSeq(frames, 1, taken))
       /\ outbound' = SubSeq(frames, taken + 2, Len(frames))
       /\ Lose(frames[taken + 1].rpc)

\* Something with the id is under way to the server or back, or untaken.
InUse(id) ==
  \E rpcs \in {Payloads(outbound), toServer, serving, toClient, responses} :
    \E i \in DOMAIN rpcs : rpcs[i].id = id

SendBegins(method, body) ==
  /\ sent < MaxSends
  /\ sent' = sent + 1
  /\ lastTicket' = [lastTicket EXCEPT ![nextRequestId] = sent + 1]
  /\ reused' = IF InUse(nextRequestId) THEN reused \cup {nextRequestId}
                                       ELSE reused \ {nextRequestId}

\* axtp_endpoint_send_rpc_request: expected, encoded, flushed.  An id that is
\* expected stays so when the request is then refused.
SendRequest(rpc) ==
  LET status == IF ExpectStatus = "OK" THEN SendRpcStatus(rpc) ELSE ExpectStatus
  IN  /\ ExpectRpcResponse(rpc.id)
      /\ IF ExpectStatus = "OK"
           THEN nextMessageId' = (nextMessageId % MaxMessageId) + 1
           ELSE UNCHANGED nextMessageId
      /\ \/ /\ status = "OK"
            /\ Flush(Append(outbound, [rpc |-> rpc, messageId |-> nextMessageId]))
         \/ /\ status # "OK"
            /\ IF ExpectStatus = "OK" THEN Lose(rpc) ELSE UNCHANGED lost
            /\ UNCHANGED <<toServer, outbound>>
      /\ UNCHANGED <<events, responses, hasTransport, serving, toClient, copies>>

\* Mutant: the id of a send that has failed is given again.
SendJsonAgain(method, body) ==
  /\ SendBegins(method, body)
  /\ SendRequest(Request(nextRequestId, method, body, sent + 1))
  /\ nextRequestId' = IF lost' = lost THEN NextRequestId(nextRequestId)
                                      ELSE nextRequestId

\* axtp_client_send_json.  The id is used up whatever becomes of the request.
SendJson(method, body) ==
  /\ SendBegins(method, body)
  /\ SendRequest(Request(nextRequestId, method, body, sent + 1))
  /\ nextRequestId' = NextRequestId(nextRequestId)

\* axtp_client_poll.
ClientPoll ==
  /\ Flush(outbound)
  /\ UNCHANGED <<events, responses, pending, nextMessageId,
                 nextRequestId, hasTransport, serving, toClient, sent, copies,
                 histories>>

\* axtp_client_try_take_json_response.
TakeJson(id) ==
  /\ TryTakeRpcResponse(id)
  /\ UNCHANGED sessionVars

-----------------------------------------------------------------------------
(* The bridge: axtp_mock_transport_try_pop_outgoing on one side, and       *)
(* axtp_mock_transport_inject_incoming on the other.                       *)

\* A frame leaves its queue, unless the bridge delivers it once more.
Pop(queue) ==
  \/ queue' = Tail(queue) /\ UNCHANGED copies
  \/ UNCHANGED queue /\ copies < MaxCopies /\ copies' = copies + 1

CarryRequest ==
  /\ toServer # <<>>
  /\ Pop(toServer)
  /\ \/ serving' = Append(serving, Head(toServer)) /\ UNCHANGED lost
     \/ UNCHANGED serving /\ Lose(Head(toServer))
  /\ UNCHANGED <<coreVars, nextRequestId, hasTransport, toClient, sent, histories>>

CarryResponse ==
  /\ toClient # <<>>
  /\ Pop(toClient)
  /\ CoreOnBytes(Head(toClient))
  /\ IF IsFull(responses) THEN Lose(Head(toClient)) ELSE UNCHANGED lost
  /\ UNCHANGED <<nextRequestId, hasTransport, toServer, serving, sent, histories>>

\* A stream of bytes has no borders: several frames may come in one call of
\* the sink, which decodes the first (FrameCodec) and drops the rest.
CarryRequestsTogether(n) ==
  /\ n \in 2..Len(toServer)
  /\ toServer' = SubSeq(toServer, n + 1, Len(toServer))
  /\ serving' = Append(serving, Head(toServer))
  /\ LoseAll(SubSeq(toServer, 2, n))
  /\ UNCHANGED <<coreVars, nextRequestId, hasTransport, toClient, sent, copies, histories>>

CarryResponsesTogether(n) ==
  /\ n \in 2..Len(toClient)
  /\ toClient' = SubSeq(toClient, n + 1, Len(toClient))
  /\ CoreOnBytes(Head(toClient))
  /\ LoseAll(IF IsFull(responses) THEN SubSeq(toClient, 1, n) ELSE SubSeq(toClient, 2, n))
  /\ UNCHANGED <<nextRequestId, hasTransport, toServer, serving, sent, copies, histories>>

LoseResponse ==
  /\ toClient # <<>>
  /\ toClient' = Tail(toClient)
  /\ Lose(Head(toClient))
  /\ UNCHANGED <<coreVars, nextRequestId, hasTransport, toServer, serving,
                 sent, copies, histories>>

-----------------------------------------------------------------------------
(* The server, as OrderedAnswers describes it.                             *)

ServerAnswers(status) ==
  /\ serving # <<>>
  /\ serving' = Tail(serving)
  /\ IF IsFull(toClient)
       THEN Lose(Head(serving)) /\ UNCHANGED toClient
       ELSE /\ toClient' = Append(toClient, Response(Head(serving), status, "fits"))
            /\ UNCHANGED lost
  /\ UNCHANGED <<coreVars, nextRequestId, hasTransport, toServer, sent, copies,
                 histories>>

ServerDrops ==
  \E i \in DOMAIN serving :
    /\ serving' = RemoveAt(serving, i)
    /\ Lose(serving[i])
    /\ UNCHANGED <<coreVars, nextRequestId, hasTransport, toServer, toClient,
                   sent, copies, histories>>

-----------------------------------------------------------------------------

Next ==
  \/ \E m \in Methods, b \in Bodies : SendJson(m, b)
  \/ Attach
  \/ ClientPoll
  \/ \E id \in RequestIds : TakeJson(id)
  \/ CarryRequest
  \/ CarryResponse
  \/ \E n \in 2..QueueCapacity : CarryRequestsTogether(n) \/ CarryResponsesTogether(n)
  \/ LoseResponse
  \/ \E s \in StatusCodes : ServerAnswers(s)
  \/ ServerDrops

Spec == Init /\ [][Next]_vars

-----------------------------------------------------------------------------

\* The requests with an id that are under way to the server or back.
UnderWay(id) ==
  Occurrences(id, Payloads(outbound)) + Occurrences(id, toServer)
    + Occurrences(id, serving) + Occurrences(id, toClient)

Pending(id) == Cardinality({i \in DOMAIN pending : pending[i] = id})

\* The pending table accounts for every send: an entry is there because its
\* request or response is under way or was lost, and, unless frames are
\* repeated, as long as that is so.  There is no timeout, so what is lost on
\* the way (endpoint.c:33, 132, core.c:121) is an entry that stays.
PendingAccountsForSends ==
  \A id \in RequestIds :
    /\ Pending(id) <= UnderWay(id) + lost[id]
    /\ copies = 0 => Pending(id) = UnderWay(id) + lost[id]

\* A response that waits to be taken answers the last send with its id
\* (sdk.c:69-72), also when sends have failed in between whose frames went out
\* later, and when frames are repeated.  An older one may stand in for it only
\* when its id came round while it was in use, and is a whole round older.
AnswersAreOwn ==
  \A i \in DOMAIN responses :
    LET id == responses[i].id
        ticket == responses[i].ticket
    IN  ticket # lastTicket[id] =>
          id \in reused /\ ticket + MaxRequestId <= lastTicket[id]

=============================================================================
