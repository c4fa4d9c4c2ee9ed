---------------------------- MODULE AxtpEndpoint -----------------------------
(***************************************************************************)
(* An endpoint (src/endpoint.c): the core and the broker, joined by        *)
(* axtp_endpoint_poll, and the transport they are attached to.             *)
(*                                                                         *)
(* The runtime is single-threaded, but a call of the endpoint is not       *)
(* atomic: it calls handlers and transport.send_bytes, and while either    *)
(* runs, bytes may come in; a handler may also register, submit, take      *)
(* responses and send requests.  Each turn of a loop of the code is one    *)
(* step here, and pc says which loop the call has reached.  Handlers that  *)
(* attach a transport or poll before they return are not modelled.         *)
(***************************************************************************)
EXTENDS AxtpCore, AxtpBroker

CONSTANTS
  OwnIds,       \* the ids of the requests that this endpoint sends
  PeerIds,      \* the ids of the requests that the peer sends
  MaxArrivals   \* bound on the requests that the peer sends

ASSUME EndpointAssumption ==
  /\ OwnIds \subseteq RequestIds
  /\ PeerIds \subseteq RequestIds
  /\ MaxArrivals \in Nat

VARIABLES
  hasTransport,
  pc,         \* the loop that the endpoint call in progress has reached
  resume,     \* where a call goes on when it returns: its handler, or "idle"
  call,       \* the outermost endpoint call in progress, or the last one
  status,     \* what the last endpoint call returned
  arrived,    \* history: the number of inbound requests so far
  lastSent    \* history: ticket of the last response handed to the transport

endpointVars == <<hasTransport, pc, resume, call, status, arrived, lastSent>>
vars == <<coreVars, brokerVars, endpointVars>>

Statuses == {"OK", "QUEUE_FULL", "INVALID_ARGUMENT", "TRANSPORT_FAILED"}

EndpointTypeOK ==
  /\ hasTransport \in BOOLEAN
  /\ pc \in {"idle", "submit", "broker", "results", "flush"}
  /\ resume \in {"idle", "broker"}
  /\ call \in {"none", "attach", "poll", "send"}
  /\ status \in Statuses
  /\ arrived \in Nat
  /\ lastSent \in Nat

\* The values that the variables of an endpoint range over.
TypeOK == CoreTypeOK /\ BrokerTypeOK /\ EndpointTypeOK

Init ==
  /\ CoreInit
  /\ BrokerInit
  /\ hasTransport = FALSE
  /\ pc = "idle"
  /\ resume = "idle"
  /\ call = "none"
  /\ status = "OK"
  /\ arrived = 0
  /\ lastSent = 0

\* The call in progress goes on at l.
GoTo(l) == pc' = l /\ UNCHANGED <<resume, call, status>>

\* The call in progress returns s, to its handler if it has one.
Return(s) == pc' = resume /\ resume' = "idle" /\ status' = s /\ UNCHANGED call

-----------------------------------------------------------------------------
(* The application and the peer.                                           *)

\* A handler runs, or the endpoint is idle.
ApplicationTurn == pc = "idle" \/ (pc = "broker" /\ current # NoTask)

\* Bytes come in between calls, while a handler runs, and while send_bytes
\* runs; on_bytes and the pop before send_bytes touch different queues, so
\* the bytes may be taken to come in just before that pop.
BytesMayArrive == ApplicationTurn \/ (pc = "flush" /\ hasTransport /\ outbound # <<>>)

\* axtp_endpoint_attach_transport: the endpoint counts as attached even when
\* the transport then fails to open.
Attach(s) ==
  /\ pc = "idle"
  /\ hasTransport' = TRUE
  /\ call' = "attach"
  /\ status' = s
  /\ UNCHANGED <<coreVars, brokerVars, pc, resume, arrived, lastSent>>

ReceiveRequest(id, method) ==
  /\ BytesMayArrive
  /\ arrived < MaxArrivals
  /\ arrived' = arrived + 1
  /\ CoreOnBytes(Request(id, method, "fits", arrived + 1))
  /\ UNCHANGED <<brokerVars, hasTransport, pc, resume, call, status, lastSent>>

ReceiveResponse(id, method) ==
  /\ BytesMayArrive
  /\ CoreOnBytes(Response(Request(id, method, "fits", 0), "SUCCESS", "fits"))
  /\ UNCHANGED <<brokerVars, endpointVars>>

TakeResponse(id) ==
  /\ ApplicationTurn
  /\ TryTakeRpcResponse(id)
  /\ UNCHANGED <<brokerVars, endpointVars>>

Configure ==
  /\ ApplicationTurn
  /\ \/ \E e \in Entry : RegisterMethod(e)
     \/ RegisterStreamHandler
  /\ UNCHANGED <<coreVars, endpointVars>>

PushStream ==
  /\ ApplicationTurn
  /\ SubmitStream
  /\ UNCHANGED <<coreVars, endpointVars>>

-----------------------------------------------------------------------------
(* axtp_endpoint_send_rpc_request, between calls or from within a handler. *)
(* The id is registered first, and stays registered when the frame is then *)
(* refused.                                                                *)

SendRequest(id, method, body) ==
  /\ ApplicationTurn
  /\ call' = IF pc = "idle" THEN "send" ELSE call
  /\ ExpectRpcResponse(id)
  /\ IF ExpectStatus = "OK"
       THEN LET sent == SendRpcStatus(Request(id, method, body, 0))
            IN  /\ SendRpc(Request(id, method, body, 0))
                /\ pc' = IF sent = "OK" THEN "flush" ELSE pc
                /\ resume' = IF sent = "OK" THEN pc ELSE resume
                /\ status' = sent
       ELSE /\ status' = ExpectStatus
            /\ UNCHANGED <<outbound, nextMessageId, pc, resume>>
  /\ UNCHANGED <<events, responses, brokerVars, hasTransport, arrived, lastSent>>

-----------------------------------------------------------------------------
(* axtp_endpoint_poll.                                                     *)

StartPoll ==
  /\ pc = "idle"
  /\ pc' = "submit"
  /\ call' = "poll"
  /\ UNCHANGED <<coreVars, brokerVars, hasTransport, resume, status, arrived, lastSent>>

\* Mutant: an event that finds the task queue full goes back to the end of
\* the event queue.
SubmitEventPutsBack ==
  /\ pc = "submit"
  /\ events # <<>>
  /\ Submit(RpcTask(Head(events)))
  /\ events' = IF SubmitStatus = "OK" THEN Tail(events)
                                     ELSE Append(Tail(events), Head(events))
  /\ IF SubmitStatus = "OK" THEN GoTo("submit") ELSE Return(SubmitStatus)
  /\ UNCHANGED <<responses, pending, outbound, nextMessageId,
                 hasTransport, arrived, lastSent>>

\* A task queue that is full ends the poll, and the event is gone.
SubmitEvent ==
  /\ pc = "submit"
  /\ PollEvent
  /\ Submit(RpcTask(Head(events)))
  /\ IF SubmitStatus = "OK" THEN GoTo("submit") ELSE Return(SubmitStatus)
  /\ UNCHANGED <<hasTransport, arrived, lastSent>>

EnterBroker ==
  /\ pc = "submit"
  /\ events = <<>>
  /\ BeginPoll
  /\ GoTo("broker")
  /\ UNCHANGED <<coreVars, hasTransport, arrived, lastSent>>

RunTask ==
  /\ pc = "broker"
  /\ BeginTask \/ EndTask
  /\ UNCHANGED <<coreVars, endpointVars>>

LeaveBroker ==
  /\ pc = "broker"
  /\ EndPoll
  /\ GoTo("results")
  /\ UNCHANGED <<coreVars, hasTransport, arrived, lastSent>>

\* Mutant: a response that is refused stays at the head of the results.
SendResultKeepsRefused ==
  /\ pc = "results"
  /\ results # <<>>
  /\ SendRpc(Head(results))
  /\ LET sent == SendRpcStatus(Head(results))
     IN  IF sent = "OK"
           THEN PollResult /\ GoTo("results")
           ELSE UNCHANGED brokerVars /\ Return(sent)
  /\ UNCHANGED <<events, responses, pending, hasTransport, arrived, lastSent>>

\* A response that is refused ends the poll before it flushes, and the
\* response is gone.
SendResult ==
  /\ pc = "results"
  /\ PollResult
  /\ SendRpc(Head(results))
  /\ LET sent == SendRpcStatus(Head(results))
     IN  IF sent = "OK" THEN GoTo("results") ELSE Return(sent)
  /\ UNCHANGED <<events, responses, pending, hasTransport, arrived, lastSent>>

EnterFlush ==
  /\ pc = "results"
  /\ results = <<>>
  /\ GoTo("flush")
  /\ UNCHANGED <<coreVars, brokerVars, hasTransport, arrived, lastSent>>

-----------------------------------------------------------------------------
(* flush_outbound, for a poll and for a send alike.                        *)

EndFlush ==
  /\ pc = "flush"
  /\ hasTransport => outbound = <<>>
  /\ Return("OK")
  /\ UNCHANGED <<coreVars, brokerVars, hasTransport, arrived, lastSent>>

\* Mutants: a frame that the transport refuses stays queued, though part of
\* it may be out; one frame is flushed per call.
SendFrameAgain(sent) ==
  /\ pc = "flush"
  /\ hasTransport
  /\ outbound # <<>>
  /\ outbound' = IF sent = "OK" THEN Tail(outbound) ELSE outbound
  /\ lastSent' = IF Head(outbound).rpc.ticket > 0
                   THEN Head(outbound).rpc.ticket ELSE lastSent
  /\ IF sent = "OK" THEN GoTo("flush") ELSE Return(sent)
  /\ UNCHANGED <<events, responses, pending, nextMessageId,
                 brokerVars, hasTransport, arrived>>

SendFrameOnce(sent) ==
  /\ pc = "flush"
  /\ hasTransport
  /\ PopOutbound
  /\ lastSent' = IF Head(outbound).rpc.ticket > 0
                   THEN Head(outbound).rpc.ticket ELSE lastSent
  /\ Return(sent)
  /\ UNCHANGED <<brokerVars, hasTransport, arrived>>

\* A frame that the transport refuses is gone, and the rest of the queue
\* waits for the next flush.
SendFrame(sent) ==
  /\ pc = "flush"
  /\ hasTransport
  /\ PopOutbound
  /\ lastSent' = IF Head(outbound).rpc.ticket > 0
                   THEN Head(outbound).rpc.ticket ELSE lastSent
  /\ IF sent = "OK" THEN GoTo("flush") ELSE Return(sent)
  /\ UNCHANGED <<brokerVars, hasTransport, arrived>>

-----------------------------------------------------------------------------

TransportStatuses == {"OK", "TRANSPORT_FAILED"}

PollStep ==
  \/ SubmitEvent
  \/ EnterBroker
  \/ RunTask
  \/ LeaveBroker
  \/ SendResult
  \/ EnterFlush

FlushStep == EndFlush \/ \E s \in TransportStatuses : SendFrame(s)

Next ==
  \/ \E s \in TransportStatuses : Attach(s)
  \/ \E id \in PeerIds, m \in Methods : ReceiveRequest(id, m)
  \/ \E id \in OwnIds, m \in Methods : ReceiveResponse(id, m)
  \/ \E id \in OwnIds : TakeResponse(id)
  \/ Configure
  \/ PushStream
  \/ \E id \in OwnIds, m \in Methods, b \in Bodies : SendRequest(id, m, b)
  \/ StartPoll
  \/ PollStep
  \/ FlushStep

Spec == Init /\ [][Next]_vars

\* The application polls again and again, and a call that has started runs
\* on: handlers and send_bytes return.
FairSpec == Spec /\ WF_vars(StartPoll) /\ WF_vars(PollStep) /\ WF_vars(FlushStep)

-----------------------------------------------------------------------------
(* What the endpoint guarantees.                                           *)

Tickets(s) == {s[i].ticket : i \in DOMAIN s}

\* The payloads of a queue of tasks or of frames.
Payloads(s) == [i \in DOMAIN s |-> s[i].rpc]

\* The inbound requests that are somewhere between arrival and the transport.
InFlight ==
  (Tickets(events) \cup Tickets(Payloads(tasks)) \cup {current.rpc.ticket}
     \cup Tickets(results) \cup Tickets(Payloads(outbound))) \ {0}

Rising(s) ==
  \A i, j \in DOMAIN s : i < j /\ 0 < s[i].ticket /\ 0 < s[j].ticket
                          => s[i].ticket < s[j].ticket

Below(S, T) == \A x \in S, y \in T : 0 < x /\ 0 < y => x < y

\* Requests move through the queues of the endpoint (core.c, broker.c and the
\* loops of axtp_endpoint_poll) without overtaking each other: every queue is
\* in arrival order, and what is nearer the transport arrived earlier, also
\* across the handler call in progress and whatever was lost on the way.
TicketOrder ==
  LET frames == Payloads(outbound)
      queued == Payloads(tasks)
      called == {current.rpc.ticket}
  IN  /\ Rising(frames) /\ Rising(results) /\ Rising(queued) /\ Rising(events)
      /\ Below({lastSent}, InFlight)
      /\ Below(Tickets(frames),
               Tickets(results) \cup called \cup Tickets(queued) \cup Tickets(events))
      /\ Below(Tickets(results), called \cup Tickets(queued) \cup Tickets(events))
      /\ Below(called, Tickets(queued) \cup Tickets(events))
      /\ Below(Tickets(queued), Tickets(events))
      /\ \A t \in InFlight \cup {lastSent} : t <= arrived

\* The abstract service, with InFlight for the requests it holds.
Service == INSTANCE OrderedAnswers WITH inFlight <- InFlight

\* The endpoint implements OrderedAnswers: however the loops of a poll, the
\* handler calls and the refusals of the full queues interleave, a peer sees
\* requests answered in order or dropped, never twice and never from nowhere.
ImplementsOrderedAnswers == Service!AnswersSpec

\* The requests and messages that occupy the queues.
Load == Len(events) + Len(tasks) + (IF current = NoTask THEN 0 ELSE 1)
          + Len(results) + Len(outbound)

Oversize(t) ==
  \E i \in DOMAIN results : results[i].ticket = t /\ results[i].body = "oversize"

LosesOnlyBeyondCapacity ==
  /\ \A t \in InFlight \ InFlight' :
       t = lastSent' \/ Oversize(t) \/ Load > QueueCapacity
  /\ arrived' # arrived /\ arrived' \notin InFlight' => Load >= QueueCapacity

\* A peer that never has more in the queues than one of them holds loses
\* nothing: a request leaves the endpoint without having reached the
\* transport only when its response is oversize, or when Load exceeds the
\* capacity, and one is turned away at the door only when Load has reached it.
\* (The refusals of core.c:111, broker.c:125, broker.c:214 and endpoint.c:117
\* are the ways in which this could fail.)
NoLossWithinCapacity == [][LosesOnlyBeyondCapacity]_vars

\* The call in progress returns, to the application or to its handler.
CallReturns == pc # "idle" /\ (pc' = "idle" \/ (resume = "broker" /\ resume' = "idle"))

\* A poll or a send that returns AXTP_STATUS_OK on an attached endpoint has
\* handed over every frame, and a poll has left no result behind
\* (endpoint.c:106-121), also when handlers send requests and fail to flush
\* them in between: what remains inside are the tasks beyond the batch and
\* what came in meanwhile.
OkMeansFlushed ==
  [][ CallReturns /\ status' = "OK" =>
        /\ call = "poll" /\ pc' = "idle" => results' = <<>> /\ current' = NoTask
        /\ hasTransport => outbound' = <<>> ]_vars

Occurrences(s, x) == Cardinality({i \in DOMAIN s : s[i] = x})

\* An id stops being pending only in the step that makes a response with that
\* id available, one entry per response (core.c:120-129): no refusal, no take
\* and no failing send loses track of a request, and none gets an entry back.
PendingUntilAnswered ==
  [][ \A id \in OwnIds :
        Occurrences(pending', id) < Occurrences(pending, id) =>
          /\ Occurrences(pending', id) = Occurrences(pending, id) - 1
          /\ Len(responses') = Len(responses) + 1
          /\ responses'[Len(responses')].id = id ]_vars

\* Every endpoint call returns (the loops of endpoint.c:23, 84 and 106 and of
\* broker.c:152 end), even when handlers keep submitting and bytes keep coming.
CallsReturn == pc # "idle" ~> pc = "idle"

\* Once a transport is attached, every request that was taken in leaves: its
\* response reaches the transport or is dropped.  Nothing stays in a queue
\* for ever, also after polls that returned early (endpoint.c:98, 117).
RequestsLeave ==
  \A t \in 1..MaxArrivals : (hasTransport /\ t \in InFlight) ~> t \notin InFlight

=============================================================================
