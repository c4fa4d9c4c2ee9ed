------------------------------ MODULE AxtpCore -------------------------------
(***************************************************************************)
(* The protocol core of an endpoint (src/core.c): the queue of inbound     *)
(* requests, the store of inbound responses, the table of request ids      *)
(* that await a response, and the queue of encoded frames that await the   *)
(* transport.                                                              *)
(*                                                                         *)
(* Each function of the code is an operator over the primed variables it   *)
(* assigns; a function that can refuse has a state function <Name>Status   *)
(* with the status it returns.  The endpoint conjoins these operators into *)
(* its actions: nothing else calls the core.                               *)
(***************************************************************************)
EXTENDS AxtpModel, SequencesExt

CONSTANT MaxMessageId   \* the largest message id, 2^16 - 1 in the code

ASSUME MaxMessageIdAssumption == MaxMessageId \in Nat \ {0}

VARIABLES
  events,         \* inbound requests, oldest first
  responses,      \* inbound responses not yet taken
  pending,        \* request ids that await a response
  outbound,       \* frames that await the transport, oldest first
  nextMessageId

coreVars == <<events, responses, pending, outbound, nextMessageId>>

Frame == [rpc : Rpc, messageId : 1..MaxMessageId]

CoreTypeOK ==
  /\ events \in Queue(Rpc)
  /\ responses \in Queue(Rpc)
  /\ pending \in Queue(RequestIds)
  /\ outbound \in Queue(Frame)
  /\ nextMessageId \in 1..MaxMessageId

CoreInit ==
  /\ events = <<>>
  /\ responses = <<>>
  /\ pending = <<>>
  /\ outbound = <<>>
  /\ nextMessageId = 1

-----------------------------------------------------------------------------
(* Inbound: axtp_core_on_bytes on a frame that decodes to an RPC payload.  *)
(* Frames that do not decode, and frames of another payload type, leave    *)
(* the core as it is: they are stuttering steps.                           *)

OnRequest(rpc) ==
  /\ rpc.op = "REQUEST"
  /\ events' = IF IsFull(events) THEN events ELSE Append(events, rpc)
  /\ UNCHANGED <<responses, pending>>

\* Mutant: the id is looked up before the store is found full.
OnResponseClearsFirst(rpc) ==
  /\ rpc.op = "REQUEST_RESPONSE"
  /\ pending' = RemoveFirst(pending, rpc.id)
  /\ responses' = IF IsFull(responses) THEN responses ELSE Append(responses, rpc)
  /\ UNCHANGED events

\* A full store refuses the response before its id is looked up, so the id
\* stays pending; a response that nobody awaits is stored all the same.
OnResponse(rpc) ==
  /\ rpc.op = "REQUEST_RESPONSE"
  /\ IF IsFull(responses)
       THEN UNCHANGED <<responses, pending>>
       ELSE /\ responses' = Append(responses, rpc)
            /\ pending' = RemoveFirst(pending, rpc.id)
  /\ UNCHANGED events

CoreOnBytes(rpc) ==
  /\ \/ OnRequest(rpc)
     \/ OnResponse(rpc)
     \/ rpc.op = "OTHER" /\ UNCHANGED <<events, responses, pending>>
  /\ UNCHANGED <<outbound, nextMessageId>>

PollEvent ==
  /\ events # <<>>
  /\ events' = Tail(events)
  /\ UNCHANGED <<responses, pending, outbound, nextMessageId>>

-----------------------------------------------------------------------------
(* Outbound.                                                               *)

ExpectStatus == IF IsFull(pending) THEN "QUEUE_FULL" ELSE "OK"

ExpectRpcResponse(id) ==
  pending' = IF ExpectStatus = "OK" THEN Append(pending, id) ELSE pending

SendRpcStatus(rpc) ==
  IF rpc.body = "oversize" THEN "INVALID_ARGUMENT"
  ELSE IF IsFull(outbound) THEN "QUEUE_FULL" ELSE "OK"

\* A message id is consumed even when the frame is then refused.
SendRpc(rpc) ==
  /\ nextMessageId' = (nextMessageId % MaxMessageId) + 1
  /\ outbound' = IF SendRpcStatus(rpc) = "OK"
                   THEN Append(outbound, [rpc |-> rpc, messageId |-> nextMessageId])
                   ELSE outbound

PopOutbound ==
  /\ outbound # <<>>
  /\ outbound' = Tail(outbound)
  /\ UNCHANGED <<events, responses, pending, nextMessageId>>

-----------------------------------------------------------------------------
(* axtp_core_try_take_rpc_response: the oldest response with that id.  It  *)
(* leaves the pending table alone.                                         *)

TryTakeRpcResponse(id) ==
  \E i \in DOMAIN responses :
    /\ responses[i].id = id
    /\ \A j \in 1..(i - 1) : responses[j].id # id
    /\ responses' = RemoveAt(responses, i)
    /\ UNCHANGED <<events, pending, outbound, nextMessageId>>

=============================================================================
