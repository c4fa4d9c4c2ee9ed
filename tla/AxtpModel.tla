------------------------------ MODULE AxtpModel ------------------------------
(***************************************************************************)
(* The data that the components of the runtime exchange: RPC payloads      *)
(* (include/axtp/model.h, axtp_rpc_payload_t), the codes they carry and    *)
(* the capacity that every bounded queue of the runtime shares.            *)
(*                                                                         *)
(* A payload keeps the fields that decide where it goes.  Its body is      *)
(* reduced to the one fact a step depends on: whether the encoded payload  *)
(* fits the 16-bit length of a frame.  The field ticket is a history       *)
(* field: the arrival number of the inbound request that the payload       *)
(* stems from, and 0 for a payload that stems from none.                   *)
(***************************************************************************)
EXTENDS Naturals, Sequences

CONSTANTS
  QueueCapacity,  \* AXTP_QUEUE_CAPACITY
  RequestIds,     \* the request ids in use (uint32_t in the code)
  Methods         \* the method ids in use (uint16_t in the code)

ASSUME QueueCapacityAssumption == QueueCapacity \in Nat \ {0}
ASSUME IdsAssumption == RequestIds \subseteq Nat /\ Methods \subseteq Nat

\* OTHER stands for every operation the core ignores (HELLO, SUBSCRIBE, EVENT, ...).
Ops == {"NONE", "REQUEST", "REQUEST_RESPONSE", "OTHER"}

StatusCodes ==
  {"SUCCESS", "NOT_SUPPORTED", "RPC_METHOD_NOT_FOUND", "RPC_EXECUTION_FAILED"}

Bodies == {"fits", "oversize"}

Rpc == [op     : Ops,
        id     : RequestIds \cup {0},
        method : Methods \cup {0},
        status : StatusCodes,
        body   : Bodies,
        ticket : Nat]

\* The payload of a zeroed structure (memset in axtp_broker_submit).
ZeroRpc == [op |-> "NONE", id |-> 0, method |-> 0, status |-> "SUCCESS",
            body |-> "fits", ticket |-> 0]

\* A payload as its sender fills it in; axtp_rpc_payload_init clears the rest.
Request(id, method, body, ticket) ==
  [ZeroRpc EXCEPT !.op = "REQUEST", !.id = id, !.method = method,
                  !.body = body, !.ticket = ticket]

Response(request, status, body) ==
  [request EXCEPT !.op = "REQUEST_RESPONSE", !.status = status, !.body = body]

\* The bounded arrays of the code: a sequence and its count.
Queue(S) == {s \in Seq(S) : Len(s) <= QueueCapacity}

\* Mutant: the capacity test is off by one.
IsFullOneEarly(s) == Len(s) + 1 >= QueueCapacity

IsFull(s) == Len(s) >= QueueCapacity

=============================================================================
