----------------------------- MODULE AxtpBroker ------------------------------
(***************************************************************************)
(* The broker (src/broker.c): the queue of tasks, the table of method      *)
(* handlers and the queue of results.                                      *)
(*                                                                         *)
(* axtp_broker_poll calls out to handlers, and a handler may call back     *)
(* into the runtime before it returns.  One turn of the poll loop is       *)
(* therefore BeginTask, which pops the task and finds its handler, and     *)
(* EndTask, which takes what the handler returned and pushes the result;   *)
(* a task that calls nobody is over in BeginTask.                          *)
(***************************************************************************)
EXTENDS AxtpModel, SequencesExt

CONSTANTS
  Registry,         \* the method ids of the generated registry
  HandlerCapacity,  \* entries of the handler table, 32 in the code
  RawStatuses,      \* the status codes that raw handlers store in a response
  PollBatch         \* max_tasks of a poll, 8 in the SDK

ASSUME BrokerAssumption ==
  /\ Registry \subseteq Methods
  /\ HandlerCapacity \in Nat \ {0}
  /\ RawStatuses \subseteq StatusCodes
  /\ PollBatch \in Nat \ {0}

VARIABLES
  tasks,          \* tasks not yet run, oldest first
  current,        \* the task whose handler is being called, or NoTask
  results,        \* responses not yet polled, oldest first
  handlers,       \* the handler table
  streamHandler,  \* TRUE once a stream handler is registered
  budget          \* tasks that the poll in progress may still run

brokerVars == <<tasks, current, results, handlers, streamHandler, budget>>

\* What the queue holds, what the handler table holds, and whom a poll calls.
\* A task of stream data carries no RPC payload.
StreamTask == [type |-> "STREAM_DATA", rpc |-> ZeroRpc]
NoTask == [type |-> "NONE", rpc |-> ZeroRpc]
RpcTask(rpc) == [type |-> "RPC", rpc |-> rpc]

Task == [type : {"RPC"}, rpc : Rpc] \cup {StreamTask}
Entry == [method : Methods, type : {"RAW", "JSON"}]
Call == [type : {"RAW", "JSON"}, rpc : Rpc] \cup {StreamTask, NoTask}

BrokerTypeOK ==
  /\ tasks \in Queue(Task)
  /\ current \in Call
  /\ results \in Queue(Rpc)
  /\ handlers \in Seq(Entry) /\ Len(handlers) <= HandlerCapacity
  /\ streamHandler \in BOOLEAN
  /\ budget \in 0..PollBatch

BrokerInit ==
  /\ tasks = <<>>
  /\ current = NoTask
  /\ results = <<>>
  /\ handlers = <<>>
  /\ streamHandler = FALSE
  /\ budget = 0

-----------------------------------------------------------------------------
(* Registration.                                                           *)

\* find_handler: the first entry for the method.
IsEntryFor(i, method) ==
  /\ i \in DOMAIN handlers
  /\ handlers[i].method = method
  /\ \A j \in 1..(i - 1) : handlers[j].method # method

HasHandler(method) == \E i \in DOMAIN handlers : handlers[i].method = method

\* Mutants: registration never looks for an entry of the method; a full
\* table gives up its last entry.
RegisterAppends(entry) ==
  /\ handlers' = IF Len(handlers) >= HandlerCapacity
                   THEN handlers ELSE Append(handlers, entry)
  /\ UNCHANGED <<tasks, current, results, streamHandler, budget>>

RegisterEvicts(entry) ==
  /\ handlers' = IF Len(handlers) >= HandlerCapacity
                   THEN [handlers EXCEPT ![HandlerCapacity] = entry]
                   ELSE Append(SelectSeq(handlers, LAMBDA e : e.method # entry.method), entry)
  /\ UNCHANGED <<tasks, current, results, streamHandler, budget>>

\* A method that has an entry is rebound in place, also when the table is
\* full; axtp_broker_register_raw_method and _json_method.
RegisterMethod(entry) ==
  /\ \/ \E i \in DOMAIN handlers :
          /\ IsEntryFor(i, entry.method)
          /\ handlers' = [handlers EXCEPT ![i] = entry]
     \/ /\ ~HasHandler(entry.method)
        /\ handlers' = IF Len(handlers) >= HandlerCapacity
                         THEN handlers ELSE Append(handlers, entry)
  /\ UNCHANGED <<tasks, current, results, streamHandler, budget>>

RegisterStreamHandler ==
  /\ streamHandler' = TRUE
  /\ UNCHANGED <<tasks, current, results, handlers, budget>>

-----------------------------------------------------------------------------
(* axtp_broker_submit and axtp_broker_submit_stream.                       *)

\* Mutant: a task is submitted without a test for room.
SubmitUnchecked == "OK"

SubmitStatus == IF IsFull(tasks) THEN "QUEUE_FULL" ELSE "OK"

Submit(task) ==
  /\ tasks' = IF SubmitStatus = "OK" THEN Append(tasks, task) ELSE tasks
  /\ UNCHANGED <<current, results, handlers, streamHandler, budget>>

SubmitStream == Submit(StreamTask)

-----------------------------------------------------------------------------
(* axtp_broker_poll.                                                       *)

BeginPoll ==
  /\ budget' = PollBatch
  /\ UNCHANGED <<tasks, current, results, handlers, streamHandler>>

\* Mutant: a result is pushed without a test for room.
PushUnchecked(rpc) == results' = Append(results, rpc)

\* The poll ignores the status of push_result: a result that finds the
\* queue full is gone.
PushResult(rpc) == results' = IF IsFull(results) THEN results ELSE Append(results, rpc)

TurnBegins == current = NoTask /\ budget > 0 /\ tasks # <<>>

BeginStream(task) ==
  /\ task.type = "STREAM_DATA"
  /\ current' = IF streamHandler THEN task ELSE NoTask
  /\ UNCHANGED results

BeginHandled(task) ==
  /\ task.type = "RPC"
  /\ \E i \in DOMAIN handlers :
       /\ IsEntryFor(i, task.rpc.method)
       /\ current' = [type |-> handlers[i].type, rpc |-> task.rpc]
  /\ UNCHANGED results

AnswerUnhandled(task) ==
  /\ task.type = "RPC"
  /\ ~HasHandler(task.rpc.method)
  /\ PushResult(Response(task.rpc,
                         IF task.rpc.method \in Registry
                           THEN "NOT_SUPPORTED" ELSE "RPC_METHOD_NOT_FOUND",
                         "fits"))
  /\ UNCHANGED current

\* Mutant: a turn does not count against max_tasks.
BeginTaskUncounted ==
  /\ TurnBegins
  /\ tasks' = Tail(tasks)
  /\ \/ BeginStream(Head(tasks))
     \/ BeginHandled(Head(tasks))
     \/ AnswerUnhandled(Head(tasks))
  /\ UNCHANGED <<handlers, streamHandler, budget>>

BeginTask ==
  /\ TurnBegins
  /\ tasks' = Tail(tasks)
  /\ budget' = budget - 1
  /\ \/ BeginStream(Head(tasks))
     \/ BeginHandled(Head(tasks))
     \/ AnswerUnhandled(Head(tasks))
  /\ UNCHANGED <<handlers, streamHandler>>

\* A raw handler fills the response itself, and a failure only overwrites
\* the status; a JSON handler answers within a 4096-byte buffer.
Answers(call) ==
  IF call.type = "RAW"
    THEN {Response(call.rpc, s, b) :
            s \in RawStatuses \cup {"RPC_EXECUTION_FAILED"}, b \in Bodies}
    ELSE {Response(call.rpc, s, "fits") : s \in {"SUCCESS", "RPC_EXECUTION_FAILED"}}

EndTask ==
  /\ current # NoTask
  /\ current' = NoTask
  /\ \/ current.type = "STREAM_DATA" /\ UNCHANGED results
     \/ /\ current.type # "STREAM_DATA"
        /\ \E answer \in Answers(current) : PushResult(answer)
  /\ UNCHANGED <<tasks, handlers, streamHandler, budget>>

PollOver == current = NoTask /\ (budget = 0 \/ tasks = <<>>)

EndPoll ==
  /\ PollOver
  /\ budget' = 0
  /\ UNCHANGED <<tasks, current, results, handlers, streamHandler>>

\* axtp_broker_poll_result.
PollResult ==
  /\ results # <<>>
  /\ results' = Tail(results)
  /\ UNCHANGED <<tasks, current, handlers, streamHandler, budget>>

-----------------------------------------------------------------------------
(* The broker alone: a caller that polls, and an application that submits, *)
(* registers and polls results between calls and from within handlers.     *)

ApplicationRuns == budget = 0 \/ current # NoTask

\* The ticket of a task records whether its method had a handler when the
\* task was submitted.
Handled(method) == IF HasHandler(method) THEN 1 ELSE 0

BrokerNext ==
  \/ \E e \in Entry : ApplicationRuns /\ RegisterMethod(e)
  \/ ApplicationRuns /\ RegisterStreamHandler
  \/ \E id \in RequestIds, m \in Methods :
       ApplicationRuns /\ Submit(RpcTask(Request(id, m, "fits", Handled(m))))
  \/ ApplicationRuns /\ SubmitStream
  \/ budget = 0 /\ current = NoTask /\ BeginPoll
  \/ BeginTask
  \/ EndTask
  \/ budget > 0 /\ EndPoll
  \/ ApplicationRuns /\ PollResult

BrokerSpec == BrokerInit /\ [][BrokerNext]_brokerVars

\* One entry per method, after any registrations (broker.c:74-110): the
\* first entry that find_handler meets is the one that was bound last.
HandlersUnique ==
  \A i, j \in DOMAIN handlers : handlers[i].method = handlers[j].method => i = j

\* A method that is served stays served: a task that was submitted when its
\* method had a handler is never answered NOT_SUPPORTED or METHOD_NOT_FOUND,
\* whatever is registered, submitted and run until its turn (broker.c:180-184).
ServedMeansAnswered ==
  \A i \in DOMAIN results :
    results[i].ticket = 1 =>
      results[i].status \in RawStatuses \cup {"SUCCESS", "RPC_EXECUTION_FAILED"}

=============================================================================
