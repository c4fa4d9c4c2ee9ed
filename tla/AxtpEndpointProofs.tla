------------------------- MODULE AxtpEndpointProofs --------------------------
(***************************************************************************)
(* Theorems about AxtpBroker alone, and about AxtpEndpoint over it: for    *)
(* every handler table, registry, batch and capacity, every set of ids and *)
(* methods and every number of arrivals.                                   *)
(***************************************************************************)
EXTENDS AxtpEndpoint, DataProofs

-----------------------------------------------------------------------------
(* Types of the broker.                                                    *)

\* Every task and every call has a payload.
LEMMA TaskPayload ==
  /\ \A x \in Task : x.rpc \in Rpc
  /\ \A x \in Call : x.rpc \in Rpc
<1>1. NoTask.rpc \in Rpc /\ StreamTask.rpc \in Rpc
  BY PayloadTypes DEF NoTask, StreamTask
<1> QED
  BY <1>1 DEF Task, Call

\* Handlers answer with payloads.
LEMMA AnswerTypes ==
  ASSUME NEW c \in Call, NEW answer \in Answers(c)
  PROVE  answer \in Rpc
  BY TaskPayload, PayloadTypes, BrokerAssumption DEF Answers, StatusCodes, Bodies

\* The broker keeps its types when a task is submitted.
LEMMA SubmitType ==
  ASSUME BrokerTypeOK, NEW task \in Task, Submit(task)
  PROVE  BrokerTypeOK'
  BY AppendQueue DEF BrokerTypeOK, Submit, SubmitStatus

\* The result queue keeps its type when a result is pushed.
LEMMA PushResultType ==
  ASSUME BrokerTypeOK, NEW rpc \in Rpc, PushResult(rpc)
  PROVE  results' \in Queue(Rpc)
  BY AppendQueue DEF BrokerTypeOK, PushResult

\* A turn of the poll loop keeps the broker's types.
LEMMA TaskType ==
  ASSUME BrokerTypeOK, BeginTask \/ EndTask
  PROVE  BrokerTypeOK'
<1>1. CASE BeginTask
  <2>1. tasks # <<>> /\ Head(tasks) \in Task /\ tasks' \in Queue(Task)
    BY <1>1, TailQueue DEF BeginTask, TurnBegins, BrokerTypeOK
  <2>2. budget' \in 0..PollBatch
    BY <1>1, BrokerAssumption DEF BeginTask, TurnBegins, BrokerTypeOK
  <2>3. CASE BeginStream(Head(tasks))
    <3>1. NoTask \in Call
      BY PayloadTypes DEF NoTask, StreamTask, Call
    <3>2. Head(tasks) \in Call
      BY <2>1, <2>3 DEF BeginStream, Task, Call
    <3>3. current' = Head(tasks) \/ current' = NoTask
      BY <2>3, Zenon DEF BeginStream
    <3>4. current' \in Call
      BY <3>1, <3>2, <3>3
    <3> QED
      BY <1>1, <2>1, <2>2, <2>3, <3>4 DEF BeginTask, BeginStream, BrokerTypeOK
  <2>4. CASE BeginHandled(Head(tasks))
    <3>1. PICK i \in DOMAIN handlers :
            current' = [type |-> handlers[i].type, rpc |-> Head(tasks).rpc]
      BY <2>4 DEF BeginHandled
    <3>2. handlers[i] \in Entry /\ Head(tasks).rpc \in Rpc
      BY <2>1, TaskPayload DEF BrokerTypeOK
    <3>3. current' \in Call
      BY <3>1, <3>2 DEF Entry, Call
    <3>4. UNCHANGED results
      BY <2>4 DEF BeginHandled
    <3> QED
      BY <1>1, <2>1, <2>2, <3>3, <3>4 DEF BeginTask, BrokerTypeOK
  <2>5. CASE AnswerUnhandled(Head(tasks))
    <3>1. PICK c \in StatusCodes : PushResult(Response(Head(tasks).rpc, c, "fits"))
      BY <2>5 DEF AnswerUnhandled, StatusCodes
    <3>2. results' \in Queue(Rpc)
      BY <2>1, <3>1, TaskPayload, PayloadTypes, PushResultType DEF Bodies
    <3> QED
      BY <1>1, <2>1, <2>2, <2>5, <3>2 DEF BeginTask, AnswerUnhandled, BrokerTypeOK
  <2> QED
    BY <1>1, <2>3, <2>4, <2>5 DEF BeginTask
<1>2. CASE EndTask
  <2>1. NoTask \in Call
    BY PayloadTypes DEF NoTask, StreamTask, Call
  <2>2. CASE UNCHANGED results
    BY <1>2, <2>1, <2>2 DEF EndTask, BrokerTypeOK
  <2>3. CASE \E answer \in Answers(current) : PushResult(answer)
    <3>1. results' \in Queue(Rpc)
      BY <2>3, AnswerTypes, PushResultType DEF BrokerTypeOK
    <3> QED
      BY <1>2, <2>1, <3>1 DEF EndTask, BrokerTypeOK
  <2> QED
    BY <1>2, <2>2, <2>3 DEF EndTask
<1> QED
  BY <1>1, <1>2

\* The handler table keeps its type under every registration.
LEMMA RegisterType ==
  ASSUME BrokerTypeOK, NEW e \in Entry, RegisterMethod(e)
  PROVE  BrokerTypeOK'
<1>1. handlers' \in Seq(Entry) /\ Len(handlers') <= HandlerCapacity
  <2>1. CASE \E i \in DOMAIN handlers : handlers' = [handlers EXCEPT ![i] = e]
    BY <2>1 DEF BrokerTypeOK
  <2>2. CASE handlers' = IF Len(handlers) >= HandlerCapacity
                           THEN handlers ELSE Append(handlers, e)
    BY <2>2, BrokerAssumption DEF BrokerTypeOK
  <2> QED
    BY <2>1, <2>2 DEF RegisterMethod
<1> QED
  BY <1>1 DEF RegisterMethod, BrokerTypeOK

\* Every step of the broker keeps its types.
LEMMA BrokerNextType ==
  ASSUME BrokerTypeOK, [BrokerNext]_brokerVars
  PROVE  BrokerTypeOK'
<1>1. ASSUME NEW e \in Entry, RegisterMethod(e) PROVE BrokerTypeOK'
  BY <1>1, RegisterType
<1>2. CASE RegisterStreamHandler
  BY <1>2 DEF RegisterStreamHandler, BrokerTypeOK
<1>3. ASSUME NEW id \in RequestIds, NEW m \in Methods,
             Submit(RpcTask(Request(id, m, "fits", Handled(m))))
      PROVE  BrokerTypeOK'
  <2>1. Request(id, m, "fits", Handled(m)) \in Rpc
    BY PayloadTypes DEF Handled, Bodies
  <2>2. RpcTask(Request(id, m, "fits", Handled(m))) \in Task
    BY <2>1 DEF RpcTask, Task
  <2> QED
    BY <1>3, <2>2, SubmitType
<1>4. CASE SubmitStream
  <2>1. StreamTask \in Task
    BY DEF Task
  <2> QED
    BY <1>4, <2>1, SubmitType DEF SubmitStream
<1>5. CASE BeginPoll \/ EndPoll
  BY <1>5, BrokerAssumption DEF BeginPoll, EndPoll, BrokerTypeOK
<1>6. CASE BeginTask \/ EndTask
  BY <1>6, TaskType
<1>7. CASE PollResult
  BY <1>7, TailQueue DEF PollResult, BrokerTypeOK
<1>8. CASE UNCHANGED brokerVars
  BY <1>8 DEF brokerVars, BrokerTypeOK
<1> QED
  BY <1>1, <1>2, <1>3, <1>4, <1>5, <1>6, <1>7, <1>8 DEF BrokerNext

\* The queues and the handler table stay within their arrays (broker.c:50, 81,
\* 100 and 125).
THEOREM BrokerTypeCorrect == BrokerSpec => []BrokerTypeOK
<1>1. BrokerInit => BrokerTypeOK
  <2>1. \A S : <<>> \in Queue(S)
    BY QueueCapacityAssumption DEF Queue
  <2>2. NoTask \in Call
    BY PayloadTypes DEF NoTask, StreamTask, Call
  <2>3. BrokerInit => streamHandler \in BOOLEAN
    BY Zenon DEF BrokerInit
  <2> QED
    BY <2>1, <2>2, <2>3, BrokerAssumption DEF BrokerInit, BrokerTypeOK
<1>2. BrokerTypeOK /\ [BrokerNext]_brokerVars => BrokerTypeOK'
  BY BrokerNextType
<1> QED
  BY <1>1, <1>2, PTL DEF BrokerSpec

-----------------------------------------------------------------------------
(* The handler table.                                                      *)

\* A registration keeps one entry per method and keeps every method served.
LEMMA RegisterServes ==
  ASSUME BrokerTypeOK, HandlersUnique, NEW e \in Entry, RegisterMethod(e)
  PROVE  /\ HandlersUnique'
         /\ \A m : HasHandler(m) => HasHandler(m)'
<1>1. ASSUME NEW i \in DOMAIN handlers, IsEntryFor(i, e.method),
             handlers' = [handlers EXCEPT ![i] = e]
      PROVE  /\ HandlersUnique'
             /\ \A m : HasHandler(m) => HasHandler(m)'
  <2>1. \A j \in DOMAIN handlers : handlers'[j].method = handlers[j].method
    BY <1>1 DEF IsEntryFor, BrokerTypeOK
  <2>2. DOMAIN handlers' = DOMAIN handlers
    BY <1>1
  <2> QED
    BY <2>1, <2>2 DEF HandlersUnique, HasHandler
<1>2. ASSUME ~HasHandler(e.method),
             handlers' = IF Len(handlers) >= HandlerCapacity
                           THEN handlers ELSE Append(handlers, e)
      PROVE  /\ HandlersUnique'
             /\ \A m : HasHandler(m) => HasHandler(m)'
  <2>1. CASE handlers' = handlers
    BY <2>1 DEF HandlersUnique, HasHandler
  <2>2. CASE handlers' = Append(handlers, e)
    <3>1. handlers \in Seq(Entry)
      BY DEF BrokerTypeOK
    <3>2. DOMAIN handlers' = DOMAIN handlers \cup {Len(handlers) + 1}
      BY <2>2, <3>1
    <3>3. \A j \in DOMAIN handlers : handlers'[j] = handlers[j]
      BY <2>2, <3>1
    <3>4. handlers'[Len(handlers) + 1] = e
      BY <2>2, <3>1
    <3> QED
      BY <1>2, <3>2, <3>3, <3>4 DEF HandlersUnique, HasHandler
  <2> QED
    BY <1>2, <2>1, <2>2
<1> QED
  BY <1>1, <1>2 DEF RegisterMethod

\* The tasks whose method had a handler when they were submitted have one still.
ServedQueued ==
  \A i \in DOMAIN tasks :
    tasks[i].type = "RPC" /\ tasks[i].rpc.ticket = 1 => HasHandler(tasks[i].rpc.method)

\* The statuses that only a handler's answer has.
Served == RawStatuses \cup {"SUCCESS", "RPC_EXECUTION_FAILED"}

ServedInv == HandlersUnique /\ ServedQueued /\ ServedMeansAnswered

\* Handlers answer with one of those statuses.
LEMMA AnswersServe ==
  ASSUME NEW c \in Call, NEW answer \in Answers(c)
  PROVE  answer.status \in Served
<1>1. PICK s \in Served, b \in Bodies : answer = Response(c.rpc, s, b)
  BY DEF Answers, Served, Bodies
<1> QED
  BY <1>1, TaskPayload DEF Response, Rpc

\* Pushing an answer that needs no handler, or comes from one, is safe.
LEMMA PushServed ==
  ASSUME BrokerTypeOK, ServedMeansAnswered, NEW rpc \in Rpc, PushResult(rpc),
         rpc.ticket = 1 => rpc.status \in Served
  PROVE  ServedMeansAnswered'
<1>1. CASE results' = results
  BY <1>1 DEF ServedMeansAnswered
<1>2. CASE results' = Append(results, rpc)
  <2>1. results \in Seq(Rpc)
    BY DEF BrokerTypeOK, Queue
  <2>2. \A i \in DOMAIN results' : results'[i] = rpc \/ \E j \in DOMAIN results : results'[i] = results[j]
    BY <1>2, <2>1
  <2> QED
    BY <2>2 DEF ServedMeansAnswered, Served
<1> QED
  BY <1>1, <1>2 DEF PushResult

\* ServedInv is inductive.
LEMMA ServedStep ==
  ASSUME BrokerTypeOK, ServedInv, [BrokerNext]_brokerVars
  PROVE  ServedInv'
<1> USE DEF ServedInv
<1>0. tasks \in Seq(Task) /\ results \in Seq(Rpc)
  BY DEF BrokerTypeOK, Queue
<1>1. ASSUME NEW e \in Entry, RegisterMethod(e) PROVE ServedInv'
  <2>1. UNCHANGED <<tasks, results>>
    BY <1>1 DEF RegisterMethod
  <2>2. HandlersUnique' /\ \A m : HasHandler(m) => HasHandler(m)'
    BY <1>1, RegisterServes
  <2> QED
    BY <2>1, <2>2 DEF ServedQueued, ServedMeansAnswered
<1>2. CASE RegisterStreamHandler \/ BeginPoll \/ EndPoll \/ UNCHANGED brokerVars
  BY <1>2 DEF RegisterStreamHandler, BeginPoll, EndPoll, brokerVars, HandlersUnique,
              ServedQueued, ServedMeansAnswered, HasHandler
<1>3. ASSUME NEW task \in Task, Submit(task),
             task.type = "RPC" /\ task.rpc.ticket = 1 => HasHandler(task.rpc.method)
      PROVE  ServedInv'
  <2>1. UNCHANGED <<results, handlers>>
    BY <1>3 DEF Submit
  <2>2. CASE tasks' = Append(tasks, task)
    <3>1. \A i \in DOMAIN tasks' : tasks'[i] = task \/ \E j \in DOMAIN tasks : tasks'[i] = tasks[j]
      BY <1>0, <2>2
    <3>2. ServedQueued'
      BY <1>3, <2>1, <3>1 DEF ServedQueued, HasHandler
    <3> QED
      BY <2>1, <3>2 DEF HandlersUnique, ServedMeansAnswered
  <2>3. CASE tasks' = tasks
    BY <2>1, <2>3 DEF HandlersUnique, ServedQueued, ServedMeansAnswered, HasHandler
  <2> QED
    BY <1>3, <2>2, <2>3 DEF Submit
<1>4. ASSUME NEW id \in RequestIds, NEW m \in Methods,
             Submit(RpcTask(Request(id, m, "fits", Handled(m))))
      PROVE  ServedInv'
  <2> DEFINE rpc == Request(id, m, "fits", Handled(m))
  <2>1. rpc \in Rpc
    BY PayloadTypes DEF Handled, Bodies
  <2>2. rpc.ticket = Handled(m) /\ rpc.method = m
    BY DEF Request, ZeroRpc
  <2>3. RpcTask(rpc) \in Task /\ RpcTask(rpc).rpc = rpc
    BY <2>1 DEF RpcTask, Task
  <2> QED
    BY <1>3, <1>4, <2>2, <2>3 DEF Handled
<1>5. CASE SubmitStream
  <2>1. StreamTask \in Task /\ StreamTask.type # "RPC"
    BY DEF Task, StreamTask
  <2> QED
    BY <1>3, <1>5, <2>1 DEF SubmitStream
<1>6. CASE BeginTask
  <2> DEFINE h == Head(tasks)
  <2>1. tasks # <<>> /\ tasks' = Tail(tasks) /\ h = tasks[1] /\ h \in Task /\ 1 \in DOMAIN tasks
    BY <1>0, <1>6 DEF BeginTask, TurnBegins
  <2>2. UNCHANGED handlers
    BY <1>6 DEF BeginTask
  <2>3. HandlersUnique' /\ ServedQueued'
    <3>1. \A i \in DOMAIN tasks' : i + 1 \in DOMAIN tasks /\ tasks'[i] = tasks[i + 1]
      BY <1>0, <2>1
    <3> QED
      BY <2>2, <3>1 DEF HandlersUnique, ServedQueued, HasHandler
  <2>4. CASE BeginStream(h) \/ BeginHandled(h)
    BY <2>3, <2>4 DEF BeginStream, BeginHandled, ServedMeansAnswered
  <2>5. CASE AnswerUnhandled(h)
    <3>1. PICK c \in StatusCodes : PushResult(Response(h.rpc, c, "fits"))
      BY <2>5 DEF AnswerUnhandled, StatusCodes
    <3>2. h.rpc \in Rpc
      BY <2>1, TaskPayload
    <3>3. Response(h.rpc, c, "fits") \in Rpc /\ Response(h.rpc, c, "fits").ticket = h.rpc.ticket
      BY <3>2, PayloadTypes DEF Bodies, Response, Rpc
    <3>4. h.rpc.ticket # 1
      BY <2>1, <2>5 DEF AnswerUnhandled, ServedQueued
    <3> QED
      BY <2>3, <3>1, <3>3, <3>4, PushServed
  <2> QED
    BY <1>6, <2>4, <2>5 DEF BeginTask
<1>7. CASE EndTask
  <2>1. UNCHANGED <<tasks, handlers>>
    BY <1>7 DEF EndTask
  <2>2. HandlersUnique' /\ ServedQueued'
    BY <2>1 DEF HandlersUnique, ServedQueued, HasHandler
  <2>3. CASE UNCHANGED results
    BY <2>2, <2>3 DEF ServedMeansAnswered
  <2>4. CASE \E answer \in Answers(current) : PushResult(answer)
    <3>1. PICK answer \in Answers(current) : PushResult(answer)
      BY <2>4
    <3>2. answer \in Rpc /\ answer.status \in Served
      BY AnswerTypes, AnswersServe DEF BrokerTypeOK
    <3> QED
      BY <2>2, <3>1, <3>2, PushServed
  <2> QED
    BY <1>7, <2>3, <2>4 DEF EndTask
<1>8. CASE PollResult
  <2>1. \A i \in DOMAIN results' : i + 1 \in DOMAIN results /\ results'[i] = results[i + 1]
    BY <1>0, <1>8 DEF PollResult
  <2> QED
    BY <1>8, <2>1 DEF PollResult, HandlersUnique, ServedQueued, ServedMeansAnswered, HasHandler
<1> QED
  BY <1>1, <1>2, <1>4, <1>5, <1>6, <1>7, <1>8 DEF BrokerNext

\* ServedInv holds throughout.
LEMMA ServedAlways == BrokerSpec => []ServedInv
<1>1. BrokerInit => ServedInv
  BY DEF BrokerInit, ServedInv, HandlersUnique, ServedQueued, ServedMeansAnswered
<1>2. BrokerTypeOK /\ ServedInv /\ [BrokerNext]_brokerVars => ServedInv'
  BY ServedStep
<1> QED
  BY <1>1, <1>2, BrokerTypeCorrect, PTL DEF BrokerSpec

\* No method ever has two entries in the handler table.
THEOREM OneEntryPerMethod == BrokerSpec => []HandlersUnique
<1>1. ServedInv => HandlersUnique
  BY DEF ServedInv
<1> QED
  BY <1>1, ServedAlways, PTL

\* A task whose method had a handler when it was submitted is never answered
\* as unhandled.
THEOREM ServedStaysServed == BrokerSpec => []ServedMeansAnswered
<1>1. ServedInv => ServedMeansAnswered
  BY DEF ServedInv
<1> QED
  BY <1>1, ServedAlways, PTL

-----------------------------------------------------------------------------
(* Types of the endpoint.                                                  *)

\* The core keeps its types when bytes come in.
LEMMA OnBytesType ==
  ASSUME CoreTypeOK, NEW rpc \in Rpc, CoreOnBytes(rpc)
  PROVE  CoreTypeOK'
<1>1. CASE OnRequest(rpc)
  BY <1>1, AppendQueue DEF CoreTypeOK, CoreOnBytes, OnRequest
<1>2. CASE OnResponse(rpc)
  BY <1>2, AppendQueue, RemoveFirstQueue DEF CoreTypeOK, CoreOnBytes, OnResponse
<1> QED
  BY <1>1, <1>2 DEF CoreTypeOK, CoreOnBytes

\* The core keeps its types when it sends, whether or not it refuses.
LEMMA SendRpcType ==
  ASSUME CoreTypeOK, NEW rpc \in Rpc, SendRpc(rpc)
  PROVE  outbound' \in Queue(Frame) /\ nextMessageId' \in 1..MaxMessageId
<1>1. nextMessageId' \in 1..MaxMessageId
  BY MaxMessageIdAssumption DEF SendRpc, CoreTypeOK
<1>2. [rpc |-> rpc, messageId |-> nextMessageId] \in Frame
  BY DEF Frame, CoreTypeOK
<1>3. CASE SendRpcStatus(rpc) = "OK"
  <2>1. ~IsFull(outbound)
    BY <1>3 DEF SendRpcStatus
  <2> QED
    BY <1>1, <1>2, <1>3, <2>1, AppendQueue DEF SendRpc, CoreTypeOK
<1> QED
  BY <1>1, <1>3 DEF SendRpc, CoreTypeOK

\* Every step keeps the types of the endpoint.
LEMMA NextType ==
  ASSUME TypeOK, [Next]_vars
  PROVE  TypeOK'
<1> USE DEF TypeOK
<1>1. ASSUME NEW s \in TransportStatuses, Attach(s) PROVE TypeOK'
  BY <1>1 DEF Attach, TransportStatuses, coreVars, brokerVars, CoreTypeOK,
              BrokerTypeOK, EndpointTypeOK, Statuses
<1>2. ASSUME NEW id \in PeerIds, NEW m \in Methods, ReceiveRequest(id, m) PROVE TypeOK'
  <2>1. Request(id, m, "fits", arrived + 1) \in Rpc
    BY PayloadTypes, EndpointAssumption DEF Bodies, EndpointTypeOK
  <2>2. CoreTypeOK'
    BY <1>2, <2>1, OnBytesType DEF ReceiveRequest
  <2> QED
    BY <1>2, <2>2 DEF ReceiveRequest, brokerVars, BrokerTypeOK, EndpointTypeOK
<1>3. ASSUME NEW id \in OwnIds, NEW m \in Methods, ReceiveResponse(id, m) PROVE TypeOK'
  <2>1. Response(Request(id, m, "fits", 0), "SUCCESS", "fits") \in Rpc
    BY PayloadTypes, EndpointAssumption DEF Bodies, StatusCodes
  <2>2. CoreTypeOK'
    BY <1>3, <2>1, OnBytesType DEF ReceiveResponse
  <2> QED
    BY <1>3, <2>2 DEF ReceiveResponse, brokerVars, endpointVars, BrokerTypeOK, EndpointTypeOK
<1>4. ASSUME NEW id \in OwnIds, TakeResponse(id) PROVE TypeOK'
  BY <1>4, RemoveAtQueue DEF TakeResponse, TryTakeRpcResponse, brokerVars, endpointVars,
                             CoreTypeOK, BrokerTypeOK, EndpointTypeOK
<1>5. CASE Configure
  <2>1. CoreTypeOK' /\ EndpointTypeOK'
    BY <1>5 DEF Configure, coreVars, endpointVars, CoreTypeOK, EndpointTypeOK
  <2>2. CASE RegisterStreamHandler
    BY <2>1, <2>2 DEF RegisterStreamHandler, BrokerTypeOK
  <2> QED
    BY <1>5, <2>1, <2>2, RegisterType DEF Configure
<1>6. CASE PushStream
  <2>1. StreamTask \in Task
    BY DEF Task
  <2>2. BrokerTypeOK'
    BY <1>6, <2>1, SubmitType DEF PushStream, SubmitStream
  <2> QED
    BY <1>6, <2>2 DEF PushStream, coreVars, endpointVars, CoreTypeOK, EndpointTypeOK
<1>7. ASSUME NEW id \in OwnIds, NEW m \in Methods, NEW b \in Bodies, SendRequest(id, m, b)
      PROVE  TypeOK'
  <2> DEFINE rpc == Request(id, m, b, 0)
  <2>1. rpc \in Rpc /\ id \in RequestIds
    BY PayloadTypes, EndpointAssumption
  <2>2. pending' \in Queue(RequestIds)
    BY <1>7, <2>1, AppendQueue DEF SendRequest, ExpectRpcResponse, ExpectStatus, CoreTypeOK
  <2>3. outbound' \in Queue(Frame) /\ nextMessageId' \in 1..MaxMessageId
    <3>1. CASE ExpectStatus = "OK"
      BY <1>7, <2>1, <3>1, SendRpcType DEF SendRequest
    <3>2. CASE ExpectStatus # "OK"
      BY <1>7, <3>2 DEF SendRequest, CoreTypeOK
    <3> QED
      BY <3>1, <3>2
  <2>4. CoreTypeOK' /\ BrokerTypeOK'
    BY <1>7, <2>2, <2>3 DEF SendRequest, brokerVars, CoreTypeOK, BrokerTypeOK
  <2>5. EndpointTypeOK'
    BY <1>7 DEF SendRequest, ApplicationTurn, SendRpcStatus, ExpectStatus, EndpointTypeOK, Statuses
  <2> QED
    BY <2>4, <2>5
<1>8. CASE StartPoll
  BY <1>8 DEF StartPoll, coreVars, brokerVars, CoreTypeOK, BrokerTypeOK, EndpointTypeOK
<1>9. CASE SubmitEvent
  <2>1. Head(events) \in Rpc /\ events' \in Queue(Rpc)
    BY <1>9, TailQueue DEF SubmitEvent, PollEvent, CoreTypeOK
  <2>2. RpcTask(Head(events)) \in Task
    BY <2>1 DEF RpcTask, Task
  <2>3. BrokerTypeOK'
    BY <1>9, <2>2, SubmitType DEF SubmitEvent
  <2>4. CoreTypeOK'
    BY <1>9, <2>1 DEF SubmitEvent, PollEvent, CoreTypeOK
  <2>5. EndpointTypeOK'
    BY <1>9 DEF SubmitEvent, SubmitStatus, GoTo, Return, EndpointTypeOK, Statuses
  <2> QED
    BY <2>3, <2>4, <2>5
<1>10. CASE EnterBroker
  BY <1>10, BrokerAssumption
  DEF EnterBroker, BeginPoll, GoTo, coreVars, CoreTypeOK, BrokerTypeOK, EndpointTypeOK
<1>11. CASE RunTask
  <2>1. BrokerTypeOK'
    BY <1>11, TaskType DEF RunTask
  <2> QED
    BY <1>11, <2>1 DEF RunTask, coreVars, endpointVars, CoreTypeOK, EndpointTypeOK
<1>12. CASE LeaveBroker
  BY <1>12, BrokerAssumption
  DEF LeaveBroker, EndPoll, GoTo, coreVars, CoreTypeOK, BrokerTypeOK, EndpointTypeOK
<1>13. CASE SendResult
  <2>1. Head(results) \in Rpc /\ results' \in Queue(Rpc)
    BY <1>13, TailQueue DEF SendResult, PollResult, BrokerTypeOK
  <2>2. outbound' \in Queue(Frame) /\ nextMessageId' \in 1..MaxMessageId
    BY <1>13, <2>1, SendRpcType DEF SendResult
  <2>3. CoreTypeOK' /\ BrokerTypeOK'
    BY <1>13, <2>1, <2>2 DEF SendResult, PollResult, CoreTypeOK, BrokerTypeOK
  <2>4. EndpointTypeOK'
    BY <1>13 DEF SendResult, SendRpcStatus, GoTo, Return, EndpointTypeOK, Statuses
  <2> QED
    BY <2>3, <2>4
<1>14. CASE EnterFlush
  BY <1>14 DEF EnterFlush, GoTo, coreVars, brokerVars, CoreTypeOK, BrokerTypeOK, EndpointTypeOK
<1>15. CASE EndFlush
  BY <1>15 DEF EndFlush, Return, coreVars, brokerVars, CoreTypeOK, BrokerTypeOK,
               EndpointTypeOK, Statuses
<1>16. ASSUME NEW s \in TransportStatuses, SendFrame(s) PROVE TypeOK'
  <2>1. Head(outbound) \in Frame /\ outbound' \in Queue(Frame)
    BY <1>16, TailQueue DEF SendFrame, PopOutbound, CoreTypeOK
  <2>2. CoreTypeOK' /\ BrokerTypeOK'
    BY <1>16, <2>1 DEF SendFrame, PopOutbound, brokerVars, CoreTypeOK, BrokerTypeOK
  <2>3. EndpointTypeOK'
    BY <1>16, <2>1 DEF SendFrame, GoTo, Return, EndpointTypeOK, Statuses,
                       TransportStatuses, Frame, Rpc
  <2> QED
    BY <2>2, <2>3
<1>17. CASE UNCHANGED vars
  BY <1>17 DEF vars, coreVars, brokerVars, endpointVars, CoreTypeOK, BrokerTypeOK, EndpointTypeOK
<1> QED
  BY <1>1, <1>2, <1>3, <1>4, <1>5, <1>6, <1>7, <1>8, <1>9, <1>10, <1>11, <1>12, <1>13,
     <1>14, <1>15, <1>16, <1>17 DEF Next, PollStep, FlushStep

\* The variables keep their types: no queue grows beyond its capacity
\* (core.c:23, 111, 121, 152, broker.c:50, 125), the handler table stays
\* within its array and message ids stay in 1..MaxMessageId.
THEOREM TypeCorrect == Spec => []TypeOK
<1>1. Init => TypeOK
  <2>1. \A S : <<>> \in Queue(S)
    BY QueueCapacityAssumption DEF Queue
  <2>2. Init => CoreTypeOK
    BY <2>1, MaxMessageIdAssumption DEF Init, CoreInit, CoreTypeOK
  <2>3. NoTask \in Call
    BY PayloadTypes DEF NoTask, StreamTask, Call
  <2>4. Init => streamHandler \in BOOLEAN /\ hasTransport \in BOOLEAN
    BY Zenon DEF Init, BrokerInit
  <2>5. Init => BrokerTypeOK
    BY <2>1, <2>3, <2>4, BrokerAssumption DEF Init, BrokerInit, BrokerTypeOK
  <2> QED
    BY <2>2, <2>4, <2>5 DEF Init, TypeOK, EndpointTypeOK, Statuses
<1>2. TypeOK /\ [Next]_vars => TypeOK'
  BY NextType
<1> QED
  BY <1>1, <1>2, PTL DEF Spec

-----------------------------------------------------------------------------
(* What a call that returns AXTP_STATUS_OK has done.                       *)

\* Which loop the call has reached tells what is over: no handler runs
\* outside the broker's loop but in a flush of its own, and a poll flushes
\* when it has sent every result.
FlushInv ==
  /\ resume = "broker" => pc = "flush"
  /\ pc # "broker" /\ resume = "idle" => current = NoTask
  /\ pc = "flush" /\ resume = "idle" /\ call = "poll" => results = <<>>

\* FlushInv is inductive.
LEMMA FlushInvStep ==
  ASSUME TypeOK, FlushInv, [Next]_vars
  PROVE  FlushInv'
<1> USE DEF FlushInv
<1>1. ASSUME NEW s \in TransportStatuses, Attach(s) PROVE FlushInv'
  BY <1>1 DEF Attach, brokerVars
<1>2. ASSUME NEW id \in PeerIds, NEW m \in Methods, ReceiveRequest(id, m) PROVE FlushInv'
  BY <1>2 DEF ReceiveRequest, brokerVars
<1>3. ASSUME NEW id \in OwnIds, NEW m \in Methods, ReceiveResponse(id, m) PROVE FlushInv'
  BY <1>3 DEF ReceiveResponse, brokerVars, endpointVars
<1>4. ASSUME NEW id \in OwnIds, TakeResponse(id) PROVE FlushInv'
  BY <1>4 DEF TakeResponse, brokerVars, endpointVars
<1>5. CASE Configure
  BY <1>5 DEF Configure, RegisterMethod, RegisterStreamHandler, endpointVars
<1>6. CASE PushStream
  BY <1>6 DEF PushStream, SubmitStream, Submit, endpointVars
<1>7. ASSUME NEW id \in OwnIds, NEW m \in Methods, NEW b \in Bodies, SendRequest(id, m, b)
      PROVE  FlushInv'
  <2>1. UNCHANGED <<current, results>> /\ resume = "idle"
    BY <1>7 DEF SendRequest, ApplicationTurn, brokerVars, TypeOK, EndpointTypeOK
  <2>2. CASE pc' = pc /\ resume' = resume
    BY <1>7, <2>1, <2>2 DEF SendRequest, ApplicationTurn
  <2>3. CASE pc' = "flush" /\ resume' = pc
    BY <1>7, <2>1, <2>3 DEF SendRequest, ApplicationTurn
  <2> QED
    BY <1>7, <2>2, <2>3 DEF SendRequest
<1>8. CASE StartPoll
  BY <1>8 DEF StartPoll, brokerVars
<1>9. CASE SubmitEvent
  BY <1>9 DEF SubmitEvent, Submit, GoTo, Return, TypeOK, EndpointTypeOK
<1>10. CASE EnterBroker
  BY <1>10 DEF EnterBroker, GoTo
<1>11. CASE RunTask
  BY <1>11 DEF RunTask, endpointVars
<1>12. CASE LeaveBroker
  BY <1>12 DEF LeaveBroker, EndPoll, PollOver, GoTo
<1>13. CASE SendResult
  BY <1>13 DEF SendResult, PollResult, GoTo, Return, TypeOK, EndpointTypeOK
<1>14. CASE EnterFlush
  BY <1>14 DEF EnterFlush, GoTo, brokerVars
<1>15. CASE EndFlush
  BY <1>15 DEF EndFlush, Return, brokerVars, TypeOK, EndpointTypeOK
<1>16. ASSUME NEW s \in TransportStatuses, SendFrame(s) PROVE FlushInv'
  BY <1>16 DEF SendFrame, GoTo, Return, brokerVars, TypeOK, EndpointTypeOK
<1>17. CASE UNCHANGED vars
  BY <1>17 DEF vars, brokerVars, endpointVars
<1> QED
  BY <1>1, <1>2, <1>3, <1>4, <1>5, <1>6, <1>7, <1>8, <1>9, <1>10, <1>11, <1>12, <1>13,
     <1>14, <1>15, <1>16, <1>17 DEF Next, PollStep, FlushStep

\* A call returns AXTP_STATUS_OK only from the flush loop (endpoint.c:28), and
\* what is then left inside is what FlushInv says.
THEOREM FlushedWhenOk == Spec => OkMeansFlushed
<1> DEFINE Flushed == CallReturns /\ status' = "OK" =>
                        /\ call = "poll" /\ pc' = "idle" => results' = <<>> /\ current' = NoTask
                        /\ hasTransport => outbound' = <<>>
<1>1. Init => FlushInv
  BY DEF Init, BrokerInit, FlushInv
<1>2. TypeOK /\ FlushInv /\ [Next]_vars => FlushInv'
  BY FlushInvStep
<1>3. TypeOK /\ FlushInv /\ [Next]_vars => [Flushed]_vars
  <2> SUFFICES ASSUME TypeOK, FlushInv, [Next]_vars, CallReturns, status' = "OK"
               PROVE  /\ call = "poll" /\ pc' = "idle" => results' = <<>> /\ current' = NoTask
                      /\ hasTransport => outbound' = <<>>
    OBVIOUS
  <2>1. pc' # pc \/ resume' # resume
    BY DEF CallReturns
  <2>2. CASE EndFlush
    BY <2>2 DEF EndFlush, Return, CallReturns, FlushInv, coreVars, brokerVars,
                TypeOK, EndpointTypeOK
  <2>3. ASSUME NEW s \in TransportStatuses, SendFrame(s) PROVE FALSE
    BY <2>1, <2>3 DEF SendFrame, GoTo, Return
  <2>4. CASE SubmitEvent
    BY <2>1, <2>4 DEF SubmitEvent, GoTo, Return, CallReturns, FlushInv
  <2>5. CASE SendResult
    BY <2>1, <2>5 DEF SendResult, GoTo, Return, CallReturns, FlushInv
  <2>6. ASSUME NEW id \in OwnIds, NEW m \in Methods, NEW b \in Bodies, SendRequest(id, m, b)
        PROVE  FALSE
    BY <2>1, <2>6 DEF SendRequest, ApplicationTurn, CallReturns, FlushInv
  <2>7. ASSUME StartPoll \/ EnterBroker \/ LeaveBroker \/ EnterFlush PROVE FALSE
    BY <2>7 DEF StartPoll, EnterBroker, LeaveBroker, EnterFlush, GoTo, CallReturns, FlushInv
  <2>8. ASSUME RunTask \/ Configure \/ PushStream \/ UNCHANGED vars PROVE FALSE
    BY <2>1, <2>8 DEF RunTask, Configure, PushStream, vars, endpointVars
  <2>9. ASSUME NEW s \in TransportStatuses, Attach(s) PROVE FALSE
    BY <2>1, <2>9 DEF Attach
  <2>10. ASSUME NEW id \in PeerIds, NEW m \in Methods, ReceiveRequest(id, m) PROVE FALSE
    BY <2>1, <2>10 DEF ReceiveRequest
  <2>11. ASSUME NEW id \in OwnIds, NEW m \in Methods, ReceiveResponse(id, m) PROVE FALSE
    BY <2>1, <2>11 DEF ReceiveResponse, endpointVars
  <2>12. ASSUME NEW id \in OwnIds, TakeResponse(id) PROVE FALSE
    BY <2>1, <2>12 DEF TakeResponse, endpointVars
  <2> QED
    BY <2>2, <2>3, <2>4, <2>5, <2>6, <2>7, <2>8, <2>9, <2>10, <2>11, <2>12
    DEF Next, PollStep, FlushStep
<1> QED
  BY <1>1, <1>2, <1>3, TypeCorrect, PTL DEF Spec, OkMeansFlushed

-----------------------------------------------------------------------------
(* Tickets of a queue.                                                     *)

\* Appending adds one ticket, and keeps the queue rising when that ticket is
\* above all others.
LEMMA AppendTickets ==
  ASSUME NEW s \in Seq(Rpc), NEW r \in Rpc
  PROVE  /\ Tickets(Append(s, r)) = Tickets(s) \cup {r.ticket}
         /\ Rising(s) /\ Below(Tickets(s), {r.ticket}) => Rising(Append(s, r))
<1>1. Tickets(Append(s, r)) = Tickets(s) \cup {r.ticket}
  <2>1. DOMAIN Append(s, r) = DOMAIN s \cup {Len(s) + 1}
    OBVIOUS
  <2>2. \A i \in DOMAIN s : Append(s, r)[i] = s[i]
    OBVIOUS
  <2>3. Append(s, r)[Len(s) + 1] = r
    OBVIOUS
  <2> QED
    BY <2>1, <2>2, <2>3 DEF Tickets
<1>2. ASSUME Rising(s), Below(Tickets(s), {r.ticket}) PROVE Rising(Append(s, r))
  BY <1>2 DEF Rising, Below, Tickets, Rpc
<1> QED
  BY <1>1, <1>2

\* Taking the head away removes the lowest ticket of a rising queue.
LEMMA TailTickets ==
  ASSUME NEW s \in Seq(Rpc), s # <<>>
  PROVE  /\ Tickets(s) = {Head(s).ticket} \cup Tickets(Tail(s))
         /\ Rising(s) => Rising(Tail(s)) /\ Below({Head(s).ticket}, Tickets(Tail(s)))
<1>1. Tickets(s) = {Head(s).ticket} \cup Tickets(Tail(s))
  <2>1. \A i \in DOMAIN s : i = 1 \/ i - 1 \in DOMAIN Tail(s)
    OBVIOUS
  <2>2. \A i \in DOMAIN Tail(s) : Tail(s)[i] = s[i + 1] /\ i + 1 \in DOMAIN s
    OBVIOUS
  <2>3. 1 \in DOMAIN s /\ Head(s) = s[1]
    OBVIOUS
  <2> QED
    BY <2>1, <2>2, <2>3 DEF Tickets
<1>2. ASSUME Rising(s) PROVE Rising(Tail(s))
  <2>1. \A i \in DOMAIN Tail(s) : Tail(s)[i] = s[i + 1] /\ i + 1 \in DOMAIN s
    OBVIOUS
  <2>2. \A i, j \in DOMAIN Tail(s) : i < j => i + 1 < j + 1
    OBVIOUS
  <2> QED
    BY <1>2, <2>1, <2>2 DEF Rising
<1>3. ASSUME Rising(s) PROVE Below({Head(s).ticket}, Tickets(Tail(s)))
  BY <1>3 DEF Rising, Below, Tickets
<1> QED
  BY <1>1, <1>2, <1>3

\* The payloads of a queue follow the queue.
LEMMA PayloadsFollow ==
  ASSUME NEW T, \A x \in T : x.rpc \in Rpc, NEW s \in Seq(T)
  PROVE  /\ Payloads(s) \in Seq(Rpc)
         /\ \A x \in T : Payloads(Append(s, x)) = Append(Payloads(s), x.rpc)
         /\ s # <<>> => /\ Payloads(s) # <<>>
                        /\ Payloads(Tail(s)) = Tail(Payloads(s))
                        /\ Head(Payloads(s)) = Head(s).rpc
<1>1. Payloads(s) \in Seq(Rpc) /\ Len(Payloads(s)) = Len(s)
  BY DEF Payloads
<1>2. ASSUME NEW x \in T
      PROVE  Payloads(Append(s, x)) = Append(Payloads(s), x.rpc)
  BY <1>1 DEF Payloads
<1>3. ASSUME s # <<>>
      PROVE  /\ Payloads(s) # <<>>
             /\ Payloads(Tail(s)) = Tail(Payloads(s))
             /\ Head(Payloads(s)) = Head(s).rpc
  BY <1>1, <1>3 DEF Payloads
<1> QED
  BY <1>1, <1>2, <1>3

-----------------------------------------------------------------------------
(* How a step changes the tickets of a queue: nothing, one more at the end *)
(* or one less at the head.                                                *)

\* An element is appended, or refused.
Grows(s, t, x) ==
  /\ Tickets(t) = Tickets(s) \/ Tickets(t) = Tickets(s) \cup {x}
  /\ Rising(s) /\ Below(Tickets(s), {x}) => Rising(t)

\* The head, of ticket x, is taken away.
Shrinks(s, t, x) ==
  /\ Tickets(s) = {x} \cup Tickets(t)
  /\ Rising(s) => Rising(t) /\ Below({x}, Tickets(t))

\* A step that takes one request out of the endpoint, with its reason.
Loses ==
  \E t \in InFlight :
    /\ InFlight' = InFlight \ {t}
    /\ Oversize(t) \/ Load > QueueCapacity

\* The sequences of payloads in the queues of a well-typed endpoint.
LEMMA QueuePayloads ==
  ASSUME TypeOK
  PROVE  /\ events \in Seq(Rpc) /\ results \in Seq(Rpc)
         /\ Payloads(tasks) \in Seq(Rpc) /\ Payloads(outbound) \in Seq(Rpc)
         /\ \A x \in Task : x.rpc \in Rpc
         /\ \A x \in Frame : x.rpc \in Rpc
         /\ tasks \in Seq(Task) /\ outbound \in Seq(Frame)
         /\ current.rpc \in Rpc /\ lastSent \in Nat /\ arrived \in Nat
<1>1. events \in Seq(Rpc) /\ results \in Seq(Rpc) /\ tasks \in Seq(Task)
        /\ outbound \in Seq(Frame)
  BY DEF TypeOK, CoreTypeOK, BrokerTypeOK, Queue
<1>2. (\A x \in Task : x.rpc \in Rpc) /\ (\A x \in Frame : x.rpc \in Rpc)
  BY TaskPayload DEF Frame
<1>3. current.rpc \in Rpc /\ lastSent \in Nat /\ arrived \in Nat
  BY TaskPayload DEF TypeOK, BrokerTypeOK, EndpointTypeOK
<1> QED
  BY <1>1, <1>2, <1>3, PayloadsFollow

\* Tickets are natural numbers.
LEMMA TicketsNat ==
  ASSUME TypeOK
  PROVE  /\ Tickets(events) \subseteq Nat /\ Tickets(results) \subseteq Nat
         /\ Tickets(Payloads(tasks)) \subseteq Nat
         /\ Tickets(Payloads(outbound)) \subseteq Nat
         /\ current.rpc.ticket \in Nat /\ lastSent \in Nat /\ arrived \in Nat
<1>1. ASSUME NEW s \in Seq(Rpc) PROVE Tickets(s) \subseteq Nat
  <2>1. \A r \in Rpc : r.ticket \in Nat
    BY DEF Rpc
  <2>2. \A i \in DOMAIN s : s[i] \in Rpc
    OBVIOUS
  <2> QED
    BY <2>1, <2>2 DEF Tickets
<1> QED
  BY <1>1, QueuePayloads DEF Rpc

\* A push appends, or refuses.
LEMMA PushGrows ==
  ASSUME NEW s \in Seq(Rpc), NEW r \in Rpc, NEW t, t = s \/ t = Append(s, r)
  PROVE  Grows(s, t, r.ticket)
  BY AppendTickets DEF Grows

\* A pop shrinks.
LEMMA PopShrinks ==
  ASSUME NEW s \in Seq(Rpc), s # <<>>
  PROVE  Shrinks(s, Tail(s), Head(s).ticket)
  BY TailTickets DEF Shrinks

-----------------------------------------------------------------------------
(* TicketOrder is inductive, together with TypeOK.                         *)

\* A request that comes in is the latest.
LEMMA ReceiveOrder ==
  ASSUME TypeOK, TicketOrder, NEW id \in PeerIds, NEW m \in Methods, ReceiveRequest(id, m)
  PROVE  /\ TicketOrder'
         /\ arrived' = arrived + 1 /\ UNCHANGED lastSent
         /\ \/ InFlight' = InFlight \cup {arrived + 1}
            \/ InFlight' = InFlight /\ Load >= QueueCapacity
<1> DEFINE rpc == Request(id, m, "fits", arrived + 1)
<1>1. rpc \in Rpc /\ rpc.ticket = arrived + 1
  <2>1. id \in RequestIds /\ "fits" \in Bodies /\ arrived + 1 \in Nat
    BY EndpointAssumption, QueuePayloads DEF Bodies
  <2>2. rpc \in Rpc
    BY <2>1, PayloadTypes
  <2> QED
    BY <2>2 DEF Request, ZeroRpc
<1>2. events' = events \/ events' = Append(events, rpc)
  BY DEF ReceiveRequest, CoreOnBytes, OnRequest, OnResponse, Request, ZeroRpc
<1>3. Grows(events, events', arrived + 1)
  BY <1>1, <1>2, QueuePayloads, PushGrows
<1>4. UNCHANGED <<tasks, current, results, outbound, lastSent>> /\ arrived' = arrived + 1
  BY DEF ReceiveRequest, CoreOnBytes, brokerVars
<1>5. TicketOrder'
  BY <1>3, <1>4, TicketsNat DEF TicketOrder, InFlight, Below, Grows
<1>6. CASE ~IsFull(events)
  <2>1. events' = Append(events, rpc)
    BY <1>6 DEF ReceiveRequest, CoreOnBytes, OnRequest, OnResponse, Request, ZeroRpc
  <2>2. Tickets(events') = Tickets(events) \cup {arrived + 1}
    BY <1>1, <2>1, QueuePayloads, AppendTickets
  <2>3. InFlight' = InFlight \cup {arrived + 1}
    BY <1>4, <2>2, TicketsNat DEF InFlight
  <2> QED
    BY <1>4, <1>5, <2>3
<1>7. CASE IsFull(events)
  <2>1. events' = events
    BY <1>7 DEF ReceiveRequest, CoreOnBytes, OnRequest, OnResponse, Request, ZeroRpc
  <2>2. InFlight' = InFlight
    BY <1>4, <2>1 DEF InFlight
  <2>3. Load >= QueueCapacity
    BY <1>7, QueueCapacityAssumption, QueuePayloads DEF Load, IsFull
  <2> QED
    BY <1>4, <1>5, <2>2, <2>3
<1> QED
  BY <1>6, <1>7

\* An event moves from the head of the core's queue to the end of the
\* broker's, or is lost in between.
LEMMA SubmitEventOrder ==
  ASSUME TypeOK, TicketOrder, SubmitEvent
  PROVE  TicketOrder' /\ (InFlight' = InFlight \/ Loses)
<1> DEFINE h == Head(events)
<1>1. events # <<>> /\ events' = Tail(events) /\ h \in Rpc
  BY QueuePayloads DEF SubmitEvent, PollEvent
<1>2. Shrinks(events, events', h.ticket)
  BY <1>1, QueuePayloads, PopShrinks
<1>3. RpcTask(h) \in Task /\ RpcTask(h).rpc = h
  BY <1>1 DEF RpcTask, Task
<1>4. tasks' = tasks \/ tasks' = Append(tasks, RpcTask(h))
  BY DEF SubmitEvent, Submit
<1>5. Payloads(tasks)' = Payloads(tasks) \/ Payloads(tasks)' = Append(Payloads(tasks), h)
  <2>1. Payloads(Append(tasks, RpcTask(h))) = Append(Payloads(tasks), RpcTask(h).rpc)
    BY <1>3, QueuePayloads, PayloadsFollow
  <2> QED
    BY <1>3, <1>4, <2>1
<1>6. Grows(Payloads(tasks), Payloads(tasks)', h.ticket)
  BY <1>1, <1>5, QueuePayloads, PushGrows
<1>7. UNCHANGED <<current, results, outbound, lastSent, arrived>>
  BY DEF SubmitEvent, PollEvent, Submit
<1>8. TicketOrder'
  BY <1>2, <1>6, <1>7, TicketsNat DEF TicketOrder, InFlight, Below, Grows, Shrinks
<1>9. CASE ~IsFull(tasks)
  <2>1. Tickets(Payloads(tasks)') = Tickets(Payloads(tasks)) \cup {h.ticket}
    <3>1. tasks' = Append(tasks, RpcTask(h))
      BY <1>9 DEF SubmitEvent, Submit, SubmitStatus
    <3>2. Payloads(tasks)' = Append(Payloads(tasks), h)
      BY <1>3, <3>1, QueuePayloads, PayloadsFollow
    <3> QED
      BY <1>1, <3>2, QueuePayloads, AppendTickets
  <2>2. InFlight' = InFlight
    BY <1>2, <1>7, <2>1 DEF InFlight, Shrinks
  <2> QED
    BY <1>8, <2>2
<1>10. CASE IsFull(tasks)
  <2>1. Payloads(tasks)' = Payloads(tasks)
    BY <1>10 DEF SubmitEvent, Submit, SubmitStatus
  <2>2. h.ticket = 0 => InFlight' = InFlight
    BY <1>2, <1>7, <2>1 DEF InFlight, Shrinks
  <2>3. h.ticket # 0 => h.ticket \in InFlight /\ InFlight' = InFlight \ {h.ticket}
    BY <1>2, <1>7, <2>1, TicketsNat DEF InFlight, Shrinks, TicketOrder, Below
  <2>4. Load > QueueCapacity
    BY <1>1, <1>10, QueueCapacityAssumption, QueuePayloads
    DEF Load, IsFull
  <2> QED
    BY <1>8, <2>2, <2>3, <2>4 DEF Loses
<1> QED
  BY <1>9, <1>10

\* A stream task carries no ticket.
LEMMA PushStreamOrder ==
  ASSUME TypeOK, TicketOrder, PushStream
  PROVE  TicketOrder' /\ InFlight' = InFlight
<1>1. StreamTask \in Task /\ StreamTask.rpc = ZeroRpc /\ ZeroRpc.ticket = 0
  BY DEF StreamTask, Task, ZeroRpc
<1>2. tasks' = tasks \/ tasks' = Append(tasks, StreamTask)
  BY DEF PushStream, SubmitStream, Submit
<1>3. Payloads(tasks)' = Payloads(tasks) \/ Payloads(tasks)' = Append(Payloads(tasks), ZeroRpc)
  BY <1>1, <1>2, QueuePayloads, PayloadsFollow
<1>4. Grows(Payloads(tasks), Payloads(tasks)', 0)
  BY <1>1, <1>3, QueuePayloads, PushGrows, PayloadTypes
<1>5. UNCHANGED <<events, current, results, outbound, lastSent, arrived>>
  BY DEF PushStream, SubmitStream, Submit, coreVars, endpointVars
<1> QED
  BY <1>4, <1>5, TicketsNat DEF TicketOrder, InFlight, Below, Grows

\* A task leaves the head of its queue for its handler, or is answered at once.
LEMMA BeginTaskOrder ==
  ASSUME TypeOK, TicketOrder, RunTask, BeginTask
  PROVE  TicketOrder' /\ (InFlight' = InFlight \/ Loses)
<1> DEFINE h == Head(tasks).rpc
<1>1. tasks # <<>> /\ tasks' = Tail(tasks) /\ current = NoTask /\ h \in Rpc
        /\ Head(tasks) \in Task
  BY QueuePayloads DEF BeginTask, TurnBegins
<1>2. Shrinks(Payloads(tasks), Payloads(tasks)', h.ticket)
  BY <1>1, QueuePayloads, PayloadsFollow, PopShrinks
<1>3. current.rpc.ticket = 0
  BY <1>1 DEF NoTask, ZeroRpc
<1>4. UNCHANGED <<events, outbound, lastSent, arrived>>
  BY DEF RunTask, coreVars, endpointVars
<1>5. CASE BeginStream(Head(tasks)) \/ BeginHandled(Head(tasks))
  <2>1. results' = results
    BY <1>5 DEF BeginStream, BeginHandled
  <2>2. current'.rpc.ticket = h.ticket
    <3>1. CASE BeginStream(Head(tasks))
      <4>1. current' = Head(tasks) \/ current' = NoTask
        BY <3>1, Zenon DEF BeginStream
      <4>2. Head(tasks) = StreamTask
        BY <1>1, <3>1 DEF BeginStream, Task
      <4> QED
        BY <4>1, <4>2 DEF StreamTask, NoTask
    <3>2. CASE BeginHandled(Head(tasks))
      BY <3>2 DEF BeginHandled
    <3> QED
      BY <1>5, <3>1, <3>2
  <2>3. TicketOrder'
    BY <1>2, <1>3, <1>4, <2>1, <2>2, TicketsNat DEF TicketOrder, InFlight, Below, Shrinks
  <2>4. InFlight' = InFlight
    BY <1>2, <1>3, <1>4, <2>1, <2>2 DEF InFlight, Shrinks
  <2> QED
    BY <2>3, <2>4
<1>6. CASE AnswerUnhandled(Head(tasks))
  <2>1. PICK c \in StatusCodes : PushResult(Response(h, c, "fits"))
    BY <1>6 DEF AnswerUnhandled, StatusCodes
  <2> DEFINE answer == Response(h, c, "fits")
  <2>2. answer \in Rpc /\ answer.ticket = h.ticket
    BY <1>1, PayloadTypes DEF Bodies, Response, Rpc
  <2>3. Grows(results, results', h.ticket)
    BY <2>1, <2>2, QueuePayloads, PushGrows DEF PushResult
  <2>4. current' = current
    BY <1>6 DEF AnswerUnhandled
  <2>5. TicketOrder'
    BY <1>2, <1>3, <1>4, <2>3, <2>4, TicketsNat
    DEF TicketOrder, InFlight, Below, Shrinks, Grows
  <2>6. CASE ~IsFull(results)
    <3>1. Tickets(results') = Tickets(results) \cup {h.ticket}
      BY <2>1, <2>2, <2>6, QueuePayloads, AppendTickets DEF PushResult
    <3>2. InFlight' = InFlight
      BY <1>2, <1>4, <2>4, <3>1 DEF InFlight, Shrinks
    <3> QED
      BY <2>5, <3>2
  <2>7. CASE IsFull(results)
    <3>1. results' = results
      BY <2>1, <2>7 DEF PushResult
    <3>2. h.ticket = 0 => InFlight' = InFlight
      BY <1>2, <1>4, <2>4, <3>1 DEF InFlight, Shrinks
    <3>3. h.ticket # 0 => h.ticket \in InFlight /\ InFlight' = InFlight \ {h.ticket}
      BY <1>2, <1>4, <2>4, <3>1, TicketsNat DEF InFlight, Shrinks, TicketOrder, Below
    <3>4. Load > QueueCapacity
      BY <1>1, <2>7, QueueCapacityAssumption, QueuePayloads DEF Load, IsFull
    <3> QED
      BY <2>5, <3>2, <3>3, <3>4 DEF Loses
  <2> QED
    BY <2>6, <2>7
<1> QED
  BY <1>5, <1>6 DEF BeginTask

\* What a handler answers with has the ticket of the request it was called for.
LEMMA AnswerTicket ==
  ASSUME NEW c \in Call, NEW answer \in Answers(c)
  PROVE  answer.ticket = c.rpc.ticket
<1>1. PICK s \in StatusCodes, b \in Bodies : answer = Response(c.rpc, s, b)
  BY BrokerAssumption DEF Answers, StatusCodes, Bodies
<1> QED
  BY <1>1, TaskPayload DEF Response, Rpc

\* The call in progress becomes the last result, or nothing.
LEMMA EndTaskOrder ==
  ASSUME TypeOK, TicketOrder, RunTask, EndTask
  PROVE  TicketOrder' /\ (InFlight' = InFlight \/ Loses)
<1> DEFINE t == current.rpc.ticket
<1>1. current'.rpc.ticket = 0
  BY DEF EndTask, NoTask, ZeroRpc
<1>2. UNCHANGED <<events, tasks, outbound, lastSent, arrived>>
  BY DEF RunTask, EndTask, coreVars, endpointVars
<1>3. CASE current.type = "STREAM_DATA"
  <2>1. t = 0
    BY <1>3 DEF TypeOK, BrokerTypeOK, Call, StreamTask, NoTask, ZeroRpc
  <2>2. results' = results
    BY <1>3 DEF EndTask
  <2> QED
    BY <1>1, <1>2, <2>1, <2>2, TicketsNat DEF TicketOrder, InFlight, Below
<1>4. CASE current.type # "STREAM_DATA"
  <2>1. PICK answer \in Answers(current) : PushResult(answer)
    BY <1>4 DEF EndTask
  <2>2. answer \in Rpc /\ answer.ticket = t
    BY AnswerTypes, AnswerTicket DEF TypeOK, BrokerTypeOK
  <2>3. Grows(results, results', t)
    BY <2>1, <2>2, QueuePayloads, PushGrows DEF PushResult
  <2>4. TicketOrder'
    BY <1>1, <1>2, <2>3, TicketsNat DEF TicketOrder, InFlight, Below, Grows
  <2>5. CASE ~IsFull(results)
    <3>1. Tickets(results') = Tickets(results) \cup {t}
      BY <2>1, <2>2, <2>5, QueuePayloads, AppendTickets DEF PushResult
    <3>2. InFlight' = InFlight
      BY <1>1, <1>2, <3>1 DEF InFlight
    <3> QED
      BY <2>4, <3>2
  <2>6. CASE IsFull(results)
    <3>1. results' = results
      BY <2>1, <2>6 DEF PushResult
    <3>2. t = 0 => InFlight' = InFlight
      BY <1>1, <1>2, <3>1 DEF InFlight
    <3>3. t # 0 => t \in InFlight /\ InFlight' = InFlight \ {t}
      BY <1>1, <1>2, <3>1, TicketsNat DEF InFlight, TicketOrder, Below
    <3>4. Load > QueueCapacity
      BY <2>6, QueueCapacityAssumption, QueuePayloads DEF EndTask, Load, IsFull
    <3> QED
      BY <2>4, <3>2, <3>3, <3>4 DEF Loses
  <2> QED
    BY <2>5, <2>6
<1> QED
  BY <1>3, <1>4

\* A result becomes the last frame, or is lost.
LEMMA SendResultOrder ==
  ASSUME TypeOK, TicketOrder, SendResult
  PROVE  TicketOrder' /\ (InFlight' = InFlight \/ Loses)
<1> DEFINE h == Head(results)
           frame == [rpc |-> h, messageId |-> nextMessageId]
<1>1. results # <<>> /\ results' = Tail(results) /\ h \in Rpc
  BY QueuePayloads DEF SendResult, PollResult
<1>2. Shrinks(results, results', h.ticket)
  BY <1>1, QueuePayloads, PopShrinks
<1>3. frame \in Frame /\ frame.rpc = h
  BY <1>1 DEF Frame, TypeOK, CoreTypeOK
<1>4. outbound' = outbound \/ outbound' = Append(outbound, frame)
  BY DEF SendResult, SendRpc
<1>5. Payloads(outbound)' = Payloads(outbound) \/ Payloads(outbound)' = Append(Payloads(outbound), h)
  <2>1. Payloads(Append(outbound, frame)) = Append(Payloads(outbound), frame.rpc)
    BY <1>3, QueuePayloads, PayloadsFollow
  <2> QED
    BY <1>3, <1>4, <2>1
<1>6. Grows(Payloads(outbound), Payloads(outbound)', h.ticket)
  BY <1>1, <1>5, QueuePayloads, PushGrows
<1>7. UNCHANGED <<events, tasks, current, lastSent, arrived>>
  BY DEF SendResult, PollResult
<1>8. TicketOrder'
  BY <1>2, <1>6, <1>7, TicketsNat DEF TicketOrder, InFlight, Below, Grows, Shrinks
<1>9. CASE SendRpcStatus(h) = "OK"
  <2>1. Payloads(outbound)' = Append(Payloads(outbound), h)
    <3>1. outbound' = Append(outbound, frame)
      BY <1>9 DEF SendResult, SendRpc
    <3>2. Payloads(Append(outbound, frame)) = Append(Payloads(outbound), frame.rpc)
      BY <1>3, QueuePayloads, PayloadsFollow
    <3> QED
      BY <1>3, <3>1, <3>2
  <2>2. Tickets(Payloads(outbound)') = Tickets(Payloads(outbound)) \cup {h.ticket}
    BY <1>1, <2>1, QueuePayloads, AppendTickets
  <2>3. InFlight' = InFlight
    BY <1>2, <1>7, <2>2 DEF InFlight, Shrinks
  <2> QED
    BY <1>8, <2>3
<1>10. CASE SendRpcStatus(h) # "OK"
  <2>1. outbound' = outbound
    BY <1>10 DEF SendResult, SendRpc
  <2>2. h.ticket = 0 => InFlight' = InFlight
    BY <1>2, <1>7, <2>1 DEF InFlight, Shrinks
  <2>3. h.ticket # 0 => h.ticket \in InFlight /\ InFlight' = InFlight \ {h.ticket}
    BY <1>2, <1>7, <2>1, TicketsNat DEF InFlight, Shrinks, TicketOrder, Below
  <2>4. CASE h.body = "oversize"
    <3>1. Oversize(h.ticket)
      BY <1>1, <2>4, QueuePayloads DEF Oversize
    <3> QED
      BY <1>8, <2>2, <2>3, <3>1 DEF Loses
  <2>5. CASE IsFull(outbound)
    <3>1. Load > QueueCapacity
      BY <1>1, <2>5, QueueCapacityAssumption, QueuePayloads DEF Load, IsFull
    <3> QED
      BY <1>8, <2>2, <2>3, <3>1 DEF Loses
  <2> QED
    BY <1>10, <2>4, <2>5 DEF SendRpcStatus
<1> QED
  BY <1>9, <1>10

\* The frame of a request of the endpoint's own carries no ticket.
LEMMA SendRequestOrder ==
  ASSUME TypeOK, TicketOrder, NEW id \in OwnIds, NEW m \in Methods, NEW b \in Bodies,
         SendRequest(id, m, b)
  PROVE  TicketOrder' /\ InFlight' = InFlight
<1> DEFINE rpc == Request(id, m, b, 0)
           frame == [rpc |-> rpc, messageId |-> nextMessageId]
<1>1. rpc \in Rpc
  BY PayloadTypes, EndpointAssumption
<1>2. rpc.ticket = 0
  BY DEF Request, ZeroRpc
<1>3. frame \in Frame /\ frame.rpc = rpc
  BY <1>1 DEF Frame, TypeOK, CoreTypeOK
<1>4. outbound' = outbound \/ outbound' = Append(outbound, frame)
  BY DEF SendRequest, SendRpc
<1>5. Payloads(outbound)' = Payloads(outbound)
        \/ Payloads(outbound)' = Append(Payloads(outbound), rpc)
  <2>1. Payloads(Append(outbound, frame)) = Append(Payloads(outbound), frame.rpc)
    BY <1>3, QueuePayloads, PayloadsFollow
  <2> QED
    BY <1>3, <1>4, <2>1
<1>6. Grows(Payloads(outbound), Payloads(outbound)', 0)
  BY <1>1, <1>2, <1>5, QueuePayloads, PushGrows
<1>7. UNCHANGED <<events, tasks, current, results, lastSent, arrived>>
  BY DEF SendRequest, brokerVars
<1> QED
  BY <1>6, <1>7, TicketsNat DEF TicketOrder, InFlight, Below, Grows

\* The frame that is handed to the transport has the lowest ticket of all.
LEMMA SendFrameOrder ==
  ASSUME TypeOK, TicketOrder, NEW s \in TransportStatuses, SendFrame(s)
  PROVE  /\ TicketOrder'
         /\ \/ InFlight' = InFlight /\ UNCHANGED lastSent
            \/ /\ lastSent' \in InFlight
               /\ \A u \in InFlight : lastSent' <= u
               /\ InFlight' = InFlight \ {lastSent'}
<1> DEFINE h == Head(outbound).rpc
<1>1. outbound # <<>> /\ outbound' = Tail(outbound)
  BY DEF SendFrame, PopOutbound
<1>2. Shrinks(Payloads(outbound), Payloads(outbound)', h.ticket)
  BY <1>1, QueuePayloads, PayloadsFollow, PopShrinks
<1>3. lastSent' = IF h.ticket > 0 THEN h.ticket ELSE lastSent
  BY DEF SendFrame
<1>4. UNCHANGED <<events, tasks, current, results, arrived>>
  BY DEF SendFrame, PopOutbound, brokerVars
<1>5. TicketOrder'
  BY <1>2, <1>3, <1>4, TicketsNat DEF TicketOrder, InFlight, Below, Shrinks
<1>6. h.ticket \in Nat
  BY <1>1, QueuePayloads DEF Rpc
<1>7. CASE h.ticket = 0
  BY <1>2, <1>3, <1>4, <1>5, <1>7 DEF InFlight, Shrinks
<1>8. CASE h.ticket > 0
  <2>1. lastSent' = h.ticket /\ h.ticket \in InFlight
    BY <1>2, <1>3, <1>8 DEF InFlight, Shrinks
  <2>2. \A u \in InFlight : h.ticket <= u
    BY <1>2, <1>8, TicketsNat DEF InFlight, Shrinks, TicketOrder, Below
  <2>3. InFlight' = InFlight \ {h.ticket}
    BY <1>2, <1>4, <1>8, TicketsNat DEF InFlight, Shrinks, TicketOrder, Below
  <2> QED
    BY <1>5, <2>1, <2>2, <2>3
<1> QED
  BY <1>6, <1>7, <1>8

\* A step that leaves the queues and the history alone keeps the order.
LEMMA StillOrder ==
  ASSUME TicketOrder, UNCHANGED <<events, tasks, current, results, outbound, lastSent, arrived>>
  PROVE  TicketOrder' /\ InFlight' = InFlight
  BY DEF TicketOrder, InFlight

\* What a step may do to the requests inside, seen from outside.
Effect ==
  \/ InFlight' = InFlight /\ UNCHANGED <<arrived, lastSent>>
  \/ Loses /\ UNCHANGED <<arrived, lastSent>>
  \/ /\ arrived' = arrived + 1
     /\ UNCHANGED lastSent
     /\ \/ InFlight' = InFlight \cup {arrived + 1}
        \/ InFlight' = InFlight /\ Load >= QueueCapacity
  \/ /\ lastSent' \in InFlight
     /\ \A u \in InFlight : lastSent' <= u
     /\ InFlight' = InFlight \ {lastSent'}
     /\ UNCHANGED arrived

\* Every step keeps the order and has one of these effects.
LEMMA OrderStep ==
  ASSUME TypeOK, TicketOrder, [Next]_vars
  PROVE  TicketOrder' /\ Effect
<1> DEFINE Still == UNCHANGED <<events, tasks, current, results, outbound, lastSent, arrived>>
<1>1. ASSUME NEW id \in OwnIds, NEW m \in Methods, ReceiveResponse(id, m) PROVE Still
  BY <1>1 DEF ReceiveResponse, CoreOnBytes, OnRequest, OnResponse, Request, Response,
              ZeroRpc, brokerVars, endpointVars
<1>2. ASSUME NEW id \in OwnIds, TakeResponse(id) PROVE Still
  BY <1>2 DEF TakeResponse, TryTakeRpcResponse, brokerVars, endpointVars
<1>3. ASSUME NEW s \in TransportStatuses, Attach(s) PROVE Still
  BY <1>3 DEF Attach, coreVars, brokerVars
<1>4. ASSUME Configure PROVE Still
  BY <1>4 DEF Configure, RegisterMethod, RegisterStreamHandler, coreVars, endpointVars
<1>5. ASSUME StartPoll \/ EnterBroker \/ LeaveBroker \/ EnterFlush \/ EndFlush PROVE Still
  BY <1>5 DEF StartPoll, EnterBroker, BeginPoll, LeaveBroker, EndPoll, EnterFlush, EndFlush,
              coreVars, brokerVars
<1>6. ASSUME UNCHANGED vars PROVE Still
  BY <1>6 DEF vars, coreVars, brokerVars, endpointVars
<1>7. ASSUME Still PROVE TicketOrder' /\ Effect
  BY <1>7, StillOrder DEF Effect
<1>8. ASSUME NEW id \in PeerIds, NEW m \in Methods, ReceiveRequest(id, m)
      PROVE  TicketOrder' /\ Effect
  BY <1>8, ReceiveOrder DEF Effect
<1>9. ASSUME PushStream PROVE TicketOrder' /\ Effect
  BY <1>9, PushStreamOrder DEF Effect, PushStream, endpointVars
<1>10. ASSUME NEW id \in OwnIds, NEW m \in Methods, NEW b \in Bodies, SendRequest(id, m, b)
       PROVE  TicketOrder' /\ Effect
  BY <1>10, SendRequestOrder DEF Effect, SendRequest
<1>11. ASSUME SubmitEvent PROVE TicketOrder' /\ Effect
  BY <1>11, SubmitEventOrder DEF Effect, SubmitEvent
<1>12. ASSUME RunTask PROVE TicketOrder' /\ Effect
  BY <1>12, BeginTaskOrder, EndTaskOrder DEF Effect, RunTask, endpointVars
<1>13. ASSUME SendResult PROVE TicketOrder' /\ Effect
  BY <1>13, SendResultOrder DEF Effect, SendResult
<1>14. ASSUME NEW s \in TransportStatuses, SendFrame(s) PROVE TicketOrder' /\ Effect
  BY <1>14, SendFrameOrder DEF Effect, SendFrame
<1> HIDE DEF Still
<1> QED
  BY <1>1, <1>2, <1>3, <1>4, <1>5, <1>6, <1>7, <1>8, <1>9, <1>10, <1>11, <1>12, <1>13, <1>14
  DEF Next, PollStep, FlushStep

\* No request overtakes another, in any state the endpoint can reach.
THEOREM OrderKept == Spec => []TicketOrder
<1>1. Init => TicketOrder
  BY DEF Init, CoreInit, BrokerInit, NoTask, ZeroRpc, TicketOrder, InFlight, Below, Rising,
         Tickets, Payloads
<1>2. TypeOK /\ TicketOrder /\ [Next]_vars => TicketOrder'
  BY OrderStep
<1> QED
  BY <1>1, <1>2, TypeCorrect, PTL DEF Spec

\* The endpoint implements OrderedAnswers: a peer sees its requests answered
\* in order, at most once each, whatever the queues, the handlers and the
\* transport do.
THEOREM Implementation == Spec => ImplementsOrderedAnswers
<1>1. Init => Service!AnswersInit
  BY DEF Init, CoreInit, BrokerInit, NoTask, ZeroRpc, InFlight, Tickets, Payloads,
         Service!AnswersInit
<1>2. TypeOK /\ TicketOrder /\ [Next]_vars => [Service!AnswersNext]_(Service!answerVars)
  <2> SUFFICES ASSUME TypeOK, TicketOrder, [Next]_vars
               PROVE  [Service!AnswersNext]_(Service!answerVars)
    OBVIOUS
  <2>1. Effect
    BY OrderStep
  <2>2. CASE InFlight' = InFlight /\ UNCHANGED <<arrived, lastSent>>
    BY <2>2 DEF Service!answerVars
  <2>3. CASE Loses /\ UNCHANGED <<arrived, lastSent>>
    <3>1. PICK t \in InFlight : InFlight' = InFlight \ {t}
      BY <2>3, Zenon DEF Loses
    <3>2. Service!Drop(t)
      BY <2>3, <3>1 DEF Service!Drop
    <3> QED
      BY <3>2 DEF Service!AnswersNext
  <2>4. CASE arrived' = arrived + 1 /\ UNCHANGED lastSent
               /\ InFlight' = InFlight \cup {arrived + 1}
    BY <2>4 DEF Service!AnswersNext, Service!TakeIn
  <2>5. CASE arrived' = arrived + 1 /\ UNCHANGED lastSent /\ InFlight' = InFlight
    BY <2>5 DEF Service!AnswersNext, Service!TurnAway
  <2>6. CASE /\ lastSent' \in InFlight
             /\ \A u \in InFlight : lastSent' <= u
             /\ InFlight' = InFlight \ {lastSent'}
             /\ UNCHANGED arrived
    <3>1. Service!Answer(lastSent')
      BY <2>6 DEF Service!Answer
    <3> QED
      BY <2>6, <3>1 DEF Service!AnswersNext
  <2> QED
    BY <2>1, <2>2, <2>3, <2>4, <2>5, <2>6 DEF Effect
<1> QED
  BY <1>1, <1>2, TypeCorrect, OrderKept, PTL
  DEF Spec, ImplementsOrderedAnswers, Service!AnswersSpec

\* A peer that stays within the capacity of one queue loses no request.
THEOREM WithinCapacity == Spec => NoLossWithinCapacity
<1>1. TypeOK /\ TicketOrder /\ [Next]_vars => [LosesOnlyBeyondCapacity]_vars
  <2> SUFFICES ASSUME TypeOK, TicketOrder, [Next]_vars PROVE LosesOnlyBeyondCapacity
    OBVIOUS
  <2>1. Effect
    BY OrderStep
  <2> QED
    BY <2>1 DEF Effect, Loses, LosesOnlyBeyondCapacity
<1> QED
  BY <1>1, TypeCorrect, OrderKept, PTL DEF Spec, NoLossWithinCapacity

-----------------------------------------------------------------------------
(* The pending table.                                                      *)

\* What may happen to an entry of the pending table.
Forgets(id) ==
  Occurrences(pending', id) < Occurrences(pending, id) =>
    /\ Occurrences(pending', id) = Occurrences(pending, id) - 1
    /\ Len(responses') = Len(responses) + 1
    /\ responses'[Len(responses')].id = id

LEMMA OccurrencesAre ==
  ASSUME NEW s \in Seq(RequestIds), NEW x
  PROVE  Occurrences(s, x) = CountIn(s, {x}) /\ Occurrences(s, x) \in Nat
<1>1. {i \in DOMAIN s : s[i] = x} = {i \in DOMAIN s : s[i] \in {x}}
  OBVIOUS
<1> QED
  BY <1>1, CountNat DEF Occurrences, CountIn

\* A response that comes in takes the place of one entry of its id.
LEMMA ResponseForgets ==
  ASSUME TypeOK, NEW rpc \in Rpc, OnResponse(rpc), NEW id
  PROVE  Forgets(id)
<1> DEFINE V == {id}
<1>1. pending \in Seq(RequestIds) /\ pending \in Queue(RequestIds) /\ responses \in Seq(Rpc)
  BY DEF TypeOK, CoreTypeOK, Queue
<1>2. Occurrences(pending, id) \in Nat
  BY <1>1, OccurrencesAre
<1>3. CASE IsFull(responses)
  <2>1. pending' = pending
    BY <1>3 DEF OnResponse
  <2> QED
    BY <1>2, <2>1 DEF Forgets
<1>4. CASE ~IsFull(responses)
  <2>1. responses' = Append(responses, rpc) /\ pending' = RemoveFirst(pending, rpc.id)
    BY <1>4 DEF OnResponse
  <2>2. pending' \in Seq(RequestIds)
    BY <1>1, <2>1, RemoveFirstQueue DEF Queue
  <2>3. /\ Occurrences(pending, id) = CountIn(pending, V)
        /\ Occurrences(pending', id) = CountIn(pending', V) /\ Occurrences(pending', id) \in Nat
    BY <1>1, <2>2, OccurrencesAre
  <2>4. \A e : CountIn(pending, V)
                 = CountIn(RemoveFirst(pending, e), V)
                     + (IF e \in V /\ CountIn(pending, {e}) > 0 THEN 1 ELSE 0)
    <3> HIDE DEF V
    <3> QED
      BY <1>1, CountRemoveFirst
  <2>5. /\ Len(responses') = Len(responses) + 1
        /\ responses'[Len(responses')] = rpc
    BY <1>1, <2>1
  <2>6. CASE rpc.id = id
    <3>1. Occurrences(pending, id)
            = Occurrences(pending', id) + (IF CountIn(pending, V) > 0 THEN 1 ELSE 0)
      BY <2>1, <2>3, <2>4, <2>6
    <3> QED
      BY <1>2, <2>3, <2>5, <2>6, <3>1 DEF Forgets
  <2>7. CASE rpc.id # id
    <3>1. Occurrences(pending, id) = Occurrences(pending', id) + 0
      BY <2>1, <2>3, <2>4, <2>7
    <3> QED
      BY <1>2, <2>3, <3>1 DEF Forgets
  <2> QED
    BY <2>6, <2>7
<1> QED
  BY <1>3, <1>4

\* An id stops being pending only in the step that makes a response with that
\* id available (core.c:120-129), one entry per response, whatever is refused,
\* taken or fails to be sent in between.
THEOREM PendingAnswered == Spec => PendingUntilAnswered
<1>1. TypeOK /\ [Next]_vars => [\A id \in OwnIds : Forgets(id)]_vars
  <2> SUFFICES ASSUME TypeOK, Next, NEW id \in OwnIds PROVE Forgets(id)
    OBVIOUS
  <2>1. pending \in Seq(RequestIds) /\ Occurrences(pending, id) \in Nat
    BY OccurrencesAre DEF TypeOK, CoreTypeOK, Queue
  <2>2. CASE UNCHANGED pending
    BY <2>1, <2>2 DEF Forgets
  <2>3. ASSUME NEW i \in OwnIds, NEW m \in Methods, ReceiveResponse(i, m) PROVE Forgets(id)
    <3> DEFINE rpc == Response(Request(i, m, "fits", 0), "SUCCESS", "fits")
    <3>1. rpc \in Rpc
      BY PayloadTypes, EndpointAssumption DEF Bodies, StatusCodes
    <3>2. rpc.op = "REQUEST_RESPONSE"
      BY DEF Response, Request, ZeroRpc
    <3> HIDE DEF rpc
    <3>3. OnResponse(rpc)
      BY <2>3, <3>2 DEF ReceiveResponse, CoreOnBytes, OnRequest, rpc
    <3> QED
      BY <3>1, <3>3, ResponseForgets
  <2>4. ASSUME NEW i \in OwnIds, NEW m \in Methods, NEW b \in Bodies, SendRequest(i, m, b)
        PROVE  Forgets(id)
    <3>1. i \in RequestIds
      BY EndpointAssumption
    <3>2. pending' = pending \/ pending' = Append(pending, i)
      BY <2>4 DEF SendRequest, ExpectRpcResponse
    <3>3. CASE pending' = Append(pending, i)
      <4>1. Append(pending, i) \in Seq(RequestIds)
        BY <2>1, <3>1
      <4>2. CountIn(Append(pending, i), {id})
              = CountIn(pending, {id}) + (IF i \in {id} THEN 1 ELSE 0)
        BY <2>1, <3>1, CountAppend
      <4>3. /\ Occurrences(pending, id) = CountIn(pending, {id})
            /\ Occurrences(pending', id) = CountIn(Append(pending, i), {id})
            /\ Occurrences(pending', id) \in Nat
        BY <2>1, <3>3, <4>1, OccurrencesAre
      <4> QED
        BY <2>1, <4>2, <4>3 DEF Forgets
    <3> QED
      BY <2>2, <3>2, <3>3
  <2>5. ASSUME NEW s \in TransportStatuses, Attach(s) PROVE UNCHANGED pending
    BY <2>5 DEF Attach, coreVars
  <2>6. ASSUME NEW i \in PeerIds, NEW m \in Methods, ReceiveRequest(i, m) PROVE UNCHANGED pending
    <3> DEFINE rpc == Request(i, m, "fits", arrived + 1)
    <3>1. rpc.op = "REQUEST"
      BY DEF Request, ZeroRpc
    <3> HIDE DEF rpc
    <3>2. CoreOnBytes(rpc)
      BY <2>6 DEF ReceiveRequest, rpc
    <3> QED
      BY <3>1, <3>2 DEF CoreOnBytes, OnRequest, OnResponse
  <2>7. ASSUME NEW i \in OwnIds, TakeResponse(i) PROVE UNCHANGED pending
    BY <2>7 DEF TakeResponse, TryTakeRpcResponse
  <2>8. ASSUME Configure \/ PushStream \/ StartPoll PROVE UNCHANGED pending
    BY <2>8 DEF Configure, PushStream, StartPoll, coreVars
  <2>9. ASSUME PollStep PROVE UNCHANGED pending
    BY <2>9 DEF PollStep, SubmitEvent, PollEvent, EnterBroker, RunTask, LeaveBroker, SendResult,
                EnterFlush, coreVars
  <2>10. ASSUME FlushStep PROVE UNCHANGED pending
    BY <2>10 DEF FlushStep, EndFlush, SendFrame, PopOutbound, coreVars
  <2> QED
    BY <2>2, <2>3, <2>4, <2>5, <2>6, <2>7, <2>8, <2>9, <2>10 DEF Next
<1> QED
  BY <1>1, TypeCorrect, PTL DEF Spec, PendingUntilAnswered, Forgets

=============================================================================
