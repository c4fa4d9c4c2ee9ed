\* An endpoint that answers: four inbound requests and streams against queues
\* of two, a table of one handler, two tasks per poll; fair polls.
SPECIFICATION FairSpec
CONSTANTS
  QueueCapacity = 2
  RequestIds = {1}
  Methods = {1}
  Registry = {1}
  HandlerCapacity = 1
  RawStatuses = {}
  PollBatch = 2
  MaxMessageId = 2
  OwnIds = {}
  PeerIds = {1}
  MaxArrivals = 4
INVARIANTS TypeOK TicketOrder
PROPERTIES ImplementsOrderedAnswers NoLossWithinCapacity CallsReturn RequestsLeave
CHECK_DEADLOCK TRUE
