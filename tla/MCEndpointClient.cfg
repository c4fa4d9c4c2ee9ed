\* An endpoint that asks: two ids of its own (any may be sent again, a response to
\* any may arrive at any time), one inbound request, queues of two.
SPECIFICATION Spec
CONSTANTS
  QueueCapacity = 2
  RequestIds = {1, 2}
  Methods = {1}
  Registry = {1}
  HandlerCapacity = 1
  RawStatuses = {}
  PollBatch = 2
  MaxMessageId = 1
  OwnIds = {1, 2}
  PeerIds = {1}
  MaxArrivals = 1
PROPERTIES PendingUntilAnswered OkMeansFlushed
CHECK_DEADLOCK TRUE
