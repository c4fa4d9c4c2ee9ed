\* Three methods, one of them unknown to the registry, against a table of two
\* handlers and queues of one.
SPECIFICATION BrokerSpec
CONSTANTS
  QueueCapacity = 1
  RequestIds = {1}
  Methods = {1, 2, 3}
  Registry = {1, 2}
  HandlerCapacity = 2
  RawStatuses = {"SUCCESS"}
  PollBatch = 2
INVARIANTS BrokerTypeOK HandlersUnique ServedMeansAnswered
CHECK_DEADLOCK TRUE
