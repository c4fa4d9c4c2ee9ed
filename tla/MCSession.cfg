\* A client that sends up to five requests over three ids (so that two are used
\* twice), queues and transports of two, one frame repeated.
SPECIFICATION Spec
CONSTANTS
  QueueCapacity = 2
  RequestIds = {1, 2, 3}
  Methods = {1}
  MaxMessageId = 1
  MaxRequestId = 3
  MaxSends = 5
  MaxCopies = 1
INVARIANTS PendingAccountsForSends AnswersAreOwn
CHECK_DEADLOCK TRUE
