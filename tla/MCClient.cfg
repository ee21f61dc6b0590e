CONSTANTS
  Requests <- TwoRequests
  MaxAsked = 3
  MaxAnswers = 2
SPECIFICATION FairSpec
CHECK_DEADLOCK FALSE
INVARIANTS
  TypeOK
  QueueIsServed
  WorkerOutlivesConnection
PROPERTIES
  RequestLinkSpec
  RequestsAreSent
  ResponsesAreExecuted
  JoinReturns
  FailureEndsWorker
