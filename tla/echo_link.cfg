SPECIFICATION FairSpec
CONSTANTS
  MaxRequests = 4
  RequestParts = 3
  ReplyParts = 2
  UpSize = 2
  DownSize = 1
INVARIANTS
  TypeOK
PROPERTIES
  EchoSpec
  RequestsAnswered
  WorkerComesBack
CHECK_DEADLOCK FALSE
