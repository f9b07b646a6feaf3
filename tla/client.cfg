SPECIFICATION FairSpec
CONSTANTS
  MaxSockets = 3
  MaxMessages = 2
  MaxReplies = 1
  SendParts = 2
  ReplySize = 2
  CloseKinds = {"fin", "rst"}
INVARIANTS
  OneSocketOpen
  SentOnceInOrder
PROPERTIES
  LossEndsInReconnect
CHECK_DEADLOCK FALSE
