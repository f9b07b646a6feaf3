SPECIFICATION FairSpec
CONSTANTS
  MaxSockets = 3
  MaxMessages = 0
  MaxReplies = 2
  SendParts = 1
  ReplySize = 2
  CloseKinds = {"fin", "rst"}
INVARIANTS
  NothingReadIsLost
  RepliesWhole
PROPERTIES
  RepliesDelivered
CHECK_DEADLOCK FALSE
