CONSTANTS
  HeadSize = 2
  READ_BUF_SIZE = 3
  DataLens = {0, 1, 4}
  MaxMessages = 3
  CloseKinds = {"fin", "rst"}
SPECIFICATION FairSpec
CHECK_DEADLOCK FALSE
INVARIANTS
  InBounds
  BytesConserved
  FrontIsHead
  NothingLeftBehind
PROPERTIES
  ChannelSpec
  EveryMessageDelivered
