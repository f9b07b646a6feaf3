SPECIFICATION FairSpec
CONSTANTS
  MaxMessages = 3
  SendParts = 2
  SendBuffer = 2
  MaxArrivals = 3
  CloseKinds = {"fin", "rst"}
INVARIANTS
  TypeOK
  NoHoleOnTheWire
  DeliveredOnceInOrder
PROPERTIES
  LossEndsDetection
  LossEndsSend
  ArrivalsDelivered
CHECK_DEADLOCK FALSE
