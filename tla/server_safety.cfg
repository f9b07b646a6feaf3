CONSTANTS
  Conns = {c1, c2, c3}
  Handles = {h1, h2, h3}
  Threads = {t1, t2}
  FD_SETSIZE = 2
  MaxRequests = 1
  CloseKinds = {"fin", "rst"}
  EagerReuse = TRUE
  NoConn = NoConn
  NoHandle = NoHandle
  NoThread = NoThread
SPECIFICATION Spec
SYMMETRY Symmetry
INVARIANTS
  NoStalePointer
  OwnerUnlessHurried
  PolledHandlesOpen
  EveryConnReachable
  EveryConnPolled
  RequestsConserved
PROPERTIES
  ServiceSpec
