CONSTANTS
  Conns = {c1, c2}
  Handles = {h1}
  Threads = {t1, t2}
  FD_SETSIZE = 2
  MaxRequests = 1
  CloseKinds = {"fin", "rst"}
  EagerReuse = TRUE
  NoConn = NoConn
  NoHandle = NoHandle
  NoThread = NoThread
SPECIFICATION Spec
INVARIANTS
  HandledByOwner
