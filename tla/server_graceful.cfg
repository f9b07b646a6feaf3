CONSTANTS
  Conns = {c1, c2}
  Handles = {h1, h2}
  Threads = {t1}
  FD_SETSIZE = 2
  MaxRequests = 1
  CloseKinds = {"fin"}
  EagerReuse = FALSE
  NoConn = NoConn
  NoHandle = NoHandle
  NoThread = NoThread
SPECIFICATION FairSpec
PROPERTIES
  RequestsAnswered
