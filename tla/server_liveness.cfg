CONSTANTS
  Conns = {c1, c2}
  Handles = {h1, h2}
  Threads = {t1, t2}
  FD_SETSIZE = 2
  MaxRequests = 2
  CloseKinds = {"rst"}
  EagerReuse = FALSE
  NoConn = NoConn
  NoHandle = NoHandle
  NoThread = NoThread
SPECIFICATION FairSpec
PROPERTIES
  RequestsAnswered
  HangUpsReaped
