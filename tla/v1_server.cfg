CONSTANTS
  Conns = {c1, c2}
  Handles = {h0, h1, h2}
  ListenHandle = h0
  Threads = {t1}
  MainThread = main
  MaxTasks = 2
  MaxRequests = 2
  CloseKinds = {"fin", "rst"}
  Listener = Listener
  NoConn = NoConn
  NoHandle = NoHandle
SPECIFICATION Spec
SYMMETRY Symmetry
INVARIANTS
  StaleOnlyIfTainted
  HealthyNeverClosed
  PolledHandlesOpen
  MessagesConserved
  CloseFreesBoth

  
CHECK_DEADLOCK FALSE
