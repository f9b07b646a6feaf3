CONSTANTS
  Threads = {t1, t2}
  MaxTasks = 5
SPECIFICATION FairSpec
CHECK_DEADLOCK FALSE
INVARIANTS
  TasksInOrder
  NeverWokenInVain
PROPERTIES
  SignalledTaskRuns
