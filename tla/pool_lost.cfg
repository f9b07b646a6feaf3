CONSTANTS
  Threads = {t1}
  MaxTasks = 2
SPECIFICATION FairSpec
CHECK_DEADLOCK FALSE
PROPERTIES
  EveryTaskRuns
