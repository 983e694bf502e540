SPECIFICATION FairSpec
CONSTANTS
  NumThreads = 2
  Batch = 2
  Rounds = 2
  NTasks = 3
  Stops = TRUE
INVARIANTS ExactlyOnce NoLostWakeup
PROPERTIES EveryTaskRuns StopTerminates
CHECK_DEADLOCK FALSE
