SPECIFICATION FairSpec
CONSTANTS
  XApps = {7}
  FirstReq = 1021
  MaxProc = 2
  RicThreads = 2
  Shared = FALSE
  Prompt = TRUE
INVARIANTS NoAssertFails
PROPERTIES CallsReturn DeadCleaned
CHECK_DEADLOCK FALSE
