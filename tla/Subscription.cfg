SPECIFICATION Spec
CONSTANTS
  XApps = {7, 8}
  FirstReq = 1021
  MaxProc = 2
  RicThreads = 2
  Shared = FALSE
  Prompt = FALSE
INVARIANTS AnswersMatchCalls NoOrphan QuietAgrees
CHECK_DEADLOCK FALSE
