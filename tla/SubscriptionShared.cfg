SPECIFICATION Spec
CONSTANTS
  XApps = {7, 8}
  FirstReq = 1021
  MaxProc = 2
  RicThreads = 2
  Shared = TRUE
  Prompt = TRUE
INVARIANTS AnswersMatchCalls
CHECK_DEADLOCK FALSE
