SPECIFICATION Spec
CONSTANTS
  SnMod = 4
  Start = 3
  N = 3
  Sizes = {2}
  PollDue = {TRUE, FALSE}
  DataCap = 2
  StatusCap = 1
  MaxLoss = 2
  ShortGrant = TRUE
  EarlyPoll = TRUE
  EarlyReassembly = TRUE
INVARIANTS AckedDeliveredOnce NothingForgotten WindowsAgree PollHeadExists
CHECK_DEADLOCK FALSE
