SPECIFICATION FairSpec
CONSTANTS
  SnMod = 6
  Start = 5
  N = 3
  Sizes = {2}
  PollDue = {FALSE}
  DataCap = 1
  StatusCap = 1
  MaxLoss = 2
  ShortGrant = FALSE
  EarlyPoll = FALSE
  EarlyReassembly = FALSE
INVARIANTS GapWatched
PROPERTIES EverySduAcked
CHECK_DEADLOCK FALSE
