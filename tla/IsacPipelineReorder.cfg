SPECIFICATION PSpec
CONSTANTS
  RingSz = 2
  MaxDrain = 2
  W32 = 4
  Lens = {1}
  AllocFails = FALSE
  MaxPub = 6
  Subs = {"x1"}
  RicThreads = 2
INVARIANTS NoLossUnlessOutrun
