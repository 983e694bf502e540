SPECIFICATION PFairSpec
CONSTANTS
  RingSz = 2
  MaxDrain = 2
  W32 = 3
  Lens = {1}
  AllocFails = TRUE
  MaxPub = 4
  Subs = {"x1", "x2"}
  RicThreads = 2
INVARIANTS RecordedOnce DropsDated LostSeqExact
PROPERTIES EverySnapshotSettles
