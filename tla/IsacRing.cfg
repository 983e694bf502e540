SPECIFICATION Spec
CONSTANTS
  RingSz = 3
  MaxDrain = 2
  W32 = 4
  Lens = {1, 2}
  AllocFails = TRUE
  MaxPub = 7
INVARIANTS TypeOK UnreadIntact DropsAccounted
PROPERTIES DrainFresh ChannelSpec
