SPECIFICATION Spec
CONSTANTS
  DefaultElm = 2
  W32 = 16
  Task = {"t1", "t2"}
  Batch = 3
  MaxCap = 8
INVARIANTS TypeOK SlotsInUse
PROPERTIES FifoSpec

