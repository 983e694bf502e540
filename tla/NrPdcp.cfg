CONSTANTS
  SnMod = 8
  W32 = 32
  TReordering = 1
  MaxJump = 2
  Starts = {6}
  MaxCount = 10
  Used = {0, 1, 2, 3, 6, 7, 8, 9}
  MaxReest = 1
  EarlyPdu = FALSE
SPECIFICATION FairSpec
INVARIANTS TypeOK Genuine StoredMeansTimer
PROPERTIES InOrder NoEarlySkip StoredDelivered
CHECK_DEADLOCK FALSE
