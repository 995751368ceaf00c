SPECIFICATION FairSpec
CONSTANTS
  Proc = {p1, p2}
  None = None
  Block = {b1, b2, b3}
  Val = {0, 1}
  NBUF = 2
  MaxPinned = 1
CHECK_DEADLOCK FALSE
INVARIANTS OneCopy
PROPERTIES CacheIsStore SleeperServed
