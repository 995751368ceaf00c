\* Operations that write two of three blocks, two of them at a time in the log, and
\* power that may fail at any step.
SPECIFICATION FairSpec
CONSTANTS
  Proc = {p1, p2}
  Block = {b1, b2, b3}
  Val = {0, 1}
  MAXOPBLOCKS = 3
  LOGBLOCKS = 6
  NBUF = 6
  OpBlocks = 2
  Crashes = TRUE
INVARIANTS  SyncDurable
PROPERTIES LogIsAtomic 
