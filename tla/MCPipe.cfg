SPECIFICATION FairSpec
CONSTANTS
  Writer = {w1, w2}
  Reader = {r1}
  Byte = {0, 1}
  PIPESIZE = 2
  UintMod = 4
  MaxWrite = 3
  Faults = TRUE
CHECK_DEADLOCK FALSE
INVARIANTS SleepersHaveReason
PROPERTIES PipeIsQueue WriteReturns
