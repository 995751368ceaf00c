\* One hart and two processes that sleep and change their priority.
SPECIFICATION FairSpec
CONSTANTS
  c0 = c0
  c1 = c1
  CPU = {c0}
  cpu0 = c0
  None = None
  NPROC = 2
  PRIORITY_MAX = 1
  DEFAULT_PRIORITY = 1
  AGING_INTERVAL = 2
  UintMod = 8
  Moves = {"sleep", "setpriority"}
PROPERTIES AgingErrorBounded NoStarvation
