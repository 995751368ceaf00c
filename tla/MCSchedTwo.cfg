\* Two harts, of which the second starts at some time, and two processes.
SPECIFICATION Spec
CONSTANTS
  c0 = c0
  c1 = c1
  CPU = {c0, c1}
  cpu0 = c0
  None = None
  NPROC = 2
  PRIORITY_MAX = 1
  DEFAULT_PRIORITY = 1
  AGING_INTERVAL = 2
  UintMod = 4
  Moves = {"sleep", "exit"}
INVARIANTS OneCpuPerThread LevelOrder
