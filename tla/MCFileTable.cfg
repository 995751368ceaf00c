SPECIFICATION FairSpec
CONSTANTS
  Proc = {p1, p2}
  initproc = p1
  Pipe = {k1}
  NFILE = 3
  NOFILE = 2
INVARIANTS RefsExact EndsExact
PROPERTIES EndsClose
