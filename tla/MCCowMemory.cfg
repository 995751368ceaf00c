SPECIFICATION Spec
CONSTANTS
  Proc = {p1, p2}
  initproc = p1
  NoProc = NoProc
  NPages = 2
  Frame = {f1, f2, f3, f4}
  NoFrame = NoFrame
  Value = {0, 1}
  Zero = 0
  Junk = Junk
  Image <- Text
  Syscalls <- Calls
SYMMETRY Sym
INVARIANTS RefcountExact WritableIsPrivate TablesFitSize NoRemap
 
CHECK_DEADLOCK FALSE
