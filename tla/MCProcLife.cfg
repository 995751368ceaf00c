\* init and two more processes, which fork, exit, wait, pause and kill.
SPECIFICATION FairSpec
CONSTANTS
  p1 = p1
  p2 = p2
  p3 = p3
  p4 = p4
  Proc = {p1, p2, p3}
  initproc = p1
  None = None
  Moves = {"fork", "exit", "wait", "pause", "kill", "kill0"}
INVARIANTS NoLostExit ParentAlive
PROPERTIES SlotsComeBack KilledDies
