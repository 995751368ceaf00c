\* A process that reads, one that writes and prints; two characters are typed.
SPECIFICATION FairSpec
CONSTANTS
  CPU = {c1, c2}
  NoCpu = NoCpu
  Plain = {"x"}
  Typing = {"x", "nl", "^D", "^H", "^U"}
  INPUT_BUF_SIZE = 2
  UintMod = 4
  MaxTyped = 2
  MaxPrinted = 1
  ReadLen = {1, 2}
  WriteLen = {2}
  RxFifo = 1
  FirstIndex = 3
  Readers = {c1}
  Writers = {c2}
  Printers = {c1}
INVARIANTS  SleepersHaveReason
PROPERTIES ConsoleIsLineQueue WriteFinishes
CHECK_DEADLOCK FALSE
