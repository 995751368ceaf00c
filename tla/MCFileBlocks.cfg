SPECIFICATION Spec
CONSTANTS
  Proc = {1, 2}
  NInum = 3
  BSIZE = 2
  NDIRECT = 1
  NINDIRECT = 2
  NBlocks = 7
  MAXOPBLOCKS = 6
  LOGBLOCKS = 12
  Image <- OneFile
  WriteSizes = {5}
  Offsets = {0, 3}
  Writes <- Writers
  Truncates <- Truncaters
  Faults = {1}
  Crashes = TRUE
INVARIANTS BlocksExact OpFits
PROPERTIES BlocksAreBytes
