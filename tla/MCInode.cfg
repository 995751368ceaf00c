\* Two inodes and one name: files are unlinked while open, and their numbers handed out again.
SPECIFICATION FairSpec
CONSTANTS
  None = None
  Proc = {p1, p2}
  Name = {a}
  NInum = 2
  NINODE = 2
  NOFILE = 1
  Crashes = TRUE
INVARIANTS RefsExact OpenFilesLive DiskConsistent
PROPERTIES CallsFinish
