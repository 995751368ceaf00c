SPECIFICATION FairSpec
CONSTANTS
  Proc = {p1, p2, p3}
  None = None
  NUM = 8
  IdxMod = 16
INVARIANTS ChainsDisjoint DoneMeansServed
PROPERTIES RequestsFinish
