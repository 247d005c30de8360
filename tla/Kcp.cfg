SPECIFICATION FairSpec
CONSTANTS
  Segs = 8
  Last <- MCLast
  GapTicks = 2
INVARIANTS
  WholeMessages
  InOrder
  NoSilentLoss
PROPERTIES
  NoStall
