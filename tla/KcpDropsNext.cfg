SPECIFICATION Spec
CONSTANTS
  Segs = 8
  Last <- MCLast
  GapTicks = 2
PROPERTY
  CostsOnlyItsOwn
