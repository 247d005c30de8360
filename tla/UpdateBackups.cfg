SPECIFICATION Spec
CONSTANTS
  NFiles = 3
  Exe = 2
  Added <- MCAdded
  MayOverlap = FALSE
  MaxRuns = 2
  MaxKills = 0
INVARIANT
  BackupsKept
