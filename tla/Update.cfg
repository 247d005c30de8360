SPECIFICATION Spec
CONSTANTS
  NFiles = 3
  Exe = 2
  Added <- MCAdded
  MayOverlap = TRUE
  MaxRuns = 3
  MaxKills = 2
INVARIANTS
  InstalledIsNew
  FailureRestores
  NothingLost
PROPERTIES
  OnlyVerified
