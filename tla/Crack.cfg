SPECIFICATION Spec
CONSTANTS
  HeadBlocks = 2
  MinMasked = 4
  Column = 7
  Weight = 1
  Key <- MCKey
  Misleads <- MCMisleads
  Files <- MCFiles
  Pad <- MCPad
  SampleBlocks = 6
  MinSampleBlocks = 3
  CheckEvery = 2
INVARIANTS
  StatsAreSound
  SolvesAKeysMask
  AcceptedIsRight
  VideoIsPlain
CHECK_DEADLOCK FALSE
