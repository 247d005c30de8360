SPECIFICATION FairSpec
CONSTANTS
  s1 = s1
  s2 = s2
  None = None
  Stems <- MCStems
  NFiles = 2
  StemOf <- MCInputs
  StreamFiles <- MCStreamFiles
  HangupCancels = FALSE
  LocalStems <- NoPlaces
  NewStems <- MCStems
  KeysAtFirst <- BrokenOrLocal
  Downloads <- NewOnly
  OptionSets <- EncodeLine
  EarlierPlaces <- NoPlaces
  Streams <- Video
  ReplaceMayFail = FALSE
  DeleteMayFail = FALSE
  MayHangUp = TRUE
  MaxRuns = 1
  MaxKills = 0
  MaxCommands = 3
  MaxPolls = 1
INVARIANTS
  TypeOK
  SkipHitsItsTarget
  SkipIsHeeded
  CancelIsHeeded
  AsksOnce
PROPERTIES
  OverwriteNeedsYes
  KeepsPromise
  Ends
