SPECIFICATION Spec
CONSTANTS
  s1 = s1
  s2 = s2
  None = None
  Stems <- OneStem
  NFiles = 1
  StemOf <- OneInput
  StreamFiles <- NoFiles
  HangupCancels = FALSE
  LocalStems <- NoPlaces
  NewStems <- NoPlaces
  KeysAtFirst <- AbsentOrLocal
  Downloads <- NoneOrNew
  OptionSets <- DiskLines
  EarlierPlaces <- OnePlace
  Streams <- VideoAndAudio
  ReplaceMayFail = TRUE
  DeleteMayFail = TRUE
  MayHangUp = FALSE
  MaxRuns = 2
  MaxKills = 1
  MaxCommands = 1
  MaxPolls = 0
INVARIANTS
  ClearsIntermediates
PROPERTIES
  KeepsPromise
