SPECIFICATION FairSpec
CONSTANTS
  NConns = 2
  VideoKeys <- MCKeys
  RecoveryTries = 2
  WaitRoom = 2
  Streams <- MCStreams
  AtOnce <- MCAtOnce
  NumberOf <- MCNumbers
  NFiles = 2
  Opens <- MCOpens
  Fragile = {2}
  MayLinger = FALSE
  MayInterrupt = TRUE
  MaxQueue = 1
INVARIANTS
  EveryKeyReported
  NothingUnsaid
  FilesMatched
PROPERTIES
  FoundIsReported
