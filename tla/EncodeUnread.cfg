SPECIFICATION FairSpec
CONSTANTS
  Frames = 2
  StdinRoom = 1
  StderrRoom = 2
  ChanRoom = 1
  MayCrash = FALSE
PROPERTY
  WorkerExits
CHECK_DEADLOCK FALSE
