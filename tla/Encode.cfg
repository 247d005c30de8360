SPECIFICATION FairSpec
CONSTANTS
  Frames = 4
  StdinRoom = 1
  StderrRoom = 1
  ChanRoom = 1
  MayCrash = TRUE
INVARIANTS
  TrueMeansWhole
  ResultArrives
  QuietWhenOver
  NoCircle
PROPERTIES
  Ends
