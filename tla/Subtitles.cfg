SPECIFICATION FairSpec
CONSTANTS
  p1 = p1
  p2 = p2
  Paths <- MCPaths
  NVersions = 3
  Tree <- MCTree
  SharedIds <- Either
  MaxFaults = 3
INVARIANTS
  TypeOK
  MarkerIsTrue
  UnfinishedIsRetried
PROPERTIES
  Settles
