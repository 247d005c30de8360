SPECIFICATION FairSpec
CONSTANTS
  Procs = {"p", "q"}
  Ports <- MCPorts
  MaxStarts = 2
  MaxFaults = 1
INVARIANTS
  StartsClean
  LeavesNothing
  DeafIsTemporary
  RealtimeSound
PROPERTIES
  DeafIsLoud
CHECK_DEADLOCK FALSE
