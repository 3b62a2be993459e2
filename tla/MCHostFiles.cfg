CONSTANTS
  a1 = a1
  a2 = a2
  a3 = a3
  a4 = a4
  AuditRows <- MCRows
  Ui <- MCUi
  SizeOf <- MCSizeOf
  WindowStart = 2
  Daemons <- MCDaemons
  Stops = 2
  None = None
  MaxMoves = 3
  Broken = Broken
SPECIFICATION Spec
CHECK_DEADLOCK FALSE
INVARIANTS
  AckedRowsSurvive
  TailIsNewest
  ServingIsReachable
  
PROPERTIES
  SyncedPrefixKept
