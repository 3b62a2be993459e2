CONSTANTS
  r1 = r1
  r2 = r2
  r3 = r3
  k1 = k1
  w1 = w1
  Requests <- Pair
  NoRequest = NoRequest
  Rules <- OneRule
  NoRule = NoRule
  Session <- OneRule
  Covers <- CoversAll
  Denied = {}
  Writers = {w1}
  Clis = {}
  RuleJobs <- AddOnly
  DryRun = {r2}
  Unparseable = {}
  ResolvedCap = 2
  MaxInflight = 2
  DiskFull = {}
  MaxStarts = 1
  Drivers = {"glib"}
SPECIFICATION VetterdSpec
INVARIANTS
  PromptsHaveWaiters
PROPERTIES
  ImplementsGate
CHECK_DEADLOCK FALSE
