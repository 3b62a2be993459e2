CONSTANTS
  r1 = r1
  r2 = r2
  r3 = r3
  k1 = k1
  w1 = w1
  Requests <- Solo
  NoRequest = NoRequest
  Rules <- OneRule
  NoRule = NoRule
  Session = {}
  Covers <- CoversAll
  Denied = {}
  Writers = {w1}
  Clis = {}
  RuleJobs <- AddOnly
  DryRun = {}
  Unparseable = {}
  ResolvedCap = 2
  MaxInflight = 2
  DiskFull = {}
  MaxStarts = 1
  Drivers = {"glib"}
SPECIFICATION VetterdSpec
INVARIANT
  NoPendingAllowed
CHECK_DEADLOCK FALSE
