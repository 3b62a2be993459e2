CONSTANTS
  r1 = r1
  r2 = r2
  r3 = r3
  k1 = k1
  w1 = w1
  Requests <- Trio
  NoRequest = NoRequest
  Rules <- OneRule
  NoRule = NoRule
  Session = {}
  Covers <- CoversAll
  Denied = {}
  Writers = {}
  Clis = {}
  RuleJobs <- AddOnly
  DryRun = {}
  Unparseable = {r2}
  ResolvedCap = 1
  MaxInflight = 1
  DiskFull = {r1}
  MaxStarts = 2
  Drivers = {"glib"}
SPECIFICATION VetterdSpec
INVARIANTS
  VetterdTypeOK
  SlotsMatchWorkers
  OneStory
CHECK_DEADLOCK FALSE
