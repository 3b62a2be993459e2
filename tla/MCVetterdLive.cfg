CONSTANTS
  r1 = r1
  r2 = r2
  r3 = r3
  k1 = k1
  w1 = w1
  Requests <- Pair
  NoRequest = NoRequest
  Rules <- OneRule
  NoRule = NoRule
  Session = {}
  Covers <- CoversAll
  Denied = {r2}
  Writers = {w1}
  Clis = {}
  RuleJobs <- AddOnly
  DryRun = {}
  Unparseable = {}
  ResolvedCap = 2
  MaxInflight = 1
  DiskFull = {}
  MaxStarts = 1
  Drivers = {"none", "glib", "appkit"}
SPECIFICATION FairVetterdSpec
PROPERTIES
  VerdictEndsWait
  WritesEnd
  ShutdownFreesClients
  RefusalsNeedNoHuman
CHECK_DEADLOCK FALSE
