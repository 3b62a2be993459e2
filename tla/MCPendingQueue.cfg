CONSTANTS
  r1 = r1
  r2 = r2
  r3 = r3
  p1 = p1
  i1 = i1
  i2 = i2
  Requests <- MCRequests
  Past <- MCPast
  Ids <- MCIds
  IdOf <- MCIdOf
  NoRequest = NoRequest
  NoVerdict = NoVerdict
  Verdicts = {"allow", "deny"}
  ResolvedCap = 2
  Sessions <- MCSessions
SPECIFICATION Spec
CHECK_DEADLOCK FALSE
INVARIANTS
  QueueTypeOK
  SenderHeldOnce
  HistoryMatchesAnswer
  OneBannerPerBurst
  PopoverCatchesUp
PROPERTIES
  FirstVerdictWins
  ClicksActOnTheirCard
