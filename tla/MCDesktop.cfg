CONSTANTS
  r1 = r1
  r2 = r2
  Requests <- MCRequests
  Past = {}
  Ids <- MCRequests
  IdOf <- MCIdOf
  NoRequest = NoRequest
  Verdicts = {"allow"}
  NoVerdict = NoVerdict
  ResolvedCap = 1
  UnknownHost <- MCRequests
  MaxTokens = 1
  MaxBacklog = 0
  Rank <- MCRank
  MaxMenu = 1
  MaxAsks = 3
  Setups <- MCSetups
SPECIFICATION DesktopSpec
INVARIANTS
  DesktopTypeOK
  MapIsPairing
  SurfacesCatchUp
  RaiseAnswerBounded
PROPERTIES
  CloseOnlyResolved
  ClickDecidesShown
  SectionsFollowCards
  BannersComeDown
CHECK_DEADLOCK FALSE
