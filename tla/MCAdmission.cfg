SPECIFICATION AdmissionSpec
CONSTANTS
  x1 = x1
  x2 = x2
  Adders <- MCAdders
  Setups <- MCSetups
  UrlOf <- MCUrlOf
  HeaderOf <- MCHeaderOf
  MethodOf <- MCMethodOf
  CertOf <- MCCertOf
  PathOf <- MCPathOf
  Cwd <- MCCwd
  IpHosts <- MCIpHosts
  LoopbackIps <- MCLoopbackIps
  IdnHosts <- MCIdnHosts
  OddHosts <- MCOddHosts
  Builtin <- MCBuiltin
INVARIANTS
  ShownIsWritten
  GlobAgrees
  PillMatchesSignal
  HintsFresh
PROPERTIES
  ShownIsRead
CHECK_DEADLOCK FALSE
