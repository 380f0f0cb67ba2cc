CONSTANTS
  p0 = p0
  p1 = p1
  tA = tA
  tB = tB
  tC = tC
  a1 = a1
  b1 = b1
  c1 = c1
  None = None
  Port <- MCPort
  Tenant <- MCTenant
  Sq <- MCSq
  PortOf <- MCPortOf
  TenantOf <- MCTenantOf
  ActivePort <- MCPort
  PortOrder <- MCPortOrder
  TenantOrder <- MCTenantOrder
  SqOrder <- MCSqOrder
  InitialBurst = 2
  Workload <- TwoShared
  BurstUpdate = {}
  LowersBurst = FALSE
  BurstHost = {}
  CreditHost = {tB}
  ReadyHost = TRUE
SPECIFICATION FairSpec
PROPERTIES SearchSucceeds IdleIsQuiet EventuallyIssued PromiseKept
CHECK_DEADLOCK FALSE
