CONSTANTS
  t0 = t0
  t1 = t1
  a = a
  b = b
  c = c
  None = None
  Tenant = {t0, t1}
  Sq = {a, c}
  TenantOf <- MCTenantOf
  Workload <- TwoForOne
  QosRequests = 1
  QosHost = {t0}
  ReadyHost = TRUE
  Limit = 1
  Depth = 1
SPECIFICATION FairSpec
INVARIANT NothingLostOrOvertaken
PROPERTY PipelineDrains
CHECK_DEADLOCK FALSE
