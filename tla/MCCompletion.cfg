CONSTANTS
  t1 = t1
  t2 = t2
  None = None
  Tenant = {t1, t2}
  Axis <- MCAxis
  Kind <- MCKind
  Cost <- MCCost
  Command <- MCCommand
  TenantOf <- MCTenantOf
  KindOf <- MCKindOf
  NextCommand <- MCNextCommand
  InitialOrder <- MCInitialOrder
  InitialTokens <- MCInitialTokens
  Depth = 2
  Grants = {1, 2}
  ShortGrants = FALSE
  LiveHost = {t1, t2}
  ReadyHost = TRUE
SPECIFICATION FairSpec
INVARIANTS EligibleSetIsCurrent NoLostWakeUp SelectedHeadIsStable TokensNeverNegative
PROPERTIES SpendsOnlyWhatItPops ServiceKept EventuallyCompletes
CHECK_DEADLOCK FALSE
