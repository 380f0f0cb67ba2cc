CONSTANTS
  None = None
  SrcDld = TRUE
  AgentCmd = TRUE
  Hangs = TRUE
  Edits = TRUE
  EditsInRun = FALSE
  DryRuns = FALSE
  ByHand = TRUE
  Emits = FALSE
  MaxId = 2
SPECIFICATION Spec
INVARIANT CachedVerdictsStand
PROPERTIES CompleteMeansAllHold OnePath NothingClearedUnread 
CHECK_DEADLOCK FALSE
