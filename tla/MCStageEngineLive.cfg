CONSTANTS
  None = None
  SrcDld = FALSE
  AgentCmd = FALSE
  Hangs = FALSE
  Edits = FALSE
  EditsInRun = FALSE
  DryRuns = TRUE
  ByHand = TRUE
  Emits = TRUE
  MaxId = 1
SPECIFICATION FairSpec
PROPERTY EventuallyComplete
CHECK_DEADLOCK FALSE
