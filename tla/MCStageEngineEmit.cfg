CONSTANTS
  None = None
  SrcDld = FALSE
  AgentCmd = TRUE
  Hangs = FALSE
  Edits = FALSE
  EditsInRun = FALSE
  DryRuns = FALSE
  ByHand = TRUE
  Emits = TRUE
  MaxId = 2
SPECIFICATION FairSpec
PROPERTY ReviewersFindingsStand
CHECK_DEADLOCK FALSE
