CONSTANTS
  None = None
  Timeouts <- ShortTimeouts
  DefaultTimeout = 2
  MaxCommands = 4
  MaxConfigs = 1
SPECIFICATION FairSpec
INVARIANT NeverExpiresEarly
PROPERTIES LosesOnlyAtExpiry  ArmedEnds QueueIsServed
CHECK_DEADLOCK FALSE
