CONSTANTS
  r1 = r1
  r2 = r2
  i1 = i1
  i2 = i2
  None = None
  Torn = Torn
  Run = {r1, r2}
  Ip = {i1, i2}
  MaxVersion = 2
  MaxCrashes = 2
  Forces = FALSE
  Staggered = TRUE
  EditsInRun = FALSE
  Stages = 2
  Optional = {1}
SPECIFICATION FairSpec
INVARIANTS LockIsHeld CopyIsCurrent RecordedWasRun
PROPERTY EditsAreProcessed
CHECK_DEADLOCK FALSE
