CONSTANTS
  f1 = f1
  RESET = RESET
  IDLE = IDLE
  WAIT = WAIT
  i1 = i1
  i2 = i2
  None = None
  Fsm = {f1}
  State = {RESET, IDLE, WAIT}
  Constructed <- Reset
  Template <- Templates
  Inst = {i1, i2}
  MaxTime = 2
  MaxSets = 4
SPECIFICATION Spec
INVARIANTS OccupancyIsMeasured RulingSettles
CHECK_DEADLOCK FALSE
