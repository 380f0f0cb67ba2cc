CONSTANTS
  Mode <- MCMode
  DefaultMode = "wait_for_ack_inline"
  Parts <- MCParts
  Todo = "TODO_REVIEW"
  None = None
  Measure <- MCMeasure
  Blocking <- MCBlocking
  Doc <- MCDoc
  Text <- MCText
  WordDoc <- MCWordDoc
  Conversion <- MCConversion
  Written = {"A", "B", "C"}
  InShape = {"NB", "NC"}
  Rewriting = {"NA", "NB", "NC", "XB"}
  MaxEdits = 2
  MaxWritings = 1
SPECIFICATION Spec
INVARIANTS GateIsExact UnchangedIsFaithful RecordedWasReviewed PromotedFsmsAreTheDlds LastNoteIsKept
CHECK_DEADLOCK FALSE
