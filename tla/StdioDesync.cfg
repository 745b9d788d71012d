SPECIFICATION Spec
CONSTANTS
  Conns = {stdio}
  OutCap = 2
  Shapes <- CancelAndRequest
  MaxLines = 3
INVARIANT AnswersMatch
CHECK_DEADLOCK FALSE
