SPECIFICATION FairSpec
CONSTANTS
  Conns = {stdio}
  OutCap = 2
  Shapes <- PoliteShapes
  MaxLines = 3
INVARIANT AnswersMatch
PROPERTIES ImplementsCallService EveryRequestAnswered
CHECK_DEADLOCK FALSE
