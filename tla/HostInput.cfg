SPECIFICATION InputSpec
CONSTANTS
  Buttons = {0, 1}
  Keys = {30}
  Flags = {"control"}
  Positions = {1, 2}
  MaxQueue = 2
INVARIANTS NoLostWakeup NothingStuck ClickOnTarget
CHECK_DEADLOCK FALSE
