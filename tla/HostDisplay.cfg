SPECIFICATION FairSpec
CONSTANTS
  Readers = {r1}
  Sizes = {1, 2}
  NUM_SURFACES = 4
  MaxFrames = 4
  MaxConfigs = 2
INVARIANTS ShownIsUntouched CaptureIsWhole
PROPERTIES ImplementsFrameService RowsExist LastFrameShown
CHECK_DEADLOCK FALSE
