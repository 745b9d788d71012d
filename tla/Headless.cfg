SPECIFICATION Spec
CONSTANTS
  Readers = {r1}
  Pollers = {p1, p2}
  Sizes = {1, 2}
  NUM_BUFFERS = 3
  MaxFrames = 3
  MaxConfigs = 2
SYMMETRY PollerSymmetry
INVARIANTS TypeOK NoTornCapture
PROPERTIES CaptureIsLatest SkewNeedsReconfiguration PollReturnsNewFrame
CHECK_DEADLOCK FALSE
