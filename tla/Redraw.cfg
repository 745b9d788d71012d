SPECIFICATION RedrawSpec
CONSTANTS
  Clients = {c1}
  MaxScene = 4
  MaxFailures = 1
  FrameWidth = 3
  FrameHeight = 2
  U32Max = 15
  MaxPixels = 24
  Requests <- MCRequests
INVARIANT NothingForgotten
PROPERTIES CaptureIsFresh CaptureShowsRegion SceneShown CallbackSent
CHECK_DEADLOCK FALSE
