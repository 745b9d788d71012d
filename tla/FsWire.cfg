SPECIFICATION FairSpec
CONSTANTS
    Names = {1, 2, 3}
    FrameNames = 2
    Page = 1
    Buffer = 2
    Huge = 5
    MaxCalls = 4
    MaxEdits = 1
INVARIANTS AnswerIsTrue ListingIsComplete
PROPERTIES ActsWhileAwaited EveryCallEnds
CHECK_DEADLOCK FALSE
