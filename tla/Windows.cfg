SPECIFICATION Spec
CONSTANTS
    Windows = {w1, w2, w3}
    Buttons = {left, right}
    LeftButton = left
    None = none
    MaxMinimized = 2
SYMMETRY WindowSymmetry
INVARIANTS FocusIsShown EveryWindowReachable UserDragNeedsButton
PROPERTY TwoIdsOnlyByDragging
CHECK_DEADLOCK FALSE
