SPECIFICATION Spec
CONSTANTS
    Names = {a, b}
    MaxInodes = 4
    MaxObjects = 3
    MaxRenames = 1
    MaxMoves = 1
INVARIANTS NameIsPathUntilRename OpenFileIsReached
CHECK_DEADLOCK FALSE
SYMMETRY NameSymmetry
