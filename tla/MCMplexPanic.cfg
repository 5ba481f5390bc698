SPECIFICATION Spec
CONSTANTS
    Nums <- MCNums
    MaxFrames = 5
    MaxChunk = 5
INVARIANT CannotFail
CHECK_DEADLOCK FALSE
