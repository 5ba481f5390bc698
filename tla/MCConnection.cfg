SPECIFICATION Spec
CONSTANTS
    Modes <- MCModes
    MaxData = 1
    MaxStream = 2
    Nums <- MCNums
    Odd <- MCOdd
    Even <- MCEven
    ResetCap = 1
    MplexFrames = 5
    YamuxFrames = 4
    MaxChunk = 5
INVARIANTS
    InnerIsAgreed PayloadKept DecryptsAll StoredInOrder DirectionIsRight
    StatusIsRight  DeadIsGoneExcept
CHECK_DEADLOCK FALSE
