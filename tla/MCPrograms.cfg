SPECIFICATION Spec
CONSTANTS
    p1 = p1
    p2 = p2
    a = a
    b = b
    Unknown = Unknown
    DefaultTopic = "coda"
    Pids <- MCPids
    Plans <- MCPlans
    MaxLosses = 1
    MaxQueue = 2
INVARIANTS  BlocksStoredOnce 
CHECK_DEADLOCK FALSE
