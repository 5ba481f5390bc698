SPECIFICATION Spec
CONSTANTS
    a1 = a1
    a2 = a2
    Addrs <- MCAddr
    MaxCns = 2
    MaxPayload = 4
    MaxEpoch = 3
INVARIANTS ReferencesResolve MessageHasItsBlob
PROPERTIES OnlyLastLost
CHECK_DEADLOCK FALSE
