SPECIFICATION Spec
CONSTANTS
    Rands = {r1, r2}
    Parts <- MCParts
    None = None
    Batch = 1
    SeedCap = 1
    MaxRows = 2
    MaxNo = 2
PROPERTY LookupReturns
