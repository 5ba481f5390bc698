SPECIFICATION Spec
CONSTANTS
    n1 = n1  n2 = n2  d1 = d1  d2 = d2  h1 = h1  h2 = h2  h3 = h3  t1 = t1  t2 = t2
    None = None
    NoValue = None
    ZeroHash = ZeroHash
    Debuggers = {d1, d2}
    Workers = {w1, w2}
    Hashes = {h1, h2, h3}
    Heights = {1, 2}
    Txs = {t1}
    Blocks <- MCBlocks
    Keys <- MCKeys
    Scenarios <- MCScenarios
SYMMETRY WorkerSymmetry
CHECK_DEADLOCK FALSE
INVARIANTS
    SnapshotsArePast RowIsCurrent FaithfulRelay  ListedOnce PanicsOnlyOnDisorder
