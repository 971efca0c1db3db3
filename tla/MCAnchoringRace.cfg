CONSTANTS
    Records = {1}
    Workers = {w1, w2}
    Tickers = {w1, w2}
    Batches = {b1, b2}
    NoBatch = NoBatch
    NoAnchor = NoAnchor
    NoClient = NoClient
    Deletable = {}
    BatchSize = 2
    UniqueIds = TRUE
    LedgerModes = {TRUE}
    MaxFaults = 0
    MaxOrphans = 0
SPECIFICATION Spec
INVARIANTS OnChainRootIsBatchRoot
CHECK_DEADLOCK FALSE
