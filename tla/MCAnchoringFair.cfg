CONSTANTS
    Records = {1}
    Workers = {w1, w2}
    Tickers = {w1}
    Batches = {b1, b2}
    NoBatch = NoBatch
    NoAnchor = NoAnchor
    NoClient = NoClient
    Deletable = {1}
    BatchSize = 2
    UniqueIds = TRUE
    LedgerModes = {TRUE}
    MaxFaults = 1
    MaxOrphans = 1
SPECIFICATION FairSpec
PROPERTIES EventuallyAnchored
CHECK_DEADLOCK FALSE
