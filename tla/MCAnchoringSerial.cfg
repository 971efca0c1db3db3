CONSTANTS
    Records = {1, 2, 3}
    Workers = {w1}
    Tickers = {w1}
    Batches = {b1, b2}
    NoBatch = NoBatch
    NoAnchor = NoAnchor
    NoClient = NoClient
    Deletable = {2}
    BatchSize = 2
    UniqueIds = TRUE
    LedgerModes = {TRUE, FALSE}
    MaxFaults = 0
    MaxOrphans = 1
SPECIFICATION Spec
INVARIANTS RootsAgree
PROPERTIES DeletedStaysOut
CHECK_DEADLOCK FALSE
