CONSTANTS
    Records = {1, 2}
    Workers = {w1, w2}
    Tickers = {w1, w2}
    Batches = {b1, b2}
    NoBatch = NoBatch
    NoAnchor = NoAnchor
    NoClient = NoClient
    Deletable = {}
    BatchSize = 2
    UniqueIds = TRUE
    LedgerModes = {TRUE}
    MaxFaults = 1
    MaxOrphans = 1
SYMMETRY Symmetry
SPECIFICATION Spec
INVARIANTS TypeOK NeverForgotten OneNotice RootsAreWhole
PROPERTIES NoticeIsTrue KeepsPromises
CHECK_DEADLOCK FALSE
