SPECIFICATION FairSpec
CONSTANTS
    Handlers = {h1, h2}
    Ids = {i1, i2}
    Bodies = {c1, c2}
    NoBody = NoBody
    Corrupt = Corrupt
    TornWrites = TRUE
    MaxRequests = 3
    MaxCrashes = 2
    MaxFaults = 1
INVARIANTS TypeOK CutLosesOne AckedIsStored PendingCovers
PROPERTIES EventuallyStored
CHECK_DEADLOCK FALSE
