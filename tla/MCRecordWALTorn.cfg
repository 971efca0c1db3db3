SPECIFICATION Spec
CONSTANTS
    Handlers = {h1, h2}
    Ids = {i1, i2}
    Bodies = {c1}
    NoBody = NoBody
    Corrupt = Corrupt
    TornWrites = TRUE
    MaxRequests = 3
    MaxCrashes = 1
    MaxFaults = 2
SYMMETRY Symmetry
INVARIANTS OwedIsRecoverable
CHECK_DEADLOCK FALSE
