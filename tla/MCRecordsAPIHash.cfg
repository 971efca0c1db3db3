SPECIFICATION Spec
CONSTANTS
  Clients = {c1}
  Ids = {1, 2}
  Old = {1}
  BatchSize = 1
  Limit = 1
  Offsets = {0}
  maxRetries = 1
  MaxCalls = 1
  MaxFaults = 0
  MaxClock = 0
  MaxDeletes = 0
INVARIANTS HashesMatch
CHECK_DEADLOCK FALSE
