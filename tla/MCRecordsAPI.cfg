SPECIFICATION Spec
CONSTANTS
  Clients = {c1}
  Ids = {1, 2, 3}
  Old = {1, 3}
  BatchSize = 1
  Limit = 1
  Offsets = {0, 1}
  maxRetries = 1
  MaxCalls = 2
  MaxFaults = 1
  MaxClock = 1
  MaxDeletes = 1
INVARIANTS TypeOK AnsweredCreateIsStored BatchCoversEarlier WalkIsExact
CHECK_DEADLOCK FALSE
