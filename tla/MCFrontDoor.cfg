SPECIFICATION Spec
CONSTANTS
  p1 = p1
  p2 = p2
  Pods = {p1, p2}
  Files <- MCFiles
  Envs <- MCEnvs
  Secrets <- MCSecrets
  Handlers = {h1}
  MaxRetries = 1
  MaxClock = 3
  MaxFaults = 1
  MaxHits = 3
INVARIANTS BurstBound RefusedForCause ServedIsEntitled
CHECK_DEADLOCK FALSE
