SPECIFICATION FairSpec
CONSTANTS
  Pods <- MCPods
  Jobs <- MCJobs
  Target <- MCTarget
  Releases = {1, 2}
  Handlers = {1}
  Records = {"r1", "r2"}
  Overlap = FALSE
  MaxKills = 1
  MaxFaults = 1
INVARIANTS TypeOK ServedSchemaIsComplete RecordedOnceInOrder AppendedIsKept
PROPERTIES ShutdownEnds LastReleaseServes
CHECK_DEADLOCK FALSE
