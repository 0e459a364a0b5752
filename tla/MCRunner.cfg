SPECIFICATION FairSpec
CONSTANTS
  Timeout = 4
  Interval = 1
  Floor = 2
  ProbeTime = 1
  MaxTurns = 2
  MaxRuns = 2
  MaxBatch = 2
INVARIANTS TimeoutAuthoritative InterruptionRecorded
PROPERTIES LiveRunSpared OutageEnds
CHECK_DEADLOCK FALSE
