SPECIFICATION Spec
CONSTANTS
  Timeout = 4
  Interval = 1
  Floor = 2
  ProbeTime = 1
  MaxTurns = 2
  MaxRuns = 2
  MaxBatch = 2
PROPERTIES NothingStartsCancelled
CHECK_DEADLOCK FALSE
