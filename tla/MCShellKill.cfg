SPECIFICATION Spec
CONSTANTS
  MaxOut = 1
  MaxPipe = 1
  MaxRuns = 2
  MaxShells = 2
  MaxKills = 1
INVARIANT KillIsSafe
CHECK_DEADLOCK FALSE
