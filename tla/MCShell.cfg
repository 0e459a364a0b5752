SPECIFICATION Spec
CONSTANTS
  MaxOut = 1
  MaxPipe = 1
  MaxRuns = 2
  MaxShells = 2
  MaxKills = 1
INVARIANTS AnswerIsItsOwn OneAtATime
PROPERTY KillUnblocks
CHECK_DEADLOCK FALSE
