SPECIFICATION KSpec
CONSTANTS
  Short = {s}
  Fitting = {f}
  Huge = {}
  s = s
  f = f
  MaxTurns = 2
  MaxEvents = 9
  MaxCompactions = 2
  MaxCrashes = 1
INVARIANTS NothingLeftOut
CHECK_DEADLOCK FALSE
