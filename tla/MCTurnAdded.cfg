SPECIFICATION Spec
CONSTANTS
  Texts = {a}
  MaxRounds = 2
  MaxCalls = 0
  MaxCallsPerRound = 0
  maxFixups = 3
  maxStops = 2
  maxRecover = 2
  MaxBatch = 1
  MaxTurns = 2
INVARIANTS AdditionsAlwaysAsked
CHECK_DEADLOCK FALSE
