SPECIFICATION FairSpec
CONSTANTS
  Texts = {a}
  MaxRounds = 2
  MaxCalls = 3
  MaxCallsPerRound = 2
  maxFixups = 1
  maxStops = 2
  maxRecover = 2
  MaxBatch = 3
  MaxTurns = 2
INVARIANTS AnswerInformed WithinBudget ResultsInOrder NothingForgotten
PROPERTIES ImplementsExchange TurnEnds
CHECK_DEADLOCK FALSE
