SPECIFICATION Spec
CONSTANTS
  a = a
  c = c
  Dirs = {a, c}
  Above <- MCAbove
  Texts = {t, i}
  Inlined = {i}
  Modes = {"ask", "plan", "auto", "never"}
  MaxRounds = 2
  MaxBatch = 2
  MaxChanges = 1
INVARIANTS OperatorAllowed
PROPERTIES RulesBeforeWrite HeldOnce
CHECK_DEADLOCK FALSE
