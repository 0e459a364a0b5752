SPECIFICATION Spec
CONSTANTS
  a = a
  c = c
  Dirs = {a, c}
  Above <- MCAbove
  Texts = {t, i}
  Inlined = {i}
  Modes = {"ask"}
  MaxRounds = 2
  MaxBatch = 2
  MaxChanges = 1
PROPERTIES RulesRead
CHECK_DEADLOCK FALSE
