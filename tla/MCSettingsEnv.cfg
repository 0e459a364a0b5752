CONSTANTS
  p1 = p1
  p2 = p2
  m1 = m1
  None = None
  Torn = Torn
  Unset = Unset
  Failed = Failed
  NoId = NoId
  Procs = {p1, p2}
  Machines = {m1}
  URLs <- MCURLs
  Secrets <- MCSecrets
  Examples <- MCExamples
  Worlds <- MCWorlds
  MaxSetups = 2
  MaxEdits = 1
SPECIFICATION Spec
SYMMETRY Symmetry
INVARIANT EnvironmentWins
CHECK_DEADLOCK FALSE
