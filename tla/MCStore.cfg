CONSTANTS
  p1 = p1
  p2 = p2
  s1 = s1
  None = None
  Torn = Torn
  Procs = {p1, p2}
  Sessions = {s1}
  MaxAge = 0
  MaxClock = 1
  MaxSeq = 4
  MaxFaults = 1
SPECIFICATION Spec
SYMMETRY Symmetry
INVARIANTS LogStands IndexWhole
PROPERTY RecapWhenLost
CHECK_DEADLOCK FALSE
