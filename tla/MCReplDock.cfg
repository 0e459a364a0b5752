CONSTANTS
  Commands = {}
  InCap = 1
  MaxTyped = 2
  MaxAsks = 0
  MaxSessions = 1
SPECIFICATION RSpec
INVARIANT QueueIsExact
CHECK_DEADLOCK FALSE
