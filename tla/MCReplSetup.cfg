CONSTANTS
  Commands = {"/setup"}
  InCap = 1
  MaxTyped = 3
  MaxAsks = 0
  MaxSessions = 1
SPECIFICATION RSpec
INVARIANT QueuedIsKept
CHECK_DEADLOCK FALSE
