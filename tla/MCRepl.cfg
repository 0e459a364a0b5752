CONSTANTS
  Commands = {"/approve", "/exit", "/new", "/setup", "/check"}
  InCap = 1
  MaxTyped = 3
  MaxAsks = 2
  MaxSessions = 2
SPECIFICATION RSpec
INVARIANTS TypedIsKept AnswerIsMeant DockIsTrue
PROPERTY QuitEnds
CHECK_DEADLOCK FALSE
