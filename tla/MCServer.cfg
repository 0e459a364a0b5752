CONSTANTS
  Sessions = 2
  Approve = "auto"
  Debug = TRUE
  MaxRequests = 6
SPECIFICATION Spec
INVARIANTS ClosedOnce RanAsTold
PROPERTY EveryRequestServed
CHECK_DEADLOCK FALSE
