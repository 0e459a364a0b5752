SPECIFICATION Spec
CONSTANTS
  Kinds = {sandbox, handsTool}
  Retries = 1
  steersPerKind = 1
  MaxPolls = 1
  MaxFrames = 3
INVARIANTS ProseIsNoAnswer
CHECK_DEADLOCK FALSE
