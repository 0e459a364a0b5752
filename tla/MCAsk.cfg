SPECIFICATION FairSpec
CONSTANTS
  Kinds = {sandbox, handsTool}
  Retries = 1
  steersPerKind = 1
  MaxPolls = 1
  MaxFrames = 3
INVARIANTS OneRun AnswerIsTheRuns StoppedIsStopped
PROPERTIES AskEnds
CHECK_DEADLOCK FALSE
