SPECIFICATION CFairSpec
CONSTANTS
  Callers = {"loop"}
  Outcomes = {"succeeded", "failed", "fatal", "cancelled"}
  Prompt = TRUE
  MaxRuns = 5
  MaxWorkers = 2
  MaxAttempts = 2
  MaxFailures = 2
  MaxRepairs = 1
  MaxComments = 1
  MaxBlocks = 1
  MaxUnblocks = 0
  MaxCrashes = 0
  MaxFaults = 0
INVARIANT NoStopUnlessForgotten
PROPERTY CommentRead
CHECK_DEADLOCK FALSE
