SPECIFICATION CSpec
CONSTANTS
  Callers = {"loop"}
  Outcomes = {"succeeded", "failed", "fatal", "cancelled"}
  Prompt = FALSE
  MaxRuns = 3
  MaxWorkers = 2
  MaxAttempts = 2
  MaxFailures = 2
  MaxRepairs = 1
  MaxComments = 1
  MaxBlocks = 0
  MaxUnblocks = 1
  MaxCrashes = 1
  MaxFaults = 1
INVARIANT OneTurn
INVARIANT SettledOnce
INVARIANT NoHiddenComment
PROPERTY ClosesComplete
CHECK_DEADLOCK FALSE
