\* Two tasks beside steps that fail, a restart at any point, and a retry of the
\* head in any status or a cancellation; a release of two documents fits no page.
\* The goroutines of the worker, of the handlers and of the runs take their steps.
SPECIFICATION KFairSpec
CONSTANTS
  Kinds = {"write", "reindex"}
  Faults = {"prepare", "dispatch", "publish", "files", "seal"}
  PageLimit = 1
  MaxTasks = 2
  MaxRuns = 5
  MaxAttempts = 2
  MaxRepairs = 1
  MaxRetries = 1
  MaxCancels = 1
  MaxActs = 1
  MaxCrashes = 1
CHECK_DEADLOCK FALSE
INVARIANTS NothingLost FilesMatch
PROPERTIES StagingKept QueueSettles
