SPECIFICATION QSpec
CONSTANTS
  Limit = 2
  Enforce = TRUE
  Amounts = {1}
  Outcomes = {"succeeded", "failed"}
  MaxTurns = 2
  MaxRuns = 3
  MaxWorkers = 1
  MaxAttempts = 2
  MaxGaps = 1
  MaxExtra = 1
INVARIANT NoOversubscription
INVARIANT NoReportLost
PROPERTY ClosesCharged
CHECK_DEADLOCK FALSE
