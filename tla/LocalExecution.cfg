\* A run and its retry, by the user or by the session heal: commands, an approval,
\* two restarts, and what must eventually happen.
SPECIFICATION LFairSpec
CONSTANTS
  r1 = r1
  r2 = r2
  task = task
  Runs = {r1, r2}
  Items = {task}
  TaskItems = {task}
  ItemOf <- TwoOfATask
  Approvals = {a1}
  NoRun = NoRun
  NewRuns = {r1}
  Fallible = {r1}
  MaxCrashes = 2
CHECK_DEADLOCK FALSE
INVARIANTS NoOrphan SettledTerminal
PROPERTIES ImplementsLifecycle   DecisionArrives
