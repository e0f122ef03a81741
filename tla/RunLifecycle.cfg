\* Two runs of one task with an approval, questions, resumes, crashes.
SPECIFICATION Spec
CONSTANTS
  r1 = r1
  r2 = r2
  r3 = r3
  task = task
  chat = chat
  Runs = {r1, r2}
  Items = {task}
  TaskItems = {task}
  ItemOf <- TwoOfATask
  Approvals = {a1}
  NoRun = NoRun
SYMMETRY RunSymmetry
CHECK_DEADLOCK FALSE
INVARIANTS TypeOK LockKept NoStaleQuestion
PROPERTIES EndedForGood ExclusiveGrant
