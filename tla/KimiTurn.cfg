\* One session of each kind: a tool call, a detached task, that of an earlier run, an older turn, a server
\* that names no prompt, a question; up to two troubles, one with a question.
SPECIFICATION KSpec
CONSTANTS
  Callers = {c1}
  Responses = {a, b}
  a = a
  b = b
  Matches <- SkipsOne
  None = None
  MaxControls = 1
  Scenes = {"tool", "task", "older", "silent", "question", "stray"}
  Few = 1
  Many = 2
  Troubles <- MCTroubles
CHECK_DEADLOCK FALSE
INVARIANTS ToolsPaired HeldForDetached
PROPERTIES ImplementsDelivery
