\* Two calls of the resolve endpoint, alike or not, and a control channel that
\* may be full.
SPECIFICATION DFairSpec
CONSTANTS
  Callers = {c1, c2}
  Responses = {a, b}
  a = a
  b = b
  Matches <- SkipsOne
  None = None
  MaxControls = 1
CHECK_DEADLOCK FALSE
INVARIANTS ToldTruly AnsweredTruly
PROPERTIES ClosedStays CallReturns
