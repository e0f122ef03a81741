SPECIFICATION GFairSpec
CONSTANTS
  Agents = {a, b}
  Sys = Sys
  None = None
  MaxRuns = 2
  MaxHands = 2
  MaxClaims = 1
  MaxExpiries = 1
  MaxPauses = 1
  MaxBlocks = 1
  MaxCrashes = 1
  MaxPipes = 1
  MaxActs = 1
INVARIANT GTypeOK
INVARIANT TransferredOnce
INVARIANT BlockedTogether
INVARIANT CancelledSettled
PROPERTIES RelinquishedIsEvidence HandoffContinues
CHECK_DEADLOCK FALSE
