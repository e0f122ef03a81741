SPECIFICATION Spec

CONSTANTS
  Runs = {r1}
  Slots = 1
  Cancels = {r1}
  Fallible = {r1}
  MaxPending = 2
  MaxExpiries = 1
  MaxEpoch = 2
  MaxBreaks = 1
  MaxReboots = 0
  MaxCrashes = 0

INVARIANT
  NoStranded

\* Connections, failures and the user are bounded: the system may stop.
CHECK_DEADLOCK FALSE
