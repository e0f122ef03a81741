SPECIFICATION FairSpec

CONSTANTS
  Runs = {r1}
  Slots = 1
  Cancels = {}
  Fallible = {r1}
  MaxPending = 3
  MaxExpiries = 0
  MaxEpoch = 3
  MaxBreaks = 1
  MaxReboots = 0
  MaxCrashes = 0

PROPERTY
  AcceptedEnds

\* Connections, failures and the user are bounded: the system may stop.
CHECK_DEADLOCK FALSE
