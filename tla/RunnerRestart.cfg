SPECIFICATION Spec

CONSTANTS
  Runs = {r1}
  Slots = 1
  Cancels = {r1}
  Fallible = {r1}
  MaxPending = 4
  MaxExpiries = 0
  MaxEpoch = 3
  MaxBreaks = 0
  MaxReboots = 1
  MaxCrashes = 1

PROPERTY
  RestartFences

\* Connections, failures and the user are bounded: the system may stop.
CHECK_DEADLOCK FALSE
