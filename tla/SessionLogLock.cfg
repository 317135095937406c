CONSTANTS
  Proc = {p1}
  MaxEvents = 2
  MaxFaults = 1
  MaxCrashes = 0
  MaxOpens = 1
  CleanClose = FALSE
  NoProc = NoProc
SPECIFICATION Spec
INVARIANT WritesUnderLock
CHECK_DEADLOCK FALSE
