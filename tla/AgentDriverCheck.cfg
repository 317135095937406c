CONSTANTS
  Message = {m1, m2}
  None = None
SPECIFICATION FairSpec
INVARIANT WakeOutlivesAbort
PROPERTIES
  KeepsLedger
  AbortConverges
  OwedIsTakenUp
