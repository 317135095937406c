CONSTANTS
  None = None
  Task = {t1, t2}
  Session = {s1}
  Existing = {s1}
  Recurring = {t1}
  Kinds = {"session"}
  Every = 1
  Floor = 1
  Faults = {"flush", "crash"}
  Edits = {}
  MaxFaults = 1
  MaxEdits = 0
  MaxTime = 2
  MaxMessages = 3
SPECIFICATION FairSpec
PROPERTIES OwedIsServed SlotsAreReleased
CHECK_DEADLOCK FALSE
