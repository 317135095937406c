CONSTANTS
  None = None
  Task = {t1, t2}
  Session = {s1}
  Existing = {s1}
  Recurring = {t1, t2}
  Kinds = {"session"}
  Every = 2
  Floor = 1
  Faults = {"restore"}
  Edits = {"wake"}
  MaxFaults = 1
  MaxEdits = 1
  MaxTime = 3
  MaxMessages = 2
SPECIFICATION Spec
INVARIANT SlotCoversDelivery
CHECK_DEADLOCK FALSE
