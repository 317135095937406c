CONSTANTS
  None = None
  Task = {t1}
  Session = {s1, s2}
  Existing = {}
  Recurring = {t1}
  Kinds = {"session", "once", "new"}
  Every = 2
  Floor = 1
  Faults = {"restore", "flush", "commit", "create", "rollback", "crash"}
  Edits = {"run", "create", "pause", "rearm", "retarget", "delete", "clear", "archive", "archiveStop", "unarchive", "wake", "dispose", "provider", "stop"}
  MaxFaults = 1
  MaxEdits = 2
  MaxTime = 2
  MaxMessages = 2
SYMMETRY SessionSymmetry
SPECIFICATION Spec
INVARIANTS ObligationHeld ReceiptIsDurable ReservationIsReused StoppedStaysUnarmed
PROPERTY EditsStand
CHECK_DEADLOCK FALSE
