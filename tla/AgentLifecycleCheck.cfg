CONSTANTS
  Attempt = {a1, a2}
  Backed = {a1, a2}
  Met = {a1}
  MaxSends = 1
  None = None
SPECIFICATION FairSpec
INVARIANTS
  CreationKeepsItsWorld
  OwnersLeaveNothing
PROPERTIES
  FailedInitKeepsInput
  TeardownEnds
CHECK_DEADLOCK FALSE
