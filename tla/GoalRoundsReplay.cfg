SPECIFICATION Spec
CONSTANTS
  Human = {h1}
  None = None
  Cap = {2}
  MaxRef = 2
  MaxRounds = 1
INVARIANTS
  ReplayHolds
