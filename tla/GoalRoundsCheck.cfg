SPECIFICATION FairSpec
CONSTANTS
  Human = {h1}
  None = None
  Cap = {2}
  MaxRef = 2
  MaxRounds = 2
INVARIANTS
  RoundsAreWatched
  ArmedIsDriven
  HumanInputIsConserved
PROPERTIES
  FencedRoundsReplay
  CancelHalts
  UnloadIsFinal
  GoalComesToRest
