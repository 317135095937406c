CONSTANTS
  Calls = 3
  MaxParallel = 2
SPECIFICATION FairSpec
INVARIANTS
  ResultsInModelOrder
  StepAnswersEveryCall
  NotStartedIsTrue
PROPERTIES
  BatchEnds
