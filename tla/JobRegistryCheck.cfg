CONSTANTS
  Job = {j1, j2}
  Owner = {o1}
  Waiter = {w1}
  Limit = 1
  Unowned = Unowned
  NoJob = NoJob
  Service = Service
SPECIFICATION FairSpec
INVARIANTS
  AwaitedIsTrue
  LiveJobsAreCounted
  OwnerLeavesNothing
PROPERTIES
  TeardownEnds
CHECK_DEADLOCK FALSE
