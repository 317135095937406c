CONSTANTS
  Proc = {p1, p2}
  MaxEvents = 3
  MaxFaults = 1
  MaxCrashes = 1
  MaxOpens = 2
  CleanClose = TRUE
  NoProc = NoProc
SPECIFICATION Spec
INVARIANTS
  HandleTracksFile
  BufferIsWatched
  OwnerWrites
  LogIsReadable
PROPERTIES
  FlushCovers
  KeepsAcknowledged
CHECK_DEADLOCK FALSE
