SPECIFICATION FairStreamSpec
CONSTANTS
  Threads = 2
  ChunkSize = 2
  MaxHeight = 5
  MaxSessions = 2
INVARIANTS StreamTypeOK InOrder EachHasItsWorker ReleasedAtEnd
PROPERTIES StreamEnds
CHECK_DEADLOCK FALSE
