SPECIFICATION StreamSpec
CONSTANTS
  Threads = 2
  ChunkSize = 2
  MaxHeight = 5
  MaxSessions = 2
INVARIANTS ThreadsBounded
CHECK_DEADLOCK FALSE
