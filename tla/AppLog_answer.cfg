SPECIFICATION LogSpec
CONSTANTS
  LogCap = 3
  ChunkLen = 1
  MaxLines = 5
  MaxReads = 2
INVARIANTS NotInThisAnswer
CHECK_DEADLOCK FALSE
