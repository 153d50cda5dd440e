SPECIFICATION GridSpec
CONSTANTS
  ChunkSize = 2
  MaxBytes = 4
  MaxWrite = 3
  MaxOpens = 3
INVARIANTS AppendKeepsContent
CHECK_DEADLOCK FALSE
