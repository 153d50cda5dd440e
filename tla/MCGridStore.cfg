SPECIFICATION GridSpec
CONSTANTS
  ChunkSize = 2
  MaxBytes = 5
  MaxWrite = 3
  MaxOpens = 3
INVARIANTS GridTypeOK ClosedHoldsWritten NoStrayChunks
PROPERTIES WritesComplete
CHECK_DEADLOCK FALSE
