SPECIFICATION Spec
CONSTANTS
  ChunkSize = 3
  MaxBytes = 7
  MaxWrite = 7
  MaxOpens = 1
  MaxReads = 3
  MaxPauses = 2
INVARIANTS TypeOK ReadExact
PROPERTIES ReadsComplete
CHECK_DEADLOCK FALSE
