SPECIFICATION FairSpec
CONSTANTS
  Limits = {0, 1, 3}
  Batches = {0, 2}
  NDocs = 4
  DefaultBatch = 3
  MaxOutstanding = 2
  MaxCloses = 2
  MaxCalls = 5
INVARIANTS TypeOK InOrder EndMeansAll NoLeak
PROPERTIES EveryCallAnswered
CHECK_DEADLOCK FALSE
