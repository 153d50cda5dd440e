SPECIFICATION FairSpec
CONSTANTS
  Kinds = {"queue", "exchange", "prebaked"}
  MaxCalls = 3
INVARIANTS TypeOK FiredWasExecuted IssueOrder ConnectionKept
PROPERTIES TasksComplete
CHECK_DEADLOCK FALSE
