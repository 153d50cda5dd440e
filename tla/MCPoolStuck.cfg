SPECIFICATION Spec
CONSTANTS
  PoolSize = 1
  MaxSockets = 3
  MaxRequests = 2
PROPERTIES ReopenedOnNextOperation
CHECK_DEADLOCK FALSE
