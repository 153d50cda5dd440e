SPECIFICATION FairSpec
CONSTANTS
  PoolSize = 2
  MaxSockets = 6
  MaxRequests = 2
INVARIANTS TypeOK AtMostOnce ReconnectWhole
PROPERTIES EveryRequestEnds
CHECK_DEADLOCK FALSE
