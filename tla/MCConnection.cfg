SPECIFICATION Spec
CONSTANTS
  QueueNames = {"", "q"}
  ServerNames = {"amq.gen-1", "amq.gen-2", "amq.gen-3"}
  ExchangeNames = {"x"}
  Prebaked = {"amq.topic"}
  MaxObjects = 3
  MaxWork = 8
  MaxConnects = 2
INVARIANTS TypeOK ChannelHasOneOwner OneQueueOfAName TablesHold ConnectionKept
CHECK_DEADLOCK FALSE
