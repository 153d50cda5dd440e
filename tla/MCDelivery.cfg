SPECIFICATION FairSpec
CONSTANTS
  Queues = {q1, q2}
  Sizes = {0, 3}
  HeaderOctets = 2
  FrameMax = 2
  MaxMessages = 2
  MaxSubscribes = 2
  MaxExtra = 1
  MaxBeats = 1
INVARIANTS TypeOK GivenInOrder ShiftAcknowledges
PROPERTIES MessagesComplete
CHECK_DEADLOCK FALSE
