SPECIFICATION MCSpec
CONSTANTS
  SegmentSize = 2
  Capacity = 4
  MinQueueLen = 2
  Free = 0
  Subscribers = {s1}
  Pollers = {p1}
  MaxItems = 9
  MaxBatch = 3
INVARIANTS
  QueueHoldsSegments
  ReadsOn
  ReceivedInOrder
PROPERTIES
  SignalledCatchesUp
CHECK_DEADLOCK FALSE
