SPECIFICATION MCSpec
CONSTANTS
  SegmentSize = 2
  Capacity = 2
  MinQueueLen = 2
  Free = 0
  s1 = s1
  s2 = s2
  Subscribers = {s1, s2}
  Wanted <- MCWanted
  Pollers = {}
  MaxItems = 5
  MaxShared = 2
  MaxBatch = 2
INVARIANTS
  NotifiedExactly
PROPERTIES
  ConnectionEnds
  UnsubscribeEnds
CHECK_DEADLOCK FALSE
