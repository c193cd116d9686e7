SPECIFICATION Spec
CONSTANTS
  SegmentSize = 2
  Capacity = 2
  MinQueueLen = 2
  Free = 0
  Subscribers = {s1}
  Pollers = {}
  MaxItems = 3
  MaxBatch = 1
PROPERTIES
  EventuallyDelivered
CHECK_DEADLOCK FALSE
