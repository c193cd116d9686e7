SPECIFICATION MCSpec
CONSTANTS
  f1 = f1
  f2 = f2
  f3 = f3
  Ids <- MCIds
  Types = {"logs", "block"}
  Criteria <- MCCriteria
  LogOf <- MCLogOf
  FilterCap = 2
  Deadline = 2
  SegmentSize = 2
  Capacity = 2
  MaxItems = 5
INVARIANTS
  NeverBlocks
  PollsReturnAll
PROPERTIES
  RemovesOnlyInactive
  InactiveRemoved
CHECK_DEADLOCK FALSE
