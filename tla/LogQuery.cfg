SPECIFICATION Spec
CONSTANTS
  Criteria <- MCCriteria
  BlockLogs <- MCBlockLogs
  Bits <- MCBits
  LogLimit = 3
  BlockLimit = 2
  MaxToOverhang = 1
  Fails = TRUE
  MaxHeight = 3
INVARIANTS
  QueryExact
  LimitsHold
CHECK_DEADLOCK FALSE
