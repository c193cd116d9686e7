SPECIFICATION Spec
CONSTANTS
  EthBlocks = {1, 2, 4}
  Prunes = TRUE
  MaxHeight = 4
  MaxErrors = 2
  MaxRestarts = 3
INVARIANTS
  NoSilentGap
PROPERTIES
  CatchesUp
CHECK_DEADLOCK FALSE
