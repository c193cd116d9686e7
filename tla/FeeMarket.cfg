SPECIFICATION Spec
CONSTANTS
  MaxInt256 = 20
  MaxUint64 = 12
  Dec = 2
  Proposals <- MCProposals
  MaxGasValues <- MCMaxGas
  MaxHeight = 3
  MaxTxGas = 4
INVARIANTS
  NoDivisionByZero
PROPERTIES
  FeeFollowsDemand
  BoundedChange
CHECK_DEADLOCK FALSE
