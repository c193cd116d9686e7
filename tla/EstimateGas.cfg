SPECIFICATION Spec
CONSTANTS
  TxGas = 3
  MaxUint64 = 31
INVARIANTS
  EstimateTight
  FailsAtAllowance
PROPERTIES
  Answered
