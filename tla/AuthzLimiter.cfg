SPECIFICATION Spec
CONSTANTS
  MaxNestedMsgs = 3
  MaxNodes = 6
INVARIANTS
  PassedIsAllowed
  RefusedForCause
