SPECIFICATION MCSpec
CONSTANTS
  a1 = a1
  a2 = a2
  mod = mod
  c0 = c0
  c1 = c1
  Nil = Nil
  Addr <- MCAddr
  Key = {1}
  Val = {0, 1}
  Zero = 0
  Code <- MCCode
  NoCode = c0
  Module = mod
  Blocked = {a2}
  Locked <- Vesting
  Berlin = FALSE
  InitStores <- MCStores
  MaxNonce = 0
  MaxAmount = 1
  MaxSupply = 1
  MaxGas = 1
  MaxLogs = 1
  MaxSetup = 1
  MaxJournal = 2
  MaxRevisions = 2
INVARIANTS
  NoNilObject
  RevertRestoresExist
  CoinsBacked
PROPERTIES
  CommitPersistsView
  ImplementsRevertible
CHECK_DEADLOCK FALSE
