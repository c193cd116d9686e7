SPECIFICATION Spec
CONSTANTS
  a = a
  b = b
  Accounts = {a, b}
  Contracts = {}
  Txs <- MCTxs
  Genesis <- MCGenesis
  BaseFees <- MCBaseFees
  Configs <- MCConfigs
  IntrinsicGas = 1
  Hooks = TRUE
  MaxGas = 4
  MaxTxGasWanted = 0
  NodeMinGasPrice = 1
  UsedGas = {1, 2}
  Refunds = {1}
  Dec = 2
  MaxBlocks = 2
  MaxTxs = 2
  MaxMempool = 2
INVARIANTS
  CoinsConserved
  EscrowCoversRefunds
  FeesMatchGas
  NoReplay
  MempoolSequences
  CheckImpliesDeliver
  BloomExact
CHECK_DEADLOCK FALSE
