SPECIFICATION Spec
CONSTANTS
  Hashes = {h1, h2, h3}
  KeepsEvents = {TRUE, FALSE}
  MaxMsgs = 2
  MaxLogs = 2
  MaxTxs = 3
  MaxBlocks = 2
SYMMETRY Symmetry
INVARIANTS
  FoundOnceRun
  LogsNumbered
  ReceiptsExact
  BlockLogsReported
  FallbackAgrees
CHECK_DEADLOCK FALSE
