SPECIFICATION FairSpec
CONSTANTS
  m1 = m1
  t1 = t1
  Msgs = {m1}
  Txs = {t1}
  TxOf <- OneTx
  NoGas = {}
  NoFee = {}
  Confirmations = 1
  MaxHeight = 3
  MaxFaults = 1
  MaxCopies = 2
  BatchSize = 2
  BackOffMaxRetries = 1
  CrawlStart = 3
  CrawlEnd = 1
  Goroutines = {g1, g2}
  Prefetch = 2
INVARIANTS TypeOK OneGoroutinePerTx DeliveryHeld  QueuedHasRow
CHECK_DEADLOCK FALSE
PROPERTIES EventuallyRelayed
