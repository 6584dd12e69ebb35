SPECIFICATION FairSpec
CONSTANTS
  Fees = {0}
  StrayValues = {0}
  Payloads <- BothERC20s
  Prices = {2}
  InitEther <- Funded
  InitQuota <- NoQuotas
  QuotaPeriod = 2
  Pausable = {}
  MaxMessages = 2
  MaxTime = 1
INVARIANTS Backed
PROPERTIES EventuallySettled
