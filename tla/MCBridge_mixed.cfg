SPECIFICATION Spec
CONSTANTS
  Fees = {0, 1}
  StrayValues = {0, 1}
  Payloads <- Everything
  Prices = {2}
  InitEther <- Funded
  InitQuota <- SmallQuotas
  QuotaPeriod = 1
  Pausable <- L1Pausable
  MaxMessages = 1
  MaxTime = 2
INVARIANTS TypeOK NativeConserved
PROPERTIES FateSpec
