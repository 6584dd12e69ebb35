SPECIFICATION QuotaSpec
CONSTANTS
  ether = ether
  Tokens = {ether}
  InitQuotas = {0, 4}
  Periods = {2, 3}
  Amounts = {0, 1, 3}
  MaxTime = 6
  MaxConsumed = 4
INVARIANTS TypeOK WindowBound RestoredAfterPeriod
