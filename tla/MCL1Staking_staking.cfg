SPECIFICATION Spec
CONSTANTS
  u1 = u1
  u2 = u2
  Users = {u1, u2}
  MIN_DEPOSIT = 2
  WITHDRAWAL_LOCK_EPOCH = 1
  ShareUnit = 100
  MaxClaimEpochs = 3
  FirstEpoch = 4
  Amounts = {2}
  Rewards = {10}
  Rates = {50}
  MaxEpoch = 6
  MaxBalance = 3
  MaxReward = 10
  MaxInterventions = 2
SYMMETRY UserSymmetry
INVARIANTS TypeOK RewardsEarned EpochNotOverpaid
CHECK_DEADLOCK FALSE
