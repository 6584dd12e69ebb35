-------------------------------- MODULE Quotas --------------------------------
(***************************************************************************)
(* The arithmetic of the QuotaManager contract, as operators on one        *)
(* token's quota record `q`, the refill period and the time `t`: shared by *)
(* the contract's own module and by the bridge that consumes quotas.       *)
(* block.timestamp starts at 1: an `updatedAt` of 0 means "never".         *)
(***************************************************************************)
EXTENDS Integers

Quota == [updatedAt : Nat, quota : Nat, available : Nat]

\* type(uint256).max: a quota of 0 is no limit at all.
Unlimited(q) == q.quota = 0

AvailableQuota_Uncapped(q, period, t) == \* mutation: the refill is not capped
  IF q.updatedAt = 0 THEN q.quota
  ELSE (q.quota * (t - q.updatedAt)) \div period + q.available
AvailableQuota_DividesFirst(q, period, t) == \* mutation: the division before the product
  IF q.updatedAt = 0 THEN q.quota
  ELSE LET refilled == q.quota * ((t - q.updatedAt) \div period) + q.available
       IN  IF refilled <= q.quota THEN refilled ELSE q.quota
AvailableQuota(q, period, t) ==
  IF q.updatedAt = 0 THEN q.quota
  ELSE LET refilled == (q.quota * (t - q.updatedAt)) \div period + q.available
       IN  IF refilled <= q.quota THEN refilled ELSE q.quota

CanConsume(q, period, t, amount) ==
  Unlimited(q) \/ amount <= AvailableQuota(q, period, t)

Consumed_NoTimestamp(q, period, t, amount) == \* mutation: updatedAt keeps its first value
  IF Unlimited(q) THEN q
  ELSE [q EXCEPT !.available = AvailableQuota(q, period, t) - amount,
                 !.updatedAt = IF @ = 0 THEN t ELSE @]
Consumed(q, period, t, amount) ==
  IF Unlimited(q) THEN q
  ELSE [q EXCEPT !.available = AvailableQuota(q, period, t) - amount, !.updatedAt = t]

UpdatedQuota(quota) == [updatedAt |-> 0, quota |-> quota, available |-> quota]

===============================================================================
