------------------------------- MODULE L1Staking -------------------------------
(***************************************************************************)
(* The L1Staking contract: stakes, and rewards per epoch that a user claims *)
(* later, as a share of the total balance at the time of the claim.        *)
(***************************************************************************)
EXTENDS Totals, FiniteSets

CONSTANTS
  Users,
  MIN_DEPOSIT,
  WITHDRAWAL_LOCK_EPOCH,
  ShareUnit,       \* 1e5 in the code: the precision of a share
  MaxClaimEpochs,  \* 24 in the code: older epochs are not paid
  FirstEpoch,      \* the epoch of the deployment
  Amounts,         \* amounts staked
  Rewards,         \* amounts deposited as a reward
  Rates,           \* percentages slashed
  MaxEpoch,        \* bound: the clock
  MaxBalance,      \* bound: a user's balance
  MaxReward,       \* bound: an epoch's reward
  MaxInterventions \* bound: calls of the slasher and of the pauser

ASSUME StakingAssumption ==
  /\ IsFiniteSet(Users)
  /\ MIN_DEPOSIT \in Nat \ {0} /\ WITHDRAWAL_LOCK_EPOCH \in Nat
  /\ ShareUnit \in Nat \ {0} /\ MaxClaimEpochs \in Nat \ {0}
  /\ FirstEpoch \in Nat /\ FirstEpoch > MaxClaimEpochs /\ FirstEpoch <= MaxEpoch
  /\ Amounts \subseteq Nat /\ Rewards \subseteq Nat \ {0} /\ Rates \subseteq 0..100
  /\ MaxEpoch \in Nat /\ MaxBalance \in Nat /\ MaxReward \in Nat
  /\ MaxInterventions \in Nat

VARIABLES
  stakingBalances, lastClaimedEpoch, withdrawalRequestEpoch, totalBalance, epochReward,
  paused,        \* EssentialContract.__paused
  tokens,        \* the contract's balance of MXC
  epoch,         \* getCurrentEpoch
  earned,        \* history: the epochs a user had a balance at the end of
  claims,        \* history: how often a user was paid for an epoch
  paid,          \* history: what was paid for an epoch
  lastWithdrawal, \* history: the epoch of the last withdrawal, 0 for none
  interventions  \* bound

contractVars == <<stakingBalances, lastClaimedEpoch, withdrawalRequestEpoch, totalBalance,
                  epochReward, tokens>>
historyVars == <<earned, claims, paid, lastWithdrawal>>
vars == <<contractVars, paused, epoch, historyVars, interventions>>

Epochs == FirstEpoch..MaxEpoch
SumOver(f) == Total(f, DOMAIN f)

TypeOK ==
  /\ stakingBalances \in [Users -> 0..MaxBalance]
  /\ lastClaimedEpoch \in [Users -> Nat] /\ withdrawalRequestEpoch \in [Users -> 0..MaxEpoch]
  /\ totalBalance \in Nat /\ SumOver(stakingBalances) <= totalBalance
  /\ epochReward \in [Epochs -> 0..MaxReward]
  /\ paused \in BOOLEAN /\ tokens \in Nat /\ epoch \in Epochs
  /\ interventions \in 0..MaxInterventions

Init ==
  /\ stakingBalances = [u \in Users |-> 0]
  /\ lastClaimedEpoch = [u \in Users |-> 0]
  /\ withdrawalRequestEpoch = [u \in Users |-> 0]
  /\ totalBalance = 0 /\ epochReward = [e \in Epochs |-> 0]
  /\ paused = FALSE /\ tokens = 0 /\ epoch = FirstEpoch
  /\ earned = [u \in Users |-> {}] /\ claims = [u \in Users |-> [e \in Epochs |-> 0]]
  /\ paid = [e \in Epochs |-> 0] /\ lastWithdrawal = 0
  /\ interventions = 0

--------------------------------------------------------------------------------
(* Claims *)

\* The epochs a claim pays: those since the last claim and before this one.
UnclaimedEpochs(user) ==
  IF stakingBalances[user] = 0 THEN {}
  ELSE {e \in Epochs : e > lastClaimedEpoch[user] /\ e > epoch - MaxClaimEpochs /\ e < epoch}

Share_OfStakes(user) == \* mutation: slashed stakes are shared out
  (stakingBalances[user] * ShareUnit) \div SumOver(stakingBalances)
Share(user) == (stakingBalances[user] * ShareUnit) \div totalBalance
RewardOf(user, e) == (epochReward[e] * Share(user)) \div ShareUnit

stakingCalculateRewardDebt(user) ==
  SumOver([e \in UnclaimedEpochs(user) |-> RewardOf(user, e)])

\* _stakingClaimReward, from what the contract holds beforehand; a transfer of more
\* than that reverts.  What it leaves in lastClaimedEpoch depends on the caller.
Claim(user, held) ==
  LET debt == stakingCalculateRewardDebt(user)
  IN  /\ debt <= held /\ tokens' = held - debt
      /\ claims' = [claims EXCEPT ![user] =
                      [e \in Epochs |-> IF e \in UnclaimedEpochs(user) THEN @[e] + 1 ELSE @[e]]]
      /\ paid' = [e \in Epochs |->
                    IF e \in UnclaimedEpochs(user) THEN paid[e] + RewardOf(user, e) ELSE paid[e]]

ClaimedUpTo(user, e) == lastClaimedEpoch' = [lastClaimedEpoch EXCEPT ![user] = e]

--------------------------------------------------------------------------------
(* The contract *)

\* A user with a balance claims at the old share first.
StakeClaims(user) == stakingBalances[user] > 0

EpochAfterStake_Zero == 0 \* mutation: the epochs before the stake count as unclaimed
EpochAfterStake == epoch - 1

stake(user, amount) ==
  /\ ~paused
  /\ stakingBalances[user] + amount \in MIN_DEPOSIT..MaxBalance
  /\ IF StakeClaims(user) THEN Claim(user, tokens + amount)
     ELSE tokens' = tokens + amount /\ UNCHANGED <<claims, paid>>
  /\ stakingBalances' = [stakingBalances EXCEPT ![user] = @ + amount]
  /\ totalBalance' = totalBalance + amount
  /\ ClaimedUpTo(user, EpochAfterStake)
  /\ UNCHANGED <<withdrawalRequestEpoch, epochReward, paused, epoch, earned, lastWithdrawal,
                 interventions>>

stakingRequestWithdrawal(user, cancel) ==
  /\ stakingBalances[user] # 0
  /\ Claim(user, tokens) /\ ClaimedUpTo(user, epoch - 1)
  /\ withdrawalRequestEpoch' =
       [withdrawalRequestEpoch EXCEPT ![user] = IF cancel THEN 0 ELSE epoch]
  /\ UNCHANGED <<stakingBalances, totalBalance, epochReward, paused, epoch, earned,
                 lastWithdrawal, interventions>>

Locked(user) ==
  \/ withdrawalRequestEpoch[user] = 0
  \/ epoch < withdrawalRequestEpoch[user] + WITHDRAWAL_LOCK_EPOCH

TotalAfterWithdrawal_Twice(amount) == totalBalance - 2 * amount \* mutation: taken off twice
TotalAfterWithdrawal(amount) == totalBalance - amount

stakingWithdrawal(user) ==
  /\ ~paused
  /\ stakingBalances[user] # 0 /\ ~Locked(user)
  /\ stakingBalances[user] <= tokens /\ tokens' = tokens - stakingBalances[user]
  /\ stakingBalances' = [stakingBalances EXCEPT ![user] = 0]
  /\ totalBalance' = TotalAfterWithdrawal(stakingBalances[user])
  /\ ClaimedUpTo(user, 0)
  /\ withdrawalRequestEpoch' = [withdrawalRequestEpoch EXCEPT ![user] = 0]
  /\ lastWithdrawal' = epoch
  /\ UNCHANGED <<epochReward, paused, epoch, earned, claims, paid, interventions>>

\* TaikoL1 has new tokens minted for the time since the last deposit, or someone
\* deposits tokens: an amount for the current epoch.
stakingDepositReward(amount) ==
  /\ ~paused
  /\ epochReward[epoch] + amount <= MaxReward
  /\ tokens' = tokens + amount
  /\ epochReward' = [epochReward EXCEPT ![epoch] = @ + amount]
  /\ UNCHANGED <<stakingBalances, lastClaimedEpoch, withdrawalRequestEpoch, totalBalance,
                 paused, epoch, historyVars, interventions>>

\* The user claims, or somebody for the user.
stakingClaimReward(user) ==
  /\ ~paused
  /\ Claim(user, tokens) /\ ClaimedUpTo(user, epoch - 1)
  /\ UNCHANGED <<stakingBalances, withdrawalRequestEpoch, totalBalance, epochReward, paused,
                 epoch, earned, lastWithdrawal, interventions>>

Intervene ==
  /\ interventions < MaxInterventions /\ interventions' = interventions + 1

stakingSlashing(user, rate) ==
  /\ Intervene
  /\ stakingBalances[user] # 0
  /\ Claim(user, tokens) /\ ClaimedUpTo(user, epoch - 1)
  /\ stakingBalances' = [stakingBalances EXCEPT ![user] = @ - (@ * rate) \div 100]
  /\ UNCHANGED <<withdrawalRequestEpoch, totalBalance, epochReward, paused, epoch, earned,
                 lastWithdrawal>>

pauseUserReward(user, epochs) ==
  /\ Intervene
  /\ Claim(user, tokens) /\ ClaimedUpTo(user, epoch + epochs)
  /\ UNCHANGED <<stakingBalances, withdrawalRequestEpoch, totalBalance, epochReward, paused,
                 epoch, earned, lastWithdrawal>>

PauseContract ==
  /\ Intervene
  /\ paused' = ~paused /\ UNCHANGED <<contractVars, epoch, historyVars>>

\* The next epoch begins.
Tick ==
  /\ epoch < MaxEpoch
  /\ epoch' = epoch + 1
  /\ earned' = [u \in Users |-> IF stakingBalances[u] > 0 THEN earned[u] \cup {epoch}
                                ELSE earned[u]]
  /\ UNCHANGED <<contractVars, paused, claims, paid, lastWithdrawal, interventions>>

Next ==
  \/ \E u \in Users :
       \/ \E amount \in Amounts : stake(u, amount)
       \/ \E cancel \in BOOLEAN : stakingRequestWithdrawal(u, cancel)
       \/ stakingWithdrawal(u) \/ stakingClaimReward(u)
       \/ \E rate \in Rates : stakingSlashing(u, rate)
       \/ \E epochs \in 0..1 : pauseUserReward(u, epochs)
  \/ \E amount \in Rewards : stakingDepositReward(amount)
  \/ PauseContract \/ Tick

Spec == Init /\ [][Next]_vars

--------------------------------------------------------------------------------
(* Properties *)

\* A user is paid for an epoch once at most, and only for one that the user had a
\* stake at the end of: whatever stakes, claims, withdrawals, slashes and pauses
\* of rewards come in between (lastClaimedEpoch).
RewardsEarned ==
  \A u \in Users, e \in Epochs :
    claims[u][e] <= 1 /\ (claims[u][e] = 1 => e \in earned[u])

\* Late stakers and slashed users do not inflate what an epoch pays: it is more than
\* the epoch's reward only if a withdrawal came after the epoch.
EpochNotOverpaid ==
  \A e \in Epochs : e >= lastWithdrawal => paid[e] <= epochReward[e]
================================================================================
