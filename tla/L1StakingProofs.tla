----------------------------- MODULE L1StakingProofs -----------------------------
(***************************************************************************)
(* For any users, stakes, rewards and rates of slashing, and any precision *)
(* of the shares: the stakes are covered by the total balance, a user is   *)
(* paid once for an epoch, and only for one with a stake at its end, and   *)
(* an epoch pays no more than its reward unless a withdrawal came after it. *)
(***************************************************************************)
EXTENDS L1Staking, TotalsProofs

HistoryOK ==
  /\ claims \in [Users -> [Epochs -> Nat]] /\ paid \in [Epochs -> Nat]
  /\ earned \in [Users -> SUBSET Epochs] /\ lastWithdrawal \in Nat

\* What was claimed is over, was earned, and is not claimed again by who has a stake.
ClaimsOK ==
  \A u \in Users, e \in Epochs : claims[u][e] > 0 =>
    /\ claims[u][e] = 1 /\ e \in earned[u] /\ e < epoch
    /\ stakingBalances[u] > 0 => e <= lastClaimedEpoch[u]

\* What a claim would pay was earned.
EarnedOK ==
  \A u \in Users, e \in Epochs :
    stakingBalances[u] > 0 /\ lastClaimedEpoch[u] < e /\ e < epoch => e \in earned[u]

\* The stakes of those who may still claim epoch e.
Open(e) == [u \in Users |-> IF lastClaimedEpoch[u] < e THEN stakingBalances[u] ELSE 0]

\* What an epoch paid, and the shares of those who may still claim it, fit into its
\* reward, unless a withdrawal after the epoch made the shares of the others greater.
PaidOK ==
  \A e \in Epochs :
    /\ e >= epoch => paid[e] = 0
    /\ e >= lastWithdrawal =>
         /\ paid[e] <= epochReward[e]
         /\ paid[e] * totalBalance + epochReward[e] * SumOver(Open(e)) <= epochReward[e] * totalBalance

IInv == TypeOK /\ HistoryOK /\ ClaimsOK /\ EarnedOK /\ PaidOK

----------------------------------------------------------------------------------
(* Arithmetic *)

\* A reward is at most its share of the epoch's reward, in whatever unit shares are
\* counted.
LEMMA RewardIsShare ==
  ASSUME NEW reward \in Nat, NEW stakes \in Nat, NEW sum \in Nat \ {0}, NEW unit \in Nat \ {0}
  PROVE  LET r == (reward * ((stakes * unit) \div sum)) \div unit
         IN  r \in Nat /\ r * sum <= reward * stakes
<1>. DEFINE s == (stakes * unit) \div sum
            r == (reward * s) \div unit
<1>1. stakes * unit \in Nat
  OBVIOUS
<1>2. s \in Nat /\ sum * s <= stakes * unit
  BY <1>1, DivBounds
<1>. HIDE DEF s
<1>3. reward * s \in Nat
  BY <1>2
<1>4. r \in Nat /\ unit * r <= reward * s
  BY <1>3, DivBounds
<1>. HIDE DEF r
<1>5. sum * (unit * r) <= sum * (reward * s)
  BY <1>2, <1>3, <1>4, TimesLe
<1>6. reward * (sum * s) <= reward * (stakes * unit)
  BY <1>1, <1>2, TimesLe
<1>7. sum * (unit * r) = unit * (r * sum)
  BY <1>4
<1>8. sum * (reward * s) = reward * (sum * s)
  BY <1>2
<1>9. reward * (stakes * unit) = unit * (reward * stakes)
  OBVIOUS
<1>10. r * sum \in Nat /\ reward * stakes \in Nat
  BY <1>4
<1>11. unit * (r * sum) \in Nat /\ unit * (reward * stakes) \in Nat /\ reward * (sum * s) \in Nat
  BY <1>2, <1>10
<1>12. unit * (r * sum) <= unit * (reward * stakes)
  BY <1>5, <1>6, <1>7, <1>8, <1>9, <1>11
<1>13. r * sum <= reward * stakes
  BY <1>10, <1>12, TimesCancel
<1>. QED
  BY <1>4, <1>13 DEF r, s

\* What an epoch paid and its open shares fit into its reward after a claim of one of
\* them, and new stakes do not change that.
LEMMA PayOne ==
  ASSUME NEW reward \in Nat, NEW sum \in Nat, NEW p \in Nat, NEW r \in Nat, NEW rest \in Nat,
         NEW w \in Nat, NEW more \in Nat,
         p <= reward, p * sum + reward * (rest + w) <= reward * sum,
         r * sum <= reward * w, sum = 0 => r = 0
  PROVE  p + r <= reward /\ (p + r) * (sum + more) + reward * rest <= reward * (sum + more)
<1>1. /\ p * sum \in Nat /\ r * sum \in Nat /\ reward * rest \in Nat /\ reward * w \in Nat
      /\ reward * sum \in Nat /\ reward * (rest + w) = reward * rest + reward * w
      /\ (p + r) * sum = p * sum + r * sum
  OBVIOUS
<1>2. (p + r) * sum + reward * rest <= reward * sum
  BY <1>1
<1>3. p + r <= reward
  <2>1. CASE sum = 0
    BY <2>1
  <2>2. CASE sum # 0
    <3>1. (p + r) * sum <= reward * sum
      BY <1>1, <1>2
    <3>2. (p + r) * sum = sum * (p + r) /\ reward * sum = sum * reward
      OBVIOUS
    <3>3. sum * (p + r) <= sum * reward /\ sum \in Nat \ {0} /\ p + r \in Nat
      BY <2>2, <3>1, <3>2
    <3>. QED
      BY <3>3, TimesCancel
  <2>. QED
    BY <2>1, <2>2
<1>4. (p + r) * more <= reward * more
  BY <1>3, TimesLe
<1>5. /\ (p + r) * (sum + more) = (p + r) * sum + (p + r) * more
      /\ reward * (sum + more) = reward * sum + reward * more
      /\ (p + r) * sum \in Nat /\ (p + r) * more \in Nat /\ reward * more \in Nat
  OBVIOUS
<1>. QED
  BY <1>1, <1>2, <1>3, <1>4, <1>5

----------------------------------------------------------------------------------
(* Sums of stakes *)

\* The sum of stakes as the model folds it is the total of TotalsProofs.
LEMMA SumIsNat ==
  ASSUME NEW f \in [Users -> Nat]
  PROVE  SumOver(f) = Total(f, Users) /\ SumOver(f) \in Nat
<1>1. SumOver(f) = Total(f, Users)
  BY DEF SumOver
<1>2. Total(f, Users) \in Nat
  BY StakingAssumption, TotalNat
<1>. QED
  BY <1>1, <1>2

\* One stake changes.
LEMMA SumChanges ==
  ASSUME NEW f \in [Users -> Nat], NEW u \in Users, NEW b \in Nat, NEW g \in [Users -> Nat],
         g[u] = b, \A v \in Users \ {u} : g[v] = f[v]
  PROVE  /\ f[u] <= SumOver(f)
         /\ SumOver(g) = (SumOver(f) - f[u]) + b
<1>1. /\ g \in [Users -> Nat] /\ g[u] = b /\ \A v \in Users \ {u} : g[v] = f[v]
      /\ \A v \in Users : g[v] \in Nat
  OBVIOUS
<1>2. SumOver(f) = Total(f, Users) /\ SumOver(g) = Total(g, Users)
  BY <1>1, SumIsNat
<1>3. IsFiniteSet(Users) /\ IsFiniteSet(Users \ {u})
  BY StakingAssumption, FS_Subset
<1>4. Total(f, Users) = f[u] + Total(f, Users \ {u})
  BY <1>3, TotalRemove
<1>5. Total(g, Users) = g[u] + Total(g, Users \ {u})
  BY <1>1, <1>3, TotalRemove
<1>6. Total(g, Users \ {u}) = Total(f, Users \ {u})
  BY <1>1, <1>3, TotalSame
<1>7. Total(f, Users \ {u}) \in Nat
  BY <1>3, TotalNat
<1>8. f[u] \in Nat
  OBVIOUS
<1>. QED
  BY <1>1, <1>2, <1>4, <1>5, <1>6, <1>7, <1>8

\* The open stakes of an epoch are some of the stakes, and the total balance covers them.
LEMMA OpenIsCovered ==
  ASSUME TypeOK, NEW e \in Epochs
  PROVE  /\ Open(e) \in [Users -> Nat] /\ SumOver(Open(e)) \in Nat
         /\ SumOver(Open(e)) <= totalBalance
<1>1. /\ stakingBalances \in [Users -> Nat] /\ lastClaimedEpoch \in [Users -> Nat]
      /\ totalBalance \in Nat /\ SumOver(stakingBalances) <= totalBalance
  BY DEF TypeOK
<1>2. Open(e) \in [Users -> Nat] /\ \A u \in Users : Open(e)[u] <= stakingBalances[u]
  BY <1>1 DEF Open
<1>. DEFINE f == Open(e)
<1>. HIDE DEF f
<1>3. /\ f \in [Users -> Nat]
      /\ \A u \in Users : f[u] \in Nat /\ stakingBalances[u] \in Nat /\ f[u] <= stakingBalances[u]
  BY <1>1, <1>2 DEF f
<1>4. Total(f, Users) <= Total(stakingBalances, Users)
  BY <1>3, StakingAssumption, TotalLe
<1>5. /\ SumOver(f) = Total(f, Users) /\ SumOver(f) \in Nat
      /\ SumOver(stakingBalances) = Total(stakingBalances, Users) /\ SumOver(stakingBalances) \in Nat
  BY <1>1, <1>3, SumIsNat
<1>. QED
  BY <1>1, <1>2, <1>4, <1>5 DEF f

----------------------------------------------------------------------------------
(* Claims *)

EpochsAreNat == Epochs \subseteq Nat /\ \A e \in Epochs : e - 1 \in Nat /\ e > 0

\* Epochs are counted from a first one that is larger than the claim window.
LEMMA EpochFacts == EpochsAreNat
BY StakingAssumption DEF EpochsAreNat, Epochs

\* Epoch e pays u no more than u's share of its reward.
PaysShare(u, e) ==
  \E r \in Nat : /\ paid'[e] = paid[e] + r
                 /\ r * totalBalance <= epochReward[e] * Open(e)[u]
                 /\ totalBalance = 0 => r = 0
                 /\ e >= epoch => r = 0

\* What a claim of u leaves of the history: each epoch that it pays gets one claim
\* more.
Pays(u) ==
  /\ claims' \in [Users -> [Epochs -> Nat]] /\ paid' \in [Epochs -> Nat]
  /\ \A v \in Users \ {u} : claims'[v] = claims[v]
  /\ \A e \in Epochs : claims'[u][e] = IF e \in UnclaimedEpochs(u) THEN claims[u][e] + 1 ELSE claims[u][e]
  /\ \A e \in Epochs : PaysShare(u, e)

\* A reward is a rounded-down share, so times the total balance it is no more than
\* the stake times the reward of the epoch.
LEMMA RewardOfType ==
  ASSUME TypeOK, NEW u \in Users, NEW e \in Epochs, e \in UnclaimedEpochs(u)
  PROVE  /\ RewardOf(u, e) \in Nat /\ totalBalance # 0
         /\ RewardOf(u, e) * totalBalance <= epochReward[e] * Open(e)[u]
<1>1. /\ stakingBalances[u] \in Nat \ {0} /\ totalBalance \in Nat /\ epochReward[e] \in Nat
      /\ lastClaimedEpoch[u] < e /\ ShareUnit \in Nat \ {0}
  BY StakingAssumption DEF TypeOK, UnclaimedEpochs
<1>2. Open(e)[u] = stakingBalances[u]
  BY <1>1 DEF Open
<1>3. Open(e)[u] <= SumOver(Open(e)) /\ SumOver(Open(e)) <= totalBalance /\ SumOver(Open(e)) \in Nat
  <2>1. Open(e) \in [Users -> Nat] /\ SumOver(Open(e)) <= totalBalance /\ SumOver(Open(e)) \in Nat
    BY OpenIsCovered
  <2>. DEFINE f == Open(e)
  <2>. HIDE DEF f
  <2>2. f \in [Users -> Nat]
    BY <2>1 DEF f
  <2>3. f[u] <= SumOver(f)
    BY <2>2, SumChanges
  <2>. QED
    BY <2>1, <2>3 DEF f
<1>4. totalBalance \in Nat \ {0}
  BY <1>1, <1>2, <1>3
<1>. QED
  BY <1>1, <1>2, <1>4, RewardIsShare DEF RewardOf, Share

\* stakingClaimReward: a claim of u pays each unclaimed epoch once, and its share.
LEMMA ClaimPays ==
  ASSUME TypeOK, HistoryOK, NEW u \in Users, NEW held \in Nat, Claim(u, held)
  PROVE  Pays(u) /\ tokens' \in Nat
<1>. DEFINE E == UnclaimedEpochs(u)
            f == [e \in E |-> RewardOf(u, e)]
<1>1. E \subseteq Epochs /\ IsFiniteSet(E)
  <2>1. IsFiniteSet(Epochs)
    BY StakingAssumption, FS_Interval DEF Epochs
  <2>2. E \subseteq Epochs
    BY DEF UnclaimedEpochs
  <2>. HIDE DEF E
  <2>. QED
    BY <2>1, <2>2, FS_Subset
<1>2. \A e \in E : e \in Epochs /\ RewardOf(u, e) \in Nat
  BY <1>1, RewardOfType
<1>3. stakingCalculateRewardDebt(u) = Total(f, E)
  BY DEF stakingCalculateRewardDebt, SumOver
<1>. HIDE DEF E
<1>4. \A e \in E : f[e] \in Nat
  BY <1>2
<1>. HIDE DEF f
<1>5. Total(f, E) \in Nat
  BY <1>1, <1>4, TotalNat
<1>6. /\ Total(f, E) <= held /\ tokens' = held - Total(f, E)
      /\ claims' = [claims EXCEPT ![u] = [e \in Epochs |-> IF e \in E THEN @[e] + 1 ELSE @[e]]]
      /\ paid' = [e \in Epochs |-> IF e \in E THEN paid[e] + RewardOf(u, e) ELSE paid[e]]
  BY <1>3 DEF Claim, E
<1>7. tokens' \in Nat
  BY <1>5, <1>6
<1>8. /\ claims' \in [Users -> [Epochs -> Nat]]
      /\ \A v \in Users \ {u} : claims'[v] = claims[v]
      /\ \A e \in Epochs : claims'[u][e] = IF e \in E THEN claims[u][e] + 1 ELSE claims[u][e]
  BY <1>6 DEF HistoryOK
<1>9. paid' \in [Epochs -> Nat]
  BY <1>2, <1>6 DEF HistoryOK
<1>10. ASSUME NEW e \in Epochs
       PROVE  PaysShare(u, e)
  <2>1. CASE e \in E
    <3>1. paid'[e] = paid[e] + RewardOf(u, e)
      BY <1>6, <2>1
    <3>2. ~(e >= epoch)
      BY <2>1, EpochFacts DEF E, UnclaimedEpochs, EpochsAreNat, TypeOK
    <3>. QED
      BY <2>1, <3>1, <3>2, RewardOfType DEF E, PaysShare
  <2>2. CASE e \notin E
    <3>1. paid'[e] = paid[e] + 0
      BY <1>6, <2>2 DEF HistoryOK
    <3>2. epochReward[e] \in Nat /\ Open(e)[u] \in Nat
      BY OpenIsCovered DEF TypeOK
    <3>3. 0 * totalBalance <= epochReward[e] * Open(e)[u]
      BY <3>2 DEF TypeOK
    <3>. QED
      BY <3>1, <3>3 DEF PaysShare
  <2>. QED
    BY <2>1, <2>2
<1>. QED
  BY <1>7, <1>8, <1>9, <1>10 DEF Pays, E

\* Without a stake there is nothing to claim.
LEMMA NothingPays ==
  ASSUME TypeOK, HistoryOK, NEW u \in Users, stakingBalances[u] = 0
  PROVE  UNCHANGED <<claims, paid>> => Pays(u)
<1>0. SUFFICES ASSUME UNCHANGED <<claims, paid>> PROVE Pays(u)
  OBVIOUS
<1>1. UnclaimedEpochs(u) = {}
  BY DEF UnclaimedEpochs
<1>2. ASSUME NEW e \in Epochs
      PROVE  /\ paid'[e] = paid[e] + 0
             /\ 0 * totalBalance <= epochReward[e] * Open(e)[u]
  <2>1. epochReward[e] \in Nat /\ Open(e)[u] \in Nat
    BY OpenIsCovered DEF TypeOK
  <2>. QED
    BY <1>0, <2>1 DEF HistoryOK, TypeOK
<1>3. \A e \in Epochs : PaysShare(u, e)
  BY <1>2 DEF PaysShare
<1>4. /\ claims' \in [Users -> [Epochs -> Nat]] /\ paid' \in [Epochs -> Nat]
      /\ \A v \in Users : claims'[v] = claims[v]
  BY <1>0 DEF HistoryOK
<1>5. \A e \in Epochs :
        claims'[u][e] = IF e \in UnclaimedEpochs(u) THEN claims[u][e] + 1 ELSE claims[u][e]
  BY <1>1, <1>4
<1>. QED
  BY <1>3, <1>4, <1>5 DEF Pays

----------------------------------------------------------------------------------
(* Steps *)

OpenCovered ==
  \A e \in Epochs : /\ Open(e) \in [Users -> Nat] /\ SumOver(Open(e)) \in Nat
                    /\ SumOver(Open(e)) <= totalBalance

\* The stakes open for an epoch are some of all stakes.
LEMMA OpenStaysCovered == TypeOK' => OpenCovered'
<1>1. TypeOK => OpenCovered
  BY OpenIsCovered DEF OpenCovered
<1>2. (TypeOK => OpenCovered)'
  BY <1>1, PTL
<1>. QED
  BY <1>2

\* An epoch that paid nothing is covered.
LEMMA PayNothing ==
  ASSUME NEW reward \in Nat, NEW sum \in Nat, NEW open \in Nat, open <= sum
  PROVE  0 <= reward /\ 0 * sum + reward * open <= reward * sum
<1>1. reward * open <= reward * sum
  BY TimesLe
<1>2. reward * open \in Nat /\ reward * sum \in Nat /\ 0 * sum = 0
  OBVIOUS
<1>. QED
  BY <1>1, <1>2

\* An epoch that paid nothing has a reward for whoever may claim it.
LEMMA NothingPaidYet ==
  ASSUME TypeOK', NEW e \in Epochs, paid'[e] = 0
  PROVE  /\ paid'[e] <= epochReward'[e]
         /\ paid'[e] * totalBalance' + epochReward'[e] * SumOver(Open(e)') <= epochReward'[e] * totalBalance'
<1>1. SumOver(Open(e)') \in Nat /\ SumOver(Open(e)') <= totalBalance'
  BY OpenStaysCovered DEF OpenCovered
<1>2. epochReward'[e] \in Nat /\ totalBalance' \in Nat
  BY DEF TypeOK
<1>. QED
  BY <1>1, <1>2, PayNothing

\* A user claims up to the last epoch, and no stake but the user's changes.
UserStep(u, x, more) ==
  /\ x \in Nat /\ x >= epoch - 1 /\ more \in Nat
  /\ Pays(u)
  /\ lastClaimedEpoch' = [lastClaimedEpoch EXCEPT ![u] = x]
  /\ \A v \in Users \ {u} : stakingBalances'[v] = stakingBalances[v]
  /\ totalBalance' = totalBalance + more
  /\ UNCHANGED <<epochReward, epoch, earned, lastWithdrawal>>

\* A step of one user keeps PaidOK: what it adds to the payments of an epoch it
\* takes from the stakes that may still claim it.
LEMMA UserStepPays ==
  ASSUME IInv, TypeOK', NEW u \in Users, NEW x, NEW more, UserStep(u, x, more)
  PROVE  PaidOK'
<1>. SUFFICES ASSUME NEW e \in Epochs
              PROVE  /\ e >= epoch => paid'[e] = 0
                     /\ e >= lastWithdrawal =>
                          /\ paid'[e] <= epochReward'[e]
                          /\ paid'[e] * totalBalance' + epochReward'[e] * SumOver(Open(e)')
                               <= epochReward'[e] * totalBalance'
  BY DEF PaidOK, UserStep
<1>1. PICK r \in Nat : /\ paid'[e] = paid[e] + r
                       /\ r * totalBalance <= epochReward[e] * Open(e)[u]
                       /\ totalBalance = 0 => r = 0
                       /\ e >= epoch => r = 0
  <2>1. PaysShare(u, e)
    BY DEF UserStep, Pays
  <2>. QED
    BY <2>1 DEF PaysShare
<1>2. /\ e \in Nat /\ epoch \in Nat /\ paid[e] \in Nat /\ epochReward[e] \in Nat
      /\ totalBalance \in Nat
  BY EpochFacts DEF EpochsAreNat, IInv, TypeOK, HistoryOK
<1>3. ASSUME e >= epoch
      PROVE  paid'[e] = 0
  BY <1>1, <1>2, <1>3 DEF IInv, PaidOK
<1>4. CASE e >= epoch
  BY <1>3, <1>4, NothingPaidYet
<1>5. CASE ~(e >= epoch) /\ e >= lastWithdrawal
  <2>. DEFINE f == Open(e)
              g == Open(e)'
  <2>1. /\ x \in Nat /\ x >= e /\ more \in Nat
        /\ lastClaimedEpoch' = [lastClaimedEpoch EXCEPT ![u] = x]
        /\ \A v \in Users \ {u} : stakingBalances'[v] = stakingBalances[v]
        /\ totalBalance' = totalBalance + more
        /\ epochReward' = epochReward
    BY <1>2, <1>5 DEF UserStep
  <2>2. f \in [Users -> Nat] /\ SumOver(f) \in Nat
    BY OpenIsCovered DEF IInv
  <2>3. g \in [Users -> Nat] /\ SumOver(g) \in Nat
    BY OpenStaysCovered DEF OpenCovered
  <2>4. lastClaimedEpoch'[u] = x /\ \A v \in Users \ {u} : lastClaimedEpoch'[v] = lastClaimedEpoch[v]
    BY <2>1 DEF IInv, TypeOK
  <2>5. g[u] = 0 /\ \A v \in Users \ {u} : g[v] = f[v]
    BY <1>2, <2>1, <2>4 DEF Open
  <2>6. paid[e] <= epochReward[e]
        /\ paid[e] * totalBalance + epochReward[e] * SumOver(f) <= epochReward[e] * totalBalance
    BY <1>5 DEF IInv, PaidOK
  <2>7. r * totalBalance <= epochReward[e] * f[u]
    BY <1>1
  <2>. HIDE DEF f, g
  <2>8. f[u] <= SumOver(f) /\ SumOver(g) = (SumOver(f) - f[u]) + 0
    BY <2>2, <2>3, <2>5, SumChanges
  <2>9. SumOver(f) = SumOver(g) + f[u] /\ f[u] \in Nat
    BY <2>2, <2>3, <2>8
  <2>10. /\ paid[e] + r <= epochReward[e]
         /\ (paid[e] + r) * (totalBalance + more) + epochReward[e] * SumOver(g)
               <= epochReward[e] * (totalBalance + more)
    BY <1>1, <1>2, <2>1, <2>3, <2>6, <2>7, <2>9, PayOne
  <2>. QED
    BY <1>1, <1>5, <2>1, <2>10 DEF g
<1>. QED
  BY <1>4, <1>5

\* A step of one user keeps the invariant, once its types are known.
LEMMA UserStepKeeps ==
  ASSUME IInv, TypeOK', NEW u \in Users, NEW x, NEW more, UserStep(u, x, more)
  PROVE  IInv'
<1>1. /\ x \in Nat /\ x >= epoch - 1
      /\ lastClaimedEpoch' = [lastClaimedEpoch EXCEPT ![u] = x]
      /\ \A v \in Users \ {u} : stakingBalances'[v] = stakingBalances[v] /\ claims'[v] = claims[v]
      /\ \A e \in Epochs : claims'[u][e] = IF e \in UnclaimedEpochs(u) THEN claims[u][e] + 1 ELSE claims[u][e]
      /\ UNCHANGED <<epoch, earned, lastWithdrawal>>
  BY DEF UserStep, Pays
<1>2. lastClaimedEpoch'[u] = x /\ \A v \in Users \ {u} : lastClaimedEpoch'[v] = lastClaimedEpoch[v]
  BY <1>1 DEF IInv, TypeOK
<1>3. HistoryOK'
  BY DEF UserStep, Pays, IInv, HistoryOK
<1>4. /\ \A e \in Epochs : e \in Nat
      /\ epoch \in Nat /\ stakingBalances \in [Users -> Nat] /\ lastClaimedEpoch \in [Users -> Nat]
      /\ claims \in [Users -> [Epochs -> Nat]]
  BY EpochFacts DEF EpochsAreNat, IInv, TypeOK, HistoryOK
<1>5. ClaimsOK'
  <2>. SUFFICES ASSUME NEW v \in Users, NEW e \in Epochs, claims'[v][e] > 0
                PROVE  /\ claims'[v][e] = 1 /\ e \in earned[v] /\ e < epoch
                       /\ stakingBalances'[v] > 0 => e <= lastClaimedEpoch'[v]
    BY <1>1 DEF ClaimsOK
  <2>1. CASE v # u
    <3>1. /\ claims'[v] = claims[v] /\ stakingBalances'[v] = stakingBalances[v]
          /\ lastClaimedEpoch'[v] = lastClaimedEpoch[v]
      BY <1>1, <1>2, <2>1
    <3>. QED
      BY <3>1 DEF IInv, ClaimsOK
  <2>2. CASE v = u /\ e \in UnclaimedEpochs(u)
    <3>1. stakingBalances[u] > 0 /\ lastClaimedEpoch[u] < e /\ e < epoch
      BY <1>4, <2>2 DEF UnclaimedEpochs
    <3>2. ~(claims[u][e] > 0)
      BY <1>4, <3>1 DEF IInv, ClaimsOK
    <3>3. claims[u][e] = 0
      BY <1>4, <3>2
    <3>4. claims'[u][e] = 1
      BY <1>1, <2>2, <3>3
    <3>5. e \in earned[u]
      BY <3>1 DEF IInv, EarnedOK
    <3>. QED
      BY <1>1, <1>2, <1>4, <2>2, <3>1, <3>4, <3>5
  <2>3. CASE v = u /\ e \notin UnclaimedEpochs(u)
    <3>1. claims[u][e] = claims'[u][e]
      BY <1>1, <2>3
    <3>2. claims[u][e] = 1 /\ e \in earned[u] /\ e < epoch
      BY <2>3, <3>1 DEF IInv, ClaimsOK
    <3>. QED
      BY <1>1, <1>2, <1>4, <2>3, <3>1, <3>2
  <2>. QED
    BY <2>1, <2>2, <2>3
<1>6. EarnedOK'
  <2>. SUFFICES ASSUME NEW v \in Users, NEW e \in Epochs, stakingBalances'[v] > 0,
                       lastClaimedEpoch'[v] < e, e < epoch
                PROVE  e \in earned[v]
    BY <1>1 DEF EarnedOK
  <2>1. v # u
    BY <1>1, <1>2, <1>4
  <2>. QED
    BY <1>1, <1>2, <2>1 DEF IInv, EarnedOK
<1>7. PaidOK'
  BY UserStepPays
<1>. QED
  BY <1>3, <1>5, <1>6, <1>7 DEF IInv

\* Writing one stake changes the sum by the difference.
LEMMA SumOfStakes ==
  ASSUME TypeOK, NEW u \in Users, NEW b \in 0 .. MaxBalance,
         stakingBalances' = [stakingBalances EXCEPT ![u] = b]
  PROVE  /\ stakingBalances' \in [Users -> 0 .. MaxBalance]
         /\ stakingBalances[u] \in Nat /\ SumOver(stakingBalances) \in Nat
         /\ stakingBalances[u] <= SumOver(stakingBalances)
         /\ SumOver(stakingBalances)' = (SumOver(stakingBalances) - stakingBalances[u]) + b
<1>. DEFINE f == stakingBalances
            g == stakingBalances'
<1>1. f \in [Users -> Nat] /\ g \in [Users -> 0 .. MaxBalance] /\ g \in [Users -> Nat]
  BY StakingAssumption DEF TypeOK
<1>2. g[u] = b /\ \A v \in Users \ {u} : g[v] = f[v]
  BY DEF TypeOK
<1>3. SumOver(stakingBalances)' = SumOver(g)
  OBVIOUS
<1>4. b \in Nat
  BY StakingAssumption
<1>. HIDE DEF f, g
<1>5. f[u] <= SumOver(f) /\ SumOver(g) = (SumOver(f) - f[u]) + b
  BY <1>1, <1>2, <1>4, SumChanges
<1>6. SumOver(f) \in Nat
  BY <1>1, SumIsNat
<1>. QED
  BY <1>1, <1>3, <1>5, <1>6 DEF f, g

\* The types after a step of one user, hence the whole invariant.
LEMMA UserStepType ==
  ASSUME IInv, NEW u \in Users, NEW x, NEW more, UserStep(u, x, more),
         NEW b \in 0 .. MaxBalance, b <= stakingBalances[u] + more,
         stakingBalances' = [stakingBalances EXCEPT ![u] = b],
         withdrawalRequestEpoch' \in [Users -> 0 .. MaxEpoch],
         tokens' \in Nat, paused' \in BOOLEAN, interventions' \in 0 .. MaxInterventions
  PROVE  IInv'
<1>1. /\ stakingBalances' \in [Users -> 0 .. MaxBalance]
      /\ stakingBalances[u] \in Nat /\ SumOver(stakingBalances) \in Nat
      /\ SumOver(stakingBalances)' = (SumOver(stakingBalances) - stakingBalances[u]) + b
  BY SumOfStakes DEF IInv
<1>2. /\ x \in Nat /\ more \in Nat /\ lastClaimedEpoch' = [lastClaimedEpoch EXCEPT ![u] = x]
      /\ totalBalance' = totalBalance + more /\ UNCHANGED <<epochReward, epoch>>
  BY DEF UserStep
<1>3. totalBalance' \in Nat /\ SumOver(stakingBalances)' <= totalBalance'
  BY <1>1, <1>2, StakingAssumption DEF IInv, TypeOK
<1>4. lastClaimedEpoch' \in [Users -> Nat] /\ epochReward' \in [Epochs -> 0 .. MaxReward] /\ epoch' \in Epochs
  BY <1>2 DEF IInv, TypeOK
<1>5. TypeOK'
  BY <1>1, <1>3, <1>4 DEF TypeOK
<1>. QED
  BY <1>5, UserStepKeeps

\* A claim is a step of its user that leaves nothing unclaimed before this epoch.
LEMMA ClaimUpToNow ==
  ASSUME IInv, NEW u \in Users, NEW held \in Nat, Claim(u, held), ClaimedUpTo(u, epoch - 1),
         \A v \in Users \ {u} : stakingBalances'[v] = stakingBalances[v],
         UNCHANGED <<totalBalance, epochReward, epoch, earned, lastWithdrawal>>
  PROVE  UserStep(u, epoch - 1, 0) /\ tokens' \in Nat
<1>1. Pays(u) /\ tokens' \in Nat
  BY ClaimPays DEF IInv
<1>2. epoch - 1 \in Nat /\ epoch \in Nat /\ totalBalance \in Nat
  BY EpochFacts DEF IInv, TypeOK, EpochsAreNat
<1>3. totalBalance' = totalBalance + 0
  BY <1>2
<1>4. UNCHANGED <<epochReward, epoch, earned, lastWithdrawal>>
  OBVIOUS
<1>. QED
  BY <1>1, <1>2, <1>3, <1>4 DEF UserStep, ClaimedUpTo

\* A step that keeps a stake writes it with its own value.
LEMMA KeptStake ==
  ASSUME TypeOK, NEW u \in Users
  PROVE  /\ stakingBalances[u] \in 0 .. MaxBalance
         /\ stakingBalances[u] <= stakingBalances[u] + 0
         /\ stakingBalances = [stakingBalances EXCEPT ![u] = stakingBalances[u]]
BY StakingAssumption DEF TypeOK

\* stake: who has a stake claims first, so the new tokens earn nothing for past epochs.
LEMMA StakeKeeps ==
  ASSUME IInv, NEW u \in Users, NEW amount \in Amounts, stake(u, amount)
  PROVE  IInv'
<1>1. amount \in Nat /\ tokens \in Nat /\ tokens + amount \in Nat /\ epoch - 1 \in Nat /\ epoch \in Nat
  BY StakingAssumption, EpochFacts DEF IInv, TypeOK, EpochsAreNat
<1>. DEFINE b == stakingBalances[u] + amount
<1>2. /\ b \in 0 .. MaxBalance /\ stakingBalances[u] \in Nat
      /\ stakingBalances' = [stakingBalances EXCEPT ![u] = b]
  BY <1>1, StakingAssumption DEF stake, IInv, TypeOK
<1>3. Pays(u) /\ tokens' \in Nat
  <2>1. CASE StakeClaims(u)
    BY <1>1, <2>1, ClaimPays DEF stake, IInv
  <2>2. CASE ~StakeClaims(u)
    <3>1. stakingBalances[u] = 0
      BY <1>2, <2>2 DEF StakeClaims
    <3>2. UNCHANGED <<claims, paid>> /\ tokens' \in Nat
      BY <1>1, <2>2 DEF stake
    <3>. QED
      BY <3>1, <3>2, NothingPays DEF IInv
  <2>. QED
    BY <2>1, <2>2
<1>4. UserStep(u, epoch - 1, amount)
  <2>1. \A v \in Users \ {u} : stakingBalances'[v] = stakingBalances[v]
    BY <1>2 DEF IInv, TypeOK
  <2>. QED
    BY <1>1, <1>3, <2>1 DEF stake, UserStep, ClaimedUpTo, EpochAfterStake
<1>5. /\ withdrawalRequestEpoch' \in [Users -> 0 .. MaxEpoch]
      /\ paused' \in BOOLEAN /\ interventions' \in 0 .. MaxInterventions
  BY DEF stake, IInv, TypeOK
<1>6. b <= stakingBalances[u] + amount
  BY <1>1, <1>2
<1>. HIDE DEF b
<1>. QED
  BY <1>2, <1>3, <1>4, <1>5, <1>6, UserStepType

\* stakingRequestWithdrawal, and its cancellation.
LEMMA RequestWithdrawalKeeps ==
  ASSUME IInv, NEW u \in Users, NEW cancel \in BOOLEAN, stakingRequestWithdrawal(u, cancel)
  PROVE  IInv'
<1>1. /\ Claim(u, tokens) /\ ClaimedUpTo(u, epoch - 1) /\ tokens \in Nat
      /\ \A v \in Users \ {u} : stakingBalances'[v] = stakingBalances[v]
      /\ UNCHANGED <<totalBalance, epochReward, epoch, earned, lastWithdrawal>>
  BY DEF stakingRequestWithdrawal, IInv, TypeOK
<1>2. UserStep(u, epoch - 1, 0) /\ tokens' \in Nat
  BY <1>1, ClaimUpToNow
<1>3. stakingBalances' = [stakingBalances EXCEPT ![u] = stakingBalances[u]]
  BY KeptStake DEF stakingRequestWithdrawal, IInv
<1>4. epoch \in 0 .. MaxEpoch /\ 0 \in 0 .. MaxEpoch
  BY StakingAssumption DEF IInv, TypeOK, Epochs
<1>5. withdrawalRequestEpoch' \in [Users -> 0 .. MaxEpoch]
  BY <1>4 DEF stakingRequestWithdrawal, IInv, TypeOK
<1>6. paused' \in BOOLEAN /\ interventions' \in 0 .. MaxInterventions
  BY DEF stakingRequestWithdrawal, IInv, TypeOK
<1>7. stakingBalances[u] \in 0 .. MaxBalance /\ stakingBalances[u] <= stakingBalances[u] + 0
  BY KeptStake DEF IInv
<1>. QED
  BY <1>2, <1>3, <1>5, <1>6, <1>7, UserStepType

\* stakingClaimReward moves rewards and no stake.
LEMMA ClaimRewardKeeps ==
  ASSUME IInv, NEW u \in Users, stakingClaimReward(u)
  PROVE  IInv'
<1>1. /\ Claim(u, tokens) /\ ClaimedUpTo(u, epoch - 1) /\ tokens \in Nat
      /\ \A v \in Users \ {u} : stakingBalances'[v] = stakingBalances[v]
      /\ UNCHANGED <<totalBalance, epochReward, epoch, earned, lastWithdrawal>>
  BY DEF stakingClaimReward, IInv, TypeOK
<1>2. UserStep(u, epoch - 1, 0) /\ tokens' \in Nat
  BY <1>1, ClaimUpToNow
<1>3. stakingBalances' = [stakingBalances EXCEPT ![u] = stakingBalances[u]]
  BY KeptStake DEF stakingClaimReward, IInv
<1>4. /\ withdrawalRequestEpoch' \in [Users -> 0 .. MaxEpoch]
      /\ paused' \in BOOLEAN /\ interventions' \in 0 .. MaxInterventions
  BY DEF stakingClaimReward, IInv, TypeOK
<1>5. stakingBalances[u] \in 0 .. MaxBalance /\ stakingBalances[u] <= stakingBalances[u] + 0
  BY KeptStake DEF IInv
<1>. QED
  BY <1>2, <1>3, <1>4, <1>5, UserStepType

\* The interventions of the owner are counted.
LEMMA InterveneType ==
  ASSUME TypeOK, Intervene
  PROVE  interventions' \in 0 .. MaxInterventions
BY StakingAssumption DEF TypeOK, Intervene

\* A part of a stake, in percent.
LEMMA PartOfStake ==
  ASSUME NEW a \in Nat, NEW rate \in 0 .. 100
  PROVE  (a * rate) \div 100 \in 0 .. a
<1>1. a * rate \in Nat /\ a * rate <= a * 100
  BY TimesLe
<1>2. (a * rate) \div 100 \in Nat /\ 100 * ((a * rate) \div 100) <= a * rate
  BY <1>1, DivBounds
<1>. DEFINE q == (a * rate) \div 100
<1>. HIDE DEF q
<1>3. q \in Nat /\ 100 * q <= a * 100
  BY <1>1, <1>2 DEF q
<1>4. q <= a
  BY <1>3
<1>. QED
  BY <1>3, <1>4 DEF q

\* stakingSlashing reduces a stake after its rewards were claimed.
LEMMA SlashingKeeps ==
  ASSUME IInv, NEW u \in Users, NEW rate \in Rates, stakingSlashing(u, rate)
  PROVE  IInv'
<1>. DEFINE b == stakingBalances[u] - (stakingBalances[u] * rate) \div 100
<1>1. rate \in 0 .. 100 /\ stakingBalances[u] \in 0 .. MaxBalance /\ stakingBalances[u] \in Nat
      /\ MaxBalance \in Nat
  BY StakingAssumption DEF IInv, TypeOK
<1>2. (stakingBalances[u] * rate) \div 100 \in 0 .. stakingBalances[u]
  BY <1>1, PartOfStake
<1>3. b \in 0 .. MaxBalance /\ b <= stakingBalances[u] + 0
  BY <1>1, <1>2
<1>4. stakingBalances' = [stakingBalances EXCEPT ![u] = b]
  BY DEF stakingSlashing, IInv, TypeOK
<1>. HIDE DEF b
<1>5. /\ Claim(u, tokens) /\ ClaimedUpTo(u, epoch - 1) /\ tokens \in Nat
      /\ \A v \in Users \ {u} : stakingBalances'[v] = stakingBalances[v]
      /\ UNCHANGED <<totalBalance, epochReward, epoch, earned, lastWithdrawal>>
  BY <1>4 DEF stakingSlashing, IInv, TypeOK
<1>6. UserStep(u, epoch - 1, 0) /\ tokens' \in Nat
  BY <1>5, ClaimUpToNow
<1>7. withdrawalRequestEpoch' \in [Users -> 0 .. MaxEpoch] /\ paused' \in BOOLEAN
  BY DEF stakingSlashing, IInv, TypeOK
<1>8. interventions' \in 0 .. MaxInterventions
  BY InterveneType DEF stakingSlashing, IInv
<1>. QED
  BY <1>3, <1>4, <1>6, <1>7, <1>8, UserStepType

\* pauseUserReward moves the start of a user's claims.
LEMMA PauseUserRewardKeeps ==
  ASSUME IInv, NEW u \in Users, NEW epochs \in 0 .. 1, pauseUserReward(u, epochs)
  PROVE  IInv'
<1>1. tokens \in Nat /\ epoch \in Nat /\ epoch + epochs \in Nat /\ epoch + epochs >= epoch - 1
      /\ totalBalance \in Nat
  BY EpochFacts DEF IInv, TypeOK, EpochsAreNat
<1>2. Pays(u) /\ tokens' \in Nat
  BY <1>1, ClaimPays DEF pauseUserReward, IInv
<1>3. UserStep(u, epoch + epochs, 0)
  BY <1>1, <1>2 DEF pauseUserReward, UserStep, ClaimedUpTo
<1>4. stakingBalances' = [stakingBalances EXCEPT ![u] = stakingBalances[u]]
  BY KeptStake DEF pauseUserReward, IInv
<1>5. withdrawalRequestEpoch' \in [Users -> 0 .. MaxEpoch] /\ paused' \in BOOLEAN
  BY DEF pauseUserReward, IInv, TypeOK
<1>6. interventions' \in 0 .. MaxInterventions
  BY InterveneType DEF pauseUserReward, IInv
<1>7. stakingBalances[u] \in 0 .. MaxBalance /\ stakingBalances[u] <= stakingBalances[u] + 0
  BY KeptStake DEF IInv
<1>. QED
  BY <1>2, <1>3, <1>4, <1>5, <1>6, <1>7, UserStepType

\* A withdrawal takes the whole stake out of the total, and lets the others have greater
\* shares of the epochs before it.
LEMMA WithdrawalKeeps ==
  ASSUME IInv, NEW u \in Users, stakingWithdrawal(u)
  PROVE  IInv'
<1>1. /\ stakingBalances' = [stakingBalances EXCEPT ![u] = 0]
      /\ totalBalance' = totalBalance - stakingBalances[u]
      /\ lastClaimedEpoch' = [lastClaimedEpoch EXCEPT ![u] = 0]
      /\ withdrawalRequestEpoch' = [withdrawalRequestEpoch EXCEPT ![u] = 0]
      /\ stakingBalances[u] <= tokens /\ tokens' = tokens - stakingBalances[u]
      /\ lastWithdrawal' = epoch
      /\ UNCHANGED <<epochReward, paused, epoch, earned, claims, paid, interventions>>
  BY DEF stakingWithdrawal, TotalAfterWithdrawal, ClaimedUpTo
<1>2. 0 \in 0 .. MaxBalance /\ 0 \in 0 .. MaxEpoch
  BY StakingAssumption, EpochFacts DEF EpochsAreNat, IInv, TypeOK, Epochs
<1>3. /\ stakingBalances' \in [Users -> 0 .. MaxBalance]
      /\ stakingBalances[u] \in Nat /\ SumOver(stakingBalances) \in Nat
      /\ stakingBalances[u] <= SumOver(stakingBalances)
      /\ SumOver(stakingBalances)' = (SumOver(stakingBalances) - stakingBalances[u]) + 0
  BY <1>1, <1>2, SumOfStakes DEF IInv
<1>4. totalBalance \in Nat /\ SumOver(stakingBalances) <= totalBalance
  BY DEF IInv, TypeOK
<1>5. totalBalance' \in Nat /\ SumOver(stakingBalances)' <= totalBalance'
  BY <1>1, <1>3, <1>4
<1>6. /\ lastClaimedEpoch' \in [Users -> Nat] /\ withdrawalRequestEpoch' \in [Users -> 0 .. MaxEpoch]
      /\ tokens' \in Nat
  BY <1>1, <1>2, <1>3 DEF IInv, TypeOK
<1>7. TypeOK'
  BY <1>1, <1>3, <1>5, <1>6 DEF IInv, TypeOK
<1>8. /\ epoch \in Nat /\ \A e \in Epochs : e \in Nat
      /\ stakingBalances'[u] = 0
      /\ \A v \in Users \ {u} : /\ stakingBalances'[v] = stakingBalances[v]
                               /\ lastClaimedEpoch'[v] = lastClaimedEpoch[v]
  BY <1>1, EpochFacts DEF IInv, TypeOK, EpochsAreNat
<1>9. HistoryOK'
  BY <1>1, <1>8 DEF IInv, HistoryOK
<1>10. ClaimsOK'
  <2>. SUFFICES ASSUME NEW v \in Users, NEW e \in Epochs, claims[v][e] > 0
                PROVE  /\ claims[v][e] = 1 /\ e \in earned[v] /\ e < epoch
                       /\ stakingBalances'[v] > 0 => e <= lastClaimedEpoch'[v]
    BY <1>1 DEF ClaimsOK
  <2>1. /\ claims[v][e] = 1 /\ e \in earned[v] /\ e < epoch
        /\ stakingBalances[v] > 0 => e <= lastClaimedEpoch[v]
    BY DEF IInv, ClaimsOK
  <2>2. CASE v = u
    BY <1>8, <2>1, <2>2
  <2>3. CASE v # u
    BY <1>8, <2>1, <2>3
  <2>. QED
    BY <2>2, <2>3
<1>11. EarnedOK'
  <2>. SUFFICES ASSUME NEW v \in Users, NEW e \in Epochs, stakingBalances'[v] > 0,
                       lastClaimedEpoch'[v] < e, e < epoch
                PROVE  e \in earned[v]
    BY <1>1 DEF EarnedOK
  <2>1. v # u
    BY <1>8
  <2>. QED
    BY <1>8, <2>1 DEF IInv, EarnedOK
<1>12. PaidOK'
  <2>. SUFFICES ASSUME NEW e \in Epochs, e >= epoch
                PROVE  /\ paid'[e] = 0
                       /\ paid'[e] <= epochReward'[e]
                       /\ paid'[e] * totalBalance' + epochReward'[e] * SumOver(Open(e)')
                            <= epochReward'[e] * totalBalance'
    BY <1>1 DEF PaidOK
  <2>1. paid'[e] = 0
    BY <1>1 DEF IInv, PaidOK
  <2>. QED
    BY <1>7, <2>1, NothingPaidYet
<1>. QED
  BY <1>7, <1>9, <1>10, <1>11, <1>12 DEF IInv

\* stakingDepositReward adds to the running epoch, of which nothing was paid.
LEMMA DepositRewardKeeps ==
  ASSUME IInv, NEW amount \in Rewards, stakingDepositReward(amount)
  PROVE  IInv'
<1>1. /\ epochReward[epoch] + amount <= MaxReward
      /\ tokens' = tokens + amount
      /\ epochReward' = [epochReward EXCEPT ![epoch] = @ + amount]
      /\ UNCHANGED <<stakingBalances, lastClaimedEpoch, withdrawalRequestEpoch, totalBalance, paused,
                      epoch, interventions>>
      /\ UNCHANGED <<earned, claims, paid, lastWithdrawal>>
  BY DEF stakingDepositReward, historyVars
<1>2. amount \in Nat /\ epoch \in Epochs /\ epochReward[epoch] \in Nat
  BY StakingAssumption DEF IInv, TypeOK
<1>3. epochReward' \in [Epochs -> 0 .. MaxReward] /\ tokens' \in Nat
  BY <1>1, <1>2, StakingAssumption DEF IInv, TypeOK
<1>4. TypeOK'
  BY <1>1, <1>3 DEF IInv, TypeOK, SumOver
<1>5. HistoryOK' /\ ClaimsOK' /\ EarnedOK'
  BY <1>1 DEF IInv, HistoryOK, ClaimsOK, EarnedOK
<1>6. PaidOK'
  <2>. SUFFICES ASSUME NEW e \in Epochs
                PROVE  /\ e >= epoch => paid'[e] = 0
                       /\ e >= lastWithdrawal =>
                            /\ paid'[e] <= epochReward'[e]
                            /\ paid'[e] * totalBalance' + epochReward'[e] * SumOver(Open(e)')
                                 <= epochReward'[e] * totalBalance'
    BY <1>1 DEF PaidOK
  <2>1. e >= epoch => paid'[e] = 0
    BY <1>1 DEF IInv, PaidOK
  <2>2. CASE e >= epoch
    BY <1>4, <2>1, <2>2, NothingPaidYet
  <2>3. CASE ~(e >= epoch)
    <3>1. epochReward'[e] = epochReward[e]
      BY <1>1, <1>2, <2>3, EpochFacts DEF IInv, TypeOK, EpochsAreNat
    <3>2. Open(e)' = Open(e)
      BY <1>1 DEF Open
    <3>. QED
      BY <1>1, <2>1, <3>1, <3>2 DEF IInv, PaidOK
  <2>. QED
    BY <2>2, <2>3
<1>. QED
  BY <1>4, <1>5, <1>6 DEF IInv

\* The epoch that ends is earned by whoever has a stake, and has paid nothing.
LEMMA TickKeeps ==
  ASSUME IInv, Tick
  PROVE  IInv'
<1>1. /\ epoch < MaxEpoch /\ epoch' = epoch + 1
      /\ earned' = [u \in Users |-> IF stakingBalances[u] > 0 THEN earned[u] \cup {epoch} ELSE earned[u]]
      /\ UNCHANGED <<stakingBalances, lastClaimedEpoch, withdrawalRequestEpoch, totalBalance,
                      epochReward, tokens, paused, interventions>>
      /\ UNCHANGED <<claims, paid, lastWithdrawal>>
  BY DEF Tick, contractVars
<1>2. epoch \in Nat /\ epoch \in Epochs /\ \A e \in Epochs : e \in Nat
  BY EpochFacts DEF IInv, TypeOK, EpochsAreNat
<1>3. epoch' \in Epochs
  BY <1>1, <1>2, StakingAssumption DEF Epochs
<1>4. TypeOK'
  BY <1>1, <1>3 DEF IInv, TypeOK, SumOver
<1>5. HistoryOK'
  BY <1>1, <1>2 DEF IInv, HistoryOK
<1>6. ASSUME NEW u \in Users
      PROVE  /\ earned[u] \subseteq earned'[u]
             /\ stakingBalances[u] > 0 => epoch \in earned'[u]
  BY <1>1
<1>7. ClaimsOK'
  BY <1>1, <1>2, <1>6 DEF IInv, ClaimsOK
<1>8. EarnedOK'
  <2>. SUFFICES ASSUME NEW u \in Users, NEW e \in Epochs, stakingBalances[u] > 0,
                       lastClaimedEpoch[u] < e, e < epoch + 1
                PROVE  e \in earned'[u]
    BY <1>1 DEF EarnedOK
  <2>1. e < epoch \/ e = epoch
    BY <1>2
  <2>. QED
    BY <1>6, <2>1 DEF IInv, EarnedOK
<1>9. PaidOK'
  <2>. SUFFICES ASSUME NEW e \in Epochs
                PROVE  /\ e >= epoch + 1 => paid[e] = 0
                       /\ e >= lastWithdrawal =>
                            /\ paid[e] <= epochReward[e]
                            /\ paid[e] * totalBalance + epochReward[e] * SumOver(Open(e)')
                                 <= epochReward[e] * totalBalance
    BY <1>1 DEF PaidOK
  <2>1. Open(e)' = Open(e)
    BY <1>1 DEF Open
  <2>2. e >= epoch + 1 => e >= epoch
    BY <1>2
  <2>. QED
    BY <2>1, <2>2 DEF IInv, PaidOK
<1>. QED
  BY <1>4, <1>5, <1>7, <1>8, <1>9 DEF IInv

\* pausing and stuttering change nothing that the invariant reads.
LEMMA PauseOrStutterKeeps ==
  ASSUME IInv, UNCHANGED <<contractVars, epoch, historyVars>>,
         paused' \in BOOLEAN, interventions' \in 0 .. MaxInterventions
  PROVE  IInv'
<1>1. /\ UNCHANGED <<stakingBalances, lastClaimedEpoch, withdrawalRequestEpoch, totalBalance,
                      epochReward, tokens, epoch>>
      /\ UNCHANGED <<earned, claims, paid, lastWithdrawal>>
  BY DEF contractVars, historyVars
<1>2. TypeOK'
  BY <1>1 DEF IInv, TypeOK, SumOver
<1>3. HistoryOK' /\ ClaimsOK' /\ EarnedOK'
  BY <1>1 DEF IInv, HistoryOK, ClaimsOK, EarnedOK
<1>4. PaidOK'
  BY <1>1 DEF IInv, PaidOK, Open, SumOver
<1>. QED
  BY <1>2, <1>3, <1>4 DEF IInv

\* Nothing is staked or paid initially.
LEMMA InitInv ==
  ASSUME Init
  PROVE  IInv
<1>1. /\ stakingBalances = [u \in Users |-> 0] /\ totalBalance = 0 /\ epoch = FirstEpoch
      /\ FirstEpoch \in Nat
  BY StakingAssumption DEF Init
<1>2. SumOver(stakingBalances) = 0 /\ \A e \in Epochs : SumOver(Open(e)) = 0
  <2>1. ASSUME NEW f \in [Users -> Nat], \A u \in Users : f[u] = 0
        PROVE  SumOver(f) = 0
    BY <2>1, StakingAssumption, TotalZero, SumIsNat
  <2>2. stakingBalances \in [Users -> Nat] /\ \A u \in Users : stakingBalances[u] = 0
    BY <1>1
  <2>3. \A e \in Epochs : Open(e) \in [Users -> Nat] /\ \A u \in Users : Open(e)[u] = 0
    BY <2>2 DEF Open
  <2>. QED
    BY <2>1, <2>2, <2>3
<1>3. TypeOK
  <2>1. 0 \in 0 .. MaxBalance /\ 0 \in 0 .. MaxReward /\ 0 \in 0 .. MaxInterventions /\ 0 \in 0 .. MaxEpoch
    BY StakingAssumption
  <2>2. /\ stakingBalances \in [Users -> 0 .. MaxBalance]
        /\ lastClaimedEpoch \in [Users -> Nat] /\ withdrawalRequestEpoch \in [Users -> 0 .. MaxEpoch]
        /\ epochReward \in [Epochs -> 0 .. MaxReward]
    BY <2>1 DEF Init
  <2>3. totalBalance \in Nat /\ SumOver(stakingBalances) <= totalBalance /\ tokens \in Nat
    BY <1>1, <1>2 DEF Init
  <2>4. epoch \in Epochs
    BY <1>1, StakingAssumption DEF Epochs
  <2>5. paused \in BOOLEAN /\ interventions \in 0 .. MaxInterventions
    BY <2>1 DEF Init
  <2>. QED
    BY <2>2, <2>3, <2>4, <2>5 DEF TypeOK
<1>4. HistoryOK /\ ClaimsOK /\ EarnedOK
  BY DEF Init, HistoryOK, ClaimsOK, EarnedOK
<1>5. PaidOK
  BY <1>2, EpochFacts DEF Init, PaidOK, EpochsAreNat
<1>. QED
  BY <1>3, <1>4, <1>5 DEF IInv

\* The inductive invariant in every reachable state.
LEMMA Invariant == Spec => []IInv
<1>1. Init => IInv
  BY InitInv
<1>2. IInv /\ [Next]_vars => IInv'
  <2>. SUFFICES ASSUME IInv, [Next]_vars PROVE IInv'
    OBVIOUS
  <2>1. ASSUME NEW u \in Users, NEW amount \in Amounts, stake(u, amount) PROVE IInv'
    BY <2>1, StakeKeeps
  <2>2. ASSUME NEW u \in Users, NEW cancel \in BOOLEAN, stakingRequestWithdrawal(u, cancel) PROVE IInv'
    BY <2>2, RequestWithdrawalKeeps
  <2>3. ASSUME NEW u \in Users, stakingWithdrawal(u) PROVE IInv'
    BY <2>3, WithdrawalKeeps
  <2>4. ASSUME NEW u \in Users, stakingClaimReward(u) PROVE IInv'
    BY <2>4, ClaimRewardKeeps
  <2>5. ASSUME NEW u \in Users, NEW rate \in Rates, stakingSlashing(u, rate) PROVE IInv'
    BY <2>5, SlashingKeeps
  <2>6. ASSUME NEW u \in Users, NEW epochs \in 0 .. 1, pauseUserReward(u, epochs) PROVE IInv'
    BY <2>6, PauseUserRewardKeeps
  <2>7. ASSUME NEW amount \in Rewards, stakingDepositReward(amount) PROVE IInv'
    BY <2>7, DepositRewardKeeps
  <2>8. CASE PauseContract
    <3>1. UNCHANGED <<contractVars, epoch, historyVars>> /\ paused' \in BOOLEAN
      BY <2>8 DEF PauseContract
    <3>2. interventions' \in 0 .. MaxInterventions
      BY <2>8, InterveneType DEF PauseContract, IInv
    <3>. QED
      BY <3>1, <3>2, PauseOrStutterKeeps
  <2>9. CASE Tick
    BY <2>9, TickKeeps
  <2>10. CASE UNCHANGED vars
    <3>1. UNCHANGED <<contractVars, epoch, historyVars>> /\ paused' = paused /\ interventions' = interventions
      BY <2>10 DEF vars
    <3>2. paused' \in BOOLEAN /\ interventions' \in 0 .. MaxInterventions
      BY <3>1 DEF IInv, TypeOK
    <3>. QED
      BY <3>1, <3>2, PauseOrStutterKeeps
  <2>. QED
    BY <2>1, <2>2, <2>3, <2>4, <2>5, <2>6, <2>7, <2>8, <2>9, <2>10 DEF Next
<1>. QED
  BY <1>1, <1>2, PTL DEF Spec

----------------------------------------------------------------------------------
(* Theorems *)

\* The total balance covers the stakes, whatever was staked, slashed and withdrawn.
THEOREM StakingTypeCorrect == Spec => []TypeOK
<1>1. IInv => TypeOK
  BY DEF IInv
<1>. QED
  BY <1>1, Invariant, PTL

\* No user is paid twice for an epoch, or for an epoch without a stake at its end
\* (lastClaimedEpoch, _stakingClaimReward).
THEOREM RewardsAreEarned == Spec => []RewardsEarned
<1>1. IInv => RewardsEarned
  <2>. SUFFICES ASSUME IInv, NEW u \in Users, NEW e \in Epochs
                PROVE  claims[u][e] <= 1 /\ (claims[u][e] = 1 => e \in earned[u])
    BY DEF RewardsEarned
  <2>1. claims[u][e] \in Nat
    BY DEF IInv, HistoryOK
  <2>2. claims[u][e] = 0 \/ claims[u][e] > 0
    BY <2>1
  <2>. QED
    BY <2>2 DEF IInv, ClaimsOK
<1>. QED
  BY <1>1, Invariant, PTL

\* An epoch that no withdrawal follows pays its reward at most, in whatever order its
\* stakers claim, top up and are slashed, and whoever joins later
\* (stakingCalculateRewardDebt).
THEOREM EpochsAreNotOverpaid == Spec => []EpochNotOverpaid
<1>1. IInv => EpochNotOverpaid
  BY DEF IInv, PaidOK, EpochNotOverpaid
<1>. QED
  BY <1>1, Invariant, PTL

==================================================================================
