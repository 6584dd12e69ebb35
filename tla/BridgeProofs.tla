------------------------------ MODULE BridgeProofs ------------------------------
(***************************************************************************)
(* For any set of payloads, fees, prices, quotas and any number of messages *)
(* the two bridges keep the types of their storage, no balance goes below  *)
(* zero, and together they implement MessageFate: a message is delivered    *)
(* or returned once, and never both.                                       *)
(***************************************************************************)
EXTENDS Bridge, TotalsProofs

StorageFields ==
  {"nextMessageId", "messageStatus", "signals", "synced", "paused", "ether", "held",
   "supply", "quota", "income", "settled"}
HeldTokens == {"erc20", "mxc"}
Contracts == {"bridge", "erc20_vault", "quota_manager"}

\* Balances and quotas at time t.
LedgerOK(s, t) ==
  /\ s.ether \in Nat /\ s.supply \in Nat /\ s.income \in Int
  /\ s.held \in [HeldTokens -> Nat]
  /\ s.quota \in [QuotaTokens -> Quota]
  /\ \A token \in QuotaTokens : s.quota[token].updatedAt <= t

\* The status of a message on chain c, the signals that go with it and the count of
\* its settlements agree: only what was sent here is recalled here, only what comes
\* from the other chain is processed, and a failure is signalled.
Transferable(m) == m.payload.kind = "transfer" => Sendable(m.src, m.payload.ctoken)
StatusOK(s, c) ==
  /\ s.nextMessageId \in 0 .. MaxMessages
  /\ \A signal \in s.signals : \E m \in SendableMessages :
       \/ signal = Sent(m) /\ m.src = c /\ m.id < s.nextMessageId /\ Transferable(m)
       \/ signal = Failed(m) /\ m.src # c /\ StatusOf(s, m) = "FAILED"
  /\ \A m \in DOMAIN s.messageStatus :
       /\ m \in SendableMessages
       /\ IF m.src = c THEN s.messageStatus[m] = "RECALLED"
          ELSE s.messageStatus[m] \in {"RETRIABLE", "DONE", "FAILED"}
  /\ \A m \in SendableMessages :
       Settlements(s, m) = IF StatusOf(s, m) \in {"DONE", "RECALLED"} THEN 1 ELSE 0

\* What the storage s of chain c says of the other chain is so in its storage o.
LinkOK(s, o, c) ==
  /\ s.synced \subseteq o.signals
  /\ \A m \in DOMAIN s.messageStatus :
       IF m.src = c THEN Failed(m) \in o.signals ELSE Sent(m) \in o.signals

StorageOK(s, c) ==
  /\ DOMAIN s = StorageFields
  /\ s.paused \subseteq Contracts
  /\ StatusOK(s, c)

\* The inductive invariant.
IInv ==
  /\ now \in Nat /\ now > 0
  /\ DOMAIN chain = Chains
  /\ \A c \in Chains :
       /\ StorageOK(chain[c], c)
       /\ LedgerOK(chain[c], now)
       /\ LinkOK(chain[c], chain[Other(c)], c)

---------------------------------------------------------------------------------
(* The books: what chain c holds against the transfers of a class of tokens,  *)
(* the ERC-20 of either chain or the MXC of both                              *)

AnyMXC == <<"any", "mxc">>
Classes == (Chains \X {"erc20"}) \cup {AnyMXC}
Class(ctoken) == IF ctoken[2] = "mxc" THEN AnyMXC ELSE ctoken
Part(s, c, k) ==
  CASE k = <<c, "erc20">> -> s.held["erc20"]
    [] k = <<Other(c), "erc20">> -> -s.supply
    [] OTHER -> IF c = "L1" THEN s.held["mxc"] ELSE s.ether - s.income
Book(ch, k) == Part(ch["L1"], "L1", k) + Part(ch["Moonchain"], "Moonchain", k)

\* What a message carries of a class.
Amount(ctoken, amount, k) == IF Class(ctoken) = k THEN amount ELSE 0
Carried(payload, k) ==
  IF payload.kind = "transfer" THEN Amount(payload.ctoken, payload.amount, k) ELSE 0
Worth(m, k) == Carried(m.payload, k)
PartsSame(s, t, c) == \A k \in Classes : Part(t, c, k) = Part(s, c, k)
PartsMore(s, t, c, payload) ==
  \A k \in Classes : Part(t, c, k) = Part(s, c, k) + Carried(payload, k)
PartsLess(s, t, c, m) == \A k \in Classes : Part(t, c, k) = Part(s, c, k) - Worth(m, k)

---------------------------------------------------------------------------------
(* Chains and signals *)

\* There are two chains, each the other of the other.
LEMMA OtherChain ==
  ASSUME NEW c \in Chains
  PROVE  /\ Other(c) \in Chains /\ Other(c) # c
         /\ \A d \in Chains : d # c <=> d = Other(c)
         /\ Other(Other(c)) = c
BY DEF Chains, Other

\* The signal of a message and that of a failure are never the same.
LEMMA SignalsDiffer ==
  ASSUME NEW m, NEW n
  PROVE  /\ Sent(m) = Sent(n) <=> m = n
         /\ Failed(m) = Failed(n) <=> m = n
         /\ Sent(m) # Failed(n)
BY DEF Sent, Failed

---------------------------------------------------------------------------------
(* Quotas *)

\* availableQuota never exceeds the quota and never falls below what is left of it.
LEMMA AvailableQuotaType ==
  ASSUME NEW q \in Quota, NEW period \in Nat \ {0}, NEW t \in Nat, q.updatedAt <= t
  PROVE  AvailableQuota(q, period, t) \in Nat /\ AvailableQuota(q, period, t) <= q.quota
<1>1. q.quota \in Nat /\ q.available \in Nat /\ q.updatedAt \in Nat
  BY DEF Quota
<1>2. t - q.updatedAt \in Nat
  BY <1>1
<1>3. q.quota * (t - q.updatedAt) \in Nat
  BY <1>1, <1>2
<1>. DEFINE refill == (q.quota * (t - q.updatedAt)) \div period
<1>4. refill \in Nat
  BY <1>3, DivBounds
<1>5. AvailableQuota(q, period, t) =
        IF q.updatedAt = 0 THEN q.quota
        ELSE IF refill + q.available <= q.quota THEN refill + q.available ELSE q.quota
  BY DEF AvailableQuota
<1>. HIDE DEF refill
<1>. QED
  BY <1>1, <1>4, <1>5

\* consumeQuota leaves a quota: its subtraction never wraps.
LEMMA ConsumedType ==
  ASSUME NEW q \in Quota, NEW period \in Nat \ {0}, NEW t \in Nat, q.updatedAt <= t,
         NEW amount \in Nat, CanConsume(q, period, t, amount)
  PROVE  Consumed(q, period, t, amount) \in Quota
         /\ Consumed(q, period, t, amount).updatedAt <= t
<1>. DEFINE available == AvailableQuota(q, period, t)
<1>1. available \in Nat
  BY AvailableQuotaType
<1>2. CASE Unlimited(q)
  BY <1>2 DEF Consumed
<1>3. CASE ~Unlimited(q)
  <2>1. amount <= available
    BY <1>3 DEF CanConsume
  <2>. DEFINE left == available - amount
  <2>2. left \in Nat
    BY <1>1, <2>1
  <2>3. Consumed(q, period, t, amount) = [q EXCEPT !.available = left, !.updatedAt = t]
    BY <1>3 DEF Consumed
  <2>. HIDE DEF left
  <2>. DEFINE r == [q EXCEPT !.available = left, !.updatedAt = t]
  <2>4. r \in Quota
    BY <2>2 DEF Quota
  <2>5. r.updatedAt = t
    BY DEF Quota
  <2>. QED
    BY <2>3, <2>4, <2>5
<1>. QED
  BY <1>2, <1>3

---------------------------------------------------------------------------------
(* Storages that differ in balances only *)

\* t differs from s in balances and quotas, and keeps their types.
SameFate(s, t) ==
  /\ DOMAIN t = StorageFields
  /\ \A f \in {"nextMessageId", "messageStatus", "signals", "synced", "paused", "settled"} :
       t[f] = s[f]
Paid(s, t) == SameFate(s, t) /\ LedgerOK(t, now)

\* Payments do not disturb statuses, signals and settlements.
LEMMA SameFateOK ==
  ASSUME NEW s, NEW t, NEW c, StorageOK(s, c), SameFate(s, t)
  PROVE  StorageOK(t, c)
<1>1. \A m : StatusOf(t, m) = StatusOf(s, m) /\ Settlements(t, m) = Settlements(s, m)
  BY DEF SameFate, StatusOf, Settlements, BagIn, BagToSet
<1>2. /\ t.nextMessageId = s.nextMessageId /\ t.signals = s.signals /\ t.paused = s.paused
      /\ t.messageStatus = s.messageStatus /\ DOMAIN t = StorageFields
  BY DEF SameFate
<1>. QED
  BY <1>1, <1>2 DEF StorageOK, StatusOK

\* One payment after another.
LEMMA PaidTrans ==
  ASSUME NEW s, NEW t, NEW u, Paid(s, t), Paid(t, u)
  PROVE  Paid(s, u)
BY DEF Paid, SameFate

\* The quota manager charges a quota or reverts.
LEMMA ConsumeQuotaPaid ==
  ASSUME NEW s, DOMAIN s = StorageFields, LedgerOK(s, now), now \in Nat,
         NEW token, NEW amount \in Nat, NEW t \in ConsumeQuota(s, token, amount)
  PROVE  Paid(s, t)
<1>. DEFINE q == Consumed(s.quota[token], QuotaPeriod, now, amount)
<1>1. t = [s EXCEPT !.quota[token] = q] /\ CanConsume(s.quota[token], QuotaPeriod, now, amount)
  BY DEF ConsumeQuota
<1>2. ASSUME token \in QuotaTokens
      PROVE  q \in Quota /\ q.updatedAt <= now
  <2>1. s.quota[token] \in Quota /\ s.quota[token].updatedAt <= now
    BY <1>2 DEF LedgerOK
  <2>. QED
    BY <1>1, <2>1, ConsumedType, BridgeAssumption
<1>. HIDE DEF q
<1>3. SameFate(s, t) /\ t.quota = [s.quota EXCEPT ![token] = q]
      /\ \A f \in {"ether", "supply", "income", "held"} : t[f] = s[f]
  BY <1>1 DEF SameFate, StorageFields
<1>. QED
  BY <1>2, <1>3 DEF Paid, LedgerOK

\* The vault releases what it holds.
LEMMA ReleaseHeldPaid ==
  ASSUME NEW s, DOMAIN s = StorageFields, LedgerOK(s, now),
         NEW name \in HeldTokens, NEW amount \in Nat, NEW t \in ReleaseHeld(s, name, amount)
  PROVE  Paid(s, t)
<1>1. t = [s EXCEPT !.held[name] = @ - amount] /\ s.held[name] >= amount
  BY DEF ReleaseHeld
<1>2. s.held[name] - amount \in Nat
  BY <1>1 DEF LedgerOK
<1>3. SameFate(s, t) /\ t.held = [s.held EXCEPT ![name] = s.held[name] - amount]
      /\ \A f \in {"ether", "supply", "income", "quota"} : t[f] = s[f]
  BY <1>1 DEF SameFate, StorageFields
<1>. QED
  BY <1>2, <1>3 DEF Paid, LedgerOK

\* What moves in a release, a mint or a payment of native coins keeps the types.
LEMMA MovedPaid ==
  ASSUME NEW s, DOMAIN s = StorageFields, LedgerOK(s, now), NEW c, NEW ctoken,
         NEW amount \in Nat, NEW t \in Moved(s, c, ctoken, amount)
  PROVE  Paid(s, t)
<1>1. CASE t \in ReleaseHeld(s, "erc20", amount)
  BY <1>1, ReleaseHeldPaid DEF HeldTokens
<1>2. CASE t \in ReleaseHeld(s, "mxc", amount)
  BY <1>2, ReleaseHeldPaid DEF HeldTokens
<1>3. CASE t \in InvocationSendNativeToken(s, amount)
  <2>1. t = [s EXCEPT !.ether = @ - amount] /\ s.ether >= amount
    BY <1>3 DEF InvocationSendNativeToken
  <2>. QED
    BY <2>1 DEF Paid, SameFate, LedgerOK, StorageFields
<1>4. CASE t \in Mint(s, amount)
  <2>1. t = [s EXCEPT !.supply = @ + amount]
    BY <1>4 DEF Mint
  <2>. QED
    BY <2>1 DEF Paid, SameFate, LedgerOK, StorageFields
<1>. QED
  BY <1>1, <1>2, <1>3, <1>4 DEF Moved

\* So does a transfer of the vault, with the quota it consumes.
LEMMA TransferTokensPaid ==
  ASSUME NEW s, DOMAIN s = StorageFields, LedgerOK(s, now), now \in Nat, NEW c, NEW ctoken,
         NEW amount \in Nat, NEW t \in TransferTokens(s, c, ctoken, amount)
  PROVE  Paid(s, t)
<1>1. PICK moved \in Moved(s, c, ctoken, amount) :
        t \in ConsumeQuota(moved, QuotaTokenOf(c, ctoken), amount)
  BY DEF TransferTokens
<1>2. Paid(s, moved)
  BY MovedPaid
<1>3. Paid(moved, t)
  BY <1>1, <1>2, ConsumeQuotaPaid DEF Paid, SameFate
<1>. QED
  BY <1>2, <1>3, PaidTrans

\* The messages users may send have payloads with an amount.
LEMMA PayloadAmount ==
  ASSUME NEW m \in SendableMessages
  PROVE  m.payload.amount \in Nat /\ m.fee \in Nat /\ m.src \in Chains
         /\ m.id \in 0 .. MaxMessages - 1
BY BridgeAssumption DEF SendableMessages, Payload

\* A payment keeps the storage fit for the next one.
LEMMA PaidFields ==
  ASSUME NEW s, NEW t, Paid(s, t)
  PROVE  DOMAIN t = StorageFields /\ LedgerOK(t, now)
BY DEF Paid, SameFate

\* An invocation of a message, of the vault or of another contract, is a payment.
LEMMA InvokePaid ==
  ASSUME NEW s, DOMAIN s = StorageFields, LedgerOK(s, now), now \in Nat, NEW c,
         NEW m \in SendableMessages, NEW t \in InvokeMessageCall(s, c, m)
  PROVE  Paid(s, t)
<1>1. CASE m.payload.kind = "transfer"
  <2>1. t \in TransferTokens(s, c, m.payload.ctoken, m.payload.amount)
    BY <1>1 DEF InvokeMessageCall, OnMessageInvocation
  <2>. QED
    BY <2>1, TransferTokensPaid, PayloadAmount
<1>2. CASE m.payload.kind # "transfer"
  BY <1>2 DEF InvokeMessageCall, Paid, SameFate
<1>. QED
  BY <1>1, <1>2

\* The call of processMessage succeeds, or is left to be retried.
LEMMA OutcomesPaid ==
  ASSUME NEW s, DOMAIN s = StorageFields, LedgerOK(s, now), now \in Nat, NEW c,
         NEW m \in SendableMessages, NEW outcome \in Outcomes(s, c, m)
  PROVE  Paid(s, outcome[1]) /\ outcome[2] \in {"DONE", "RETRIABLE"}
<1>1. Paid(s, s)
  BY DEF Paid, SameFate
<1>2. \A t \in InvokeMessageCall(s, c, m) : Paid(s, t)
  BY InvokePaid
<1>3. \/ outcome = <<s, "DONE">> \/ outcome = <<s, "RETRIABLE">>
      \/ \E t \in InvokeMessageCall(s, c, m) : outcome = <<t, "DONE">>
  BY DEF Outcomes
<1>. QED
  BY <1>1, <1>2, <1>3

\* The converted fee is an amount of native coins.
LEMMA MessageFeeType ==
  ASSUME NEW c, NEW fee \in Nat, NEW price \in Prices
  PROVE  MessageFee(c, fee, price) \in Nat
<1>1. price \in Nat \ {0}
  BY BridgeAssumption
<1>2. fee * price \in Nat /\ fee \div price \in Nat
  BY <1>1, DivBounds
<1>. QED
  BY <1>2 DEF MessageFee

\* The fee is paid from what the bridge holds.
LEMMA PayFeePaid ==
  ASSUME NEW s, DOMAIN s = StorageFields, LedgerOK(s, now),
         NEW amount \in Nat, NEW t \in PayFee(s, amount)
  PROVE  Paid(s, t)
<1>1. t = [s EXCEPT !.ether = @ - amount, !.income = @ - amount] /\ s.ether >= amount
  BY DEF PayFee
<1>2. SameFate(s, t) /\ t.held = s.held /\ t.supply = s.supply /\ t.quota = s.quota
      /\ t.ether = s.ether - amount /\ t.income = s.income - amount
  BY <1>1 DEF SameFate, StorageFields
<1>. QED
  BY <1>1, <1>2 DEF Paid, LedgerOK

\* Tokens leave the sender, burnt or locked.
LEMMA HandleMessagePaid ==
  ASSUME NEW s, DOMAIN s = StorageFields, LedgerOK(s, now), NEW c \in Chains, NEW ctoken,
         Sendable(c, ctoken), NEW amount \in Nat, NEW t \in HandleMessage(s, c, ctoken, amount)
  PROVE  Paid(s, t)
<1>1. CASE t = [s EXCEPT !.supply = @ - amount] /\ s.supply >= amount
  BY <1>1 DEF Paid, SameFate, LedgerOK, StorageFields
<1>2. CASE t = [s EXCEPT !.ether = @ + amount]
  BY <1>2 DEF Paid, SameFate, LedgerOK, StorageFields
<1>3. CASE ctoken[2] \in HeldTokens /\ t = [s EXCEPT !.held[ctoken[2]] = @ + amount]
  <2>1. s.held[ctoken[2]] + amount \in Nat
    BY <1>3 DEF LedgerOK
  <2>2. SameFate(s, t) /\ t.held = [s.held EXCEPT ![ctoken[2]] = s.held[ctoken[2]] + amount]
        /\ \A f \in {"ether", "supply", "income", "quota"} : t[f] = s[f]
    BY <1>3 DEF SameFate, StorageFields
  <2>. QED
    BY <2>1, <2>2 DEF Paid, LedgerOK
<1>4. ctoken[2] \in HeldTokens
  BY DEF Sendable, HeldTokens
<1>. QED
  BY <1>1, <1>2, <1>3, <1>4 DEF HandleMessage

---------------------------------------------------------------------------------
(* What the payments do to the books *)

\* The books are integers, and know nothing but balances.
LEMMA PartType ==
  ASSUME NEW s, LedgerOK(s, now), NEW c, NEW k
  PROVE  Part(s, c, k) \in Int
BY DEF Part, LedgerOK, HeldTokens

\* Equal balances, supplies and ether net of the fees earned make equal parts.
LEMMA SameBalances ==
  ASSUME NEW s, NEW t, t.held = s.held, t.supply = s.supply,
         t.ether - t.income = s.ether - s.income, NEW c
  PROVE  PartsSame(s, t, c)
BY DEF PartsSame, Part

\* A quota is no balance.
LEMMA ConsumeQuotaParts ==
  ASSUME NEW s, DOMAIN s = StorageFields, NEW token, NEW amount,
         NEW t \in ConsumeQuota(s, token, amount), NEW c
  PROVE  PartsSame(s, t, c)
<1>1. \E q : t = [s EXCEPT !.quota[token] = q]
  BY DEF ConsumeQuota
<1>2. t.held = s.held /\ t.supply = s.supply /\ t.ether = s.ether /\ t.income = s.income
  BY <1>1 DEF StorageFields
<1>. QED
  BY <1>2, SameBalances

\* The fee is income given up.
LEMMA PayFeeParts ==
  ASSUME NEW s, DOMAIN s = StorageFields, LedgerOK(s, now),
         NEW amount \in Nat, NEW t \in PayFee(s, amount), NEW c
  PROVE  PartsSame(s, t, c)
<1>1. t = [s EXCEPT !.ether = @ - amount, !.income = @ - amount]
  BY DEF PayFee
<1>2. t.held = s.held /\ t.supply = s.supply /\ t.ether = s.ether - amount
      /\ t.income = s.income - amount
  BY <1>1 DEF StorageFields
<1>3. s.ether \in Int /\ s.income \in Int
  BY DEF LedgerOK
<1>4. t.ether - t.income = s.ether - s.income
  BY <1>2, <1>3
<1>. QED
  BY <1>2, <1>4, SameBalances

\* A release, mint or payment takes from the books of the token's class what it moves.
LEMMA MovedParts ==
  ASSUME NEW s, DOMAIN s = StorageFields, LedgerOK(s, now), NEW c \in Chains, NEW ctoken,
         Sendable(c, ctoken) \/ Sendable(Other(c), ctoken),
         NEW amount \in Nat, NEW t \in Moved(s, c, ctoken, amount), NEW k \in Classes
  PROVE  Part(t, c, k) = Part(s, c, k) - Amount(ctoken, amount, k)
<1>. DEFINE d == Other(c)
<1>0. c \in {"L1", "Moonchain"} /\ d \in {"L1", "Moonchain"} /\ c # d
      /\ (c = "L1" <=> d = "Moonchain")
  BY OtherChain DEF Chains
<1>1. s.held["erc20"] \in Int /\ s.held["mxc"] \in Int /\ s.supply \in Int /\ s.ether \in Int
      /\ s.income \in Int /\ DOMAIN s.held = {"erc20", "mxc"}
  BY DEF LedgerOK, HeldTokens
<1>2. ctoken \in {<<c, "erc20">>, <<c, "mxc">>, <<d, "erc20">>, <<d, "mxc">>}
  BY <1>0, OtherChain DEF Sendable
<1>3. k \in {<<c, "erc20">>, <<d, "erc20">>, AnyMXC}
  <2>1. \A x \in Chains : x = c \/ x = d
    BY OtherChain
  <2>. HIDE DEF d
  <2>. QED
    BY <2>1 DEF Classes
<1>. HIDE DEF d
<1>4. CASE ctoken = <<c, "erc20">>
  <2>1. t = [s EXCEPT !.held["erc20"] = @ - amount]
    BY <1>4 DEF Moved, ReleaseHeld
  <2>2. t.held = [s.held EXCEPT !["erc20"] = @ - amount] /\ t.supply = s.supply
        /\ t.ether = s.ether /\ t.income = s.income
    BY <2>1 DEF StorageFields
  <2>3. t.held["erc20"] = s.held["erc20"] - amount /\ t.held["mxc"] = s.held["mxc"]
    BY <1>1, <2>2
  <2>. QED
    BY <1>0, <1>1, <1>3, <1>4, <2>2, <2>3 DEF Part, Amount, Class, AnyMXC, d
<1>5. CASE ctoken[2] = "mxc" /\ t \in ReleaseHeld(s, "mxc", amount) /\ c = "L1"
  <2>1. t = [s EXCEPT !.held["mxc"] = @ - amount]
    BY <1>5 DEF ReleaseHeld
  <2>2. t.held = [s.held EXCEPT !["mxc"] = @ - amount] /\ t.supply = s.supply
        /\ t.ether = s.ether /\ t.income = s.income
    BY <2>1 DEF StorageFields
  <2>3. t.held["erc20"] = s.held["erc20"] /\ t.held["mxc"] = s.held["mxc"] - amount
    BY <1>1, <2>2
  <2>. QED
    BY <1>0, <1>1, <1>3, <1>5, <2>2, <2>3 DEF Part, Amount, Class, AnyMXC, d
<1>6. CASE ctoken[2] = "mxc" /\ t \in InvocationSendNativeToken(s, amount) /\ c # "L1"
  <2>1. t = [s EXCEPT !.ether = @ - amount]
    BY <1>6 DEF InvocationSendNativeToken
  <2>2. t.held = s.held /\ t.supply = s.supply /\ t.ether = s.ether - amount
        /\ t.income = s.income
    BY <2>1 DEF StorageFields
  <2>. QED
    BY <1>0, <1>1, <1>3, <1>6, <2>2 DEF Part, Amount, Class, AnyMXC, d
<1>7. CASE ctoken = <<d, "erc20">>
  <2>1. t = [s EXCEPT !.supply = @ + amount]
    BY <1>0, <1>7 DEF Moved, Mint, d
  <2>2. t.held = s.held /\ t.supply = s.supply + amount /\ t.ether = s.ether
        /\ t.income = s.income
    BY <2>1 DEF StorageFields
  <2>. QED
    BY <1>0, <1>1, <1>3, <1>7, <2>2 DEF Part, Amount, Class, AnyMXC, d
<1>8. ctoken = <<c, "mxc">> =>
        ctoken[2] = "mxc" /\ t \in ReleaseHeld(s, "mxc", amount) /\ c = "L1"
  BY <1>0 DEF Moved, d
<1>9. ctoken = <<d, "mxc">> =>
        /\ ctoken[2] = "mxc"
        /\ IF c = "L1" THEN t \in ReleaseHeld(s, "mxc", amount)
           ELSE t \in InvocationSendNativeToken(s, amount)
  BY <1>0 DEF Moved, d
<1>. QED
  BY <1>2, <1>4, <1>5, <1>6, <1>7, <1>8, <1>9

\* So does a transfer of the vault.
LEMMA TransferTokensParts ==
  ASSUME NEW s, DOMAIN s = StorageFields, LedgerOK(s, now), now \in Nat, NEW c \in Chains,
         NEW ctoken, Sendable(c, ctoken) \/ Sendable(Other(c), ctoken), NEW amount \in Nat,
         NEW t \in TransferTokens(s, c, ctoken, amount), NEW k \in Classes
  PROVE  Part(t, c, k) = Part(s, c, k) - Amount(ctoken, amount, k)
<1>1. PICK moved \in Moved(s, c, ctoken, amount) :
        t \in ConsumeQuota(moved, QuotaTokenOf(c, ctoken), amount)
  BY DEF TransferTokens
<1>2. DOMAIN moved = StorageFields
  BY MovedPaid, PaidFields
<1>3. Part(moved, c, k) = Part(s, c, k) - Amount(ctoken, amount, k)
  BY MovedParts
<1>4. Part(t, c, k) = Part(moved, c, k)
  BY <1>1, <1>2, ConsumeQuotaParts DEF PartsSame
<1>. QED
  BY <1>3, <1>4

\* A message that was sent is worth to its destination what its transfer takes there.
LEMMA InvokeParts ==
  ASSUME NEW s, DOMAIN s = StorageFields, LedgerOK(s, now), now \in Nat, NEW c \in Chains,
         NEW m \in SendableMessages, Transferable(m), m.src # c,
         NEW t \in InvokeMessageCall(s, c, m)
  PROVE  PartsLess(s, t, c, m)
<1>. SUFFICES ASSUME NEW k \in Classes
              PROVE  Part(t, c, k) = Part(s, c, k) - Worth(m, k)
  BY DEF PartsLess
<1>1. CASE m.payload.kind = "transfer"
  <2>1. t \in TransferTokens(s, c, m.payload.ctoken, m.payload.amount)
    BY <1>1 DEF InvokeMessageCall, OnMessageInvocation
  <2>2. Sendable(Other(c), m.payload.ctoken) /\ m.payload.amount \in Nat
    BY <1>1, OtherChain, PayloadAmount DEF Transferable
  <2>. QED
    BY <1>1, <2>1, <2>2, TransferTokensParts DEF Worth, Carried
<1>2. CASE m.payload.kind # "transfer"
  BY <1>2, PartType DEF InvokeMessageCall, Worth, Carried
<1>. QED
  BY <1>1, <1>2

\* An outcome of processMessage pays what the message is worth if it is DONE.
LEMMA OutcomesParts ==
  ASSUME NEW s, DOMAIN s = StorageFields, LedgerOK(s, now), now \in Nat, NEW c \in Chains,
         NEW m \in SendableMessages, Transferable(m), m.src # c,
         NEW outcome \in Outcomes(s, c, m)
  PROVE  /\ outcome[2] = "DONE" => PartsLess(s, outcome[1], c, m)
         /\ outcome[2] = "RETRIABLE" => PartsSame(s, outcome[1], c)
<1>1. CASE UnableToInvokeMessageCall(m)
  <2>1. outcome = <<s, "DONE">>
    BY <1>1 DEF Outcomes
  <2>2. PartsLess(s, s, c, m)
    BY <1>1, PartType DEF UnableToInvokeMessageCall, PartsLess, Worth, Carried
  <2>. QED
    BY <2>1, <2>2
<1>2. CASE \E t \in InvokeMessageCall(s, c, m) : outcome = <<t, "DONE">>
  BY <1>2, InvokeParts
<1>3. CASE outcome = <<s, "RETRIABLE">>
  BY <1>3 DEF PartsSame
<1>. QED
  BY <1>1, <1>2, <1>3 DEF Outcomes

\* What the sender pays is booked for the class of the token.
LEMMA HandleMessageParts ==
  ASSUME NEW s, DOMAIN s = StorageFields, LedgerOK(s, now), NEW c \in Chains, NEW ctoken,
         Sendable(c, ctoken), NEW amount \in Nat, NEW t \in HandleMessage(s, c, ctoken, amount),
         NEW k \in Classes
  PROVE  Part(t, c, k) = Part(s, c, k) + Amount(ctoken, amount, k)
<1>. DEFINE d == Other(c)
<1>0. c \in {"L1", "Moonchain"} /\ d \in {"L1", "Moonchain"} /\ c # d
      /\ (c = "L1" <=> d = "Moonchain")
  BY OtherChain DEF Chains
<1>1. s.held["erc20"] \in Int /\ s.held["mxc"] \in Int /\ s.supply \in Int /\ s.ether \in Int
      /\ s.income \in Int /\ DOMAIN s.held = {"erc20", "mxc"}
  BY DEF LedgerOK, HeldTokens
<1>2. ctoken \in {<<c, "erc20">>, <<c, "mxc">>, <<d, "erc20">>}
  BY DEF Sendable
<1>3. k \in {<<c, "erc20">>, <<d, "erc20">>, AnyMXC}
  <2>1. \A x \in Chains : x = c \/ x = d
    BY OtherChain
  <2>. HIDE DEF d
  <2>. QED
    BY <2>1 DEF Classes
<1>. HIDE DEF d
<1>4. CASE ctoken = <<d, "erc20">>
  <2>1. t = [s EXCEPT !.supply = @ - amount]
    BY <1>4 DEF HandleMessage, d
  <2>2. t.held = s.held /\ t.supply = s.supply - amount /\ t.ether = s.ether
        /\ t.income = s.income
    BY <2>1 DEF StorageFields
  <2>. QED
    BY <1>0, <1>1, <1>3, <1>4, <2>2 DEF Part, Amount, Class, AnyMXC, d
<1>5. CASE ctoken = <<c, "mxc">> /\ c = "Moonchain"
  <2>1. t = [s EXCEPT !.ether = @ + amount]
    BY <1>0, <1>5 DEF HandleMessage, d
  <2>2. t.held = s.held /\ t.supply = s.supply /\ t.ether = s.ether + amount
        /\ t.income = s.income
    BY <2>1 DEF StorageFields
  <2>. QED
    BY <1>0, <1>1, <1>3, <1>5, <2>2 DEF Part, Amount, Class, AnyMXC, d
<1>6. CASE ctoken = <<c, "erc20">> \/ (ctoken = <<c, "mxc">> /\ c = "L1")
  <2>1. t = [s EXCEPT !.held[ctoken[2]] = @ + amount] /\ ctoken[2] \in {"erc20", "mxc"}
    BY <1>0, <1>6 DEF HandleMessage, d
  <2>2. t.held = [s.held EXCEPT ![ctoken[2]] = @ + amount] /\ t.supply = s.supply
        /\ t.ether = s.ether /\ t.income = s.income
    BY <2>1 DEF StorageFields
  <2>3. \A name \in {"erc20", "mxc"} :
          t.held[name] = IF ctoken[2] = name THEN s.held[name] + amount ELSE s.held[name]
    BY <1>1, <2>2
  <2>4. t.held["erc20"] = (IF ctoken[2] = "erc20" THEN s.held["erc20"] + amount
                           ELSE s.held["erc20"])
        /\ t.held["mxc"] = (IF ctoken[2] = "mxc" THEN s.held["mxc"] + amount ELSE s.held["mxc"])
    BY <2>3
  <2>. QED
    BY <1>0, <1>1, <1>3, <1>6, <2>2, <2>4 DEF Part, Amount, Class, AnyMXC, d
<1>. QED
  BY <1>0, <1>2, <1>4, <1>5, <1>6

---------------------------------------------------------------------------------
(* Statuses *)

\* updateMessageStatus changes one status and counts a settlement.
LEMMA WithStatusFields ==
  ASSUME NEW s, DOMAIN s = StorageFields, NEW m, NEW status
  PROVE  LET t == WithStatus(s, m, status) IN
         /\ DOMAIN t = StorageFields
         /\ \A f \in StorageFields \ {"messageStatus", "settled"} : t[f] = s[f]
         /\ DOMAIN t.messageStatus = DOMAIN s.messageStatus \cup {m}
         /\ \A x : StatusOf(t, x) = IF x = m THEN status ELSE StatusOf(s, x)
         /\ \A x : Settlements(s, x) \in Nat =>
              Settlements(t, x) = Settlements(s, x)
                + IF x = m /\ status \in {"DONE", "RECALLED"} THEN 1 ELSE 0
<1>. DEFINE t == WithStatus(s, m, status)
            statuses == [x \in DOMAIN s.messageStatus \cup {m} |->
                           IF x = m THEN status ELSE s.messageStatus[x]]
            settled == IF status \in {"DONE", "RECALLED"} THEN s.settled (+) SetToBag({m})
                       ELSE s.settled
<1>1. /\ DOMAIN t = StorageFields
      /\ \A f \in StorageFields \ {"messageStatus", "settled"} : t[f] = s[f]
      /\ t.messageStatus = statuses /\ t.settled = settled
  BY DEF WithStatus, StorageFields
<1>2. DOMAIN t.messageStatus = DOMAIN s.messageStatus \cup {m}
  BY <1>1
<1>3. ASSUME NEW x
      PROVE  StatusOf(t, x) = IF x = m THEN status ELSE StatusOf(s, x)
  <2>. HIDE DEF t
  <2>. QED
    BY <1>1 DEF StatusOf
<1>4. ASSUME NEW x, Settlements(s, x) \in Nat
      PROVE  Settlements(t, x) = Settlements(s, x)
               + IF x = m /\ status \in {"DONE", "RECALLED"} THEN 1 ELSE 0
  <2>1. CASE status \in {"DONE", "RECALLED"}
    <3>1. DOMAIN settled = DOMAIN s.settled \cup {m}
          /\ \A e \in DOMAIN settled :
               settled[e] = (IF e \in DOMAIN s.settled THEN s.settled[e] ELSE 0)
                              + IF e = m THEN 1 ELSE 0
      BY <2>1 DEF (+), SetToBag
    <3>. HIDE DEF t, settled
    <3>. QED
      BY <1>1, <1>4, <2>1, <3>1 DEF Settlements, BagIn, BagToSet
  <2>2. CASE status \notin {"DONE", "RECALLED"}
    <3>. HIDE DEF t
    <3>. QED
      BY <1>1, <1>4, <2>2 DEF Settlements
  <2>. QED
    BY <2>1, <2>2
<1>. HIDE DEF t
<1>5. QED
  BY <1>1, <1>2, <1>3, <1>4 DEF t

\* A message that is not settled here gets a status that its direction allows.
LEMMA WithStatusOK ==
  ASSUME NEW s, NEW c, StorageOK(s, c), NEW m \in SendableMessages,
         StatusOf(s, m) \in {"NEW", "RETRIABLE"}, NEW status,
         IF m.src = c THEN status = "RECALLED" ELSE status \in {"RETRIABLE", "DONE", "FAILED"}
  PROVE  StorageOK(WithStatus(s, m, status), c)
<1>. DEFINE t == WithStatus(s, m, status)
<1>1. /\ DOMAIN t = StorageFields
      /\ t.nextMessageId = s.nextMessageId /\ t.signals = s.signals /\ t.paused = s.paused
      /\ DOMAIN t.messageStatus = DOMAIN s.messageStatus \cup {m}
      /\ \A x : StatusOf(t, x) = IF x = m THEN status ELSE StatusOf(s, x)
      /\ \A x : Settlements(s, x) \in Nat =>
           Settlements(t, x) = Settlements(s, x)
             + IF x = m /\ status \in {"DONE", "RECALLED"} THEN 1 ELSE 0
  BY WithStatusFields DEF StorageOK, StorageFields
<1>. HIDE DEF t
<1>2. \A signal \in t.signals : \E x \in SendableMessages :
        \/ signal = Sent(x) /\ x.src = c /\ x.id < t.nextMessageId /\ Transferable(x)
        \/ signal = Failed(x) /\ x.src # c /\ StatusOf(t, x) = "FAILED"
  <2>. TAKE signal \in t.signals
  <2>1. PICK x \in SendableMessages :
          \/ signal = Sent(x) /\ x.src = c /\ x.id < s.nextMessageId /\ Transferable(x)
          \/ signal = Failed(x) /\ x.src # c /\ StatusOf(s, x) = "FAILED"
    BY <1>1 DEF StorageOK, StatusOK
  <2>2. StatusOf(s, x) = "FAILED" => x # m
    OBVIOUS
  <2>. QED
    BY <1>1, <2>1, <2>2
<1>3. \A x \in DOMAIN t.messageStatus :
        /\ x \in SendableMessages
        /\ IF x.src = c THEN t.messageStatus[x] = "RECALLED"
           ELSE t.messageStatus[x] \in {"RETRIABLE", "DONE", "FAILED"}
  <2>. TAKE x \in DOMAIN t.messageStatus
  <2>1. t.messageStatus[x] = IF x = m THEN status ELSE StatusOf(s, x)
    BY <1>1 DEF StatusOf
  <2>2. CASE x = m
    BY <2>1, <2>2
  <2>3. CASE x # m
    <3>1. x \in DOMAIN s.messageStatus /\ t.messageStatus[x] = s.messageStatus[x]
      BY <1>1, <2>1, <2>3 DEF StatusOf
    <3>. QED
      BY <3>1 DEF StorageOK, StatusOK
  <2>. QED
    BY <2>2, <2>3
<1>4. \A x \in SendableMessages :
        Settlements(t, x) = IF StatusOf(t, x) \in {"DONE", "RECALLED"} THEN 1 ELSE 0
  <2>. TAKE x \in SendableMessages
  <2>1. Settlements(s, x) = IF StatusOf(s, x) \in {"DONE", "RECALLED"} THEN 1 ELSE 0
    BY DEF StorageOK, StatusOK
  <2>2. CASE x = m
    BY <1>1, <2>1, <2>2
  <2>3. CASE x # m
    BY <1>1, <2>1, <2>3
  <2>. QED
    BY <2>2, <2>3
<1>. QED
  BY <1>1, <1>2, <1>3, <1>4 DEF StorageOK, StatusOK, t

\* A failure on the destination chain is signalled, with the status.
LEMMA WithFailureOK ==
  ASSUME NEW s, NEW c, StorageOK(s, c), NEW m \in SendableMessages,
         StatusOf(s, m) = "RETRIABLE", m.src # c
  PROVE  LET t == WithFailure(s, m) IN
         /\ StorageOK(t, c)
         /\ t.signals = s.signals \cup {Failed(m)}
         /\ \A f \in StorageFields \ {"messageStatus", "settled", "signals"} : t[f] = s[f]
         /\ DOMAIN t.messageStatus = DOMAIN s.messageStatus \cup {m}
         /\ \A x : StatusOf(t, x) = IF x = m THEN "FAILED" ELSE StatusOf(s, x)
<1>. DEFINE w == WithStatus(s, m, "FAILED")
            t == WithFailure(s, m)
<1>1. /\ DOMAIN w = StorageFields
      /\ \A f \in StorageFields \ {"messageStatus", "settled"} : w[f] = s[f]
      /\ DOMAIN w.messageStatus = DOMAIN s.messageStatus \cup {m}
      /\ \A x : StatusOf(w, x) = IF x = m THEN "FAILED" ELSE StatusOf(s, x)
  BY WithStatusFields DEF StorageOK
<1>2. StorageOK(w, c)
  BY WithStatusOK
<1>3. t = [w EXCEPT !.signals = @ \cup {Failed(m)}]
  BY DEF WithFailure
<1>. HIDE DEF w, t
<1>4. /\ DOMAIN t = StorageFields /\ t.signals = w.signals \cup {Failed(m)}
      /\ \A f \in StorageFields \ {"signals"} : t[f] = w[f]
  BY <1>1, <1>3 DEF StorageFields
<1>5. t.signals = s.signals \cup {Failed(m)} /\ t.messageStatus = w.messageStatus
      /\ t.settled = w.settled /\ t.nextMessageId = w.nextMessageId /\ t.paused = w.paused
  BY <1>1, <1>4 DEF StorageFields
<1>6. \A x : StatusOf(t, x) = StatusOf(w, x) /\ Settlements(t, x) = Settlements(w, x)
  BY <1>5 DEF StatusOf, Settlements, BagIn, BagToSet
<1>7. StatusOf(w, m) = "FAILED"
  BY <1>1
<1>8. StorageOK(t, c)
  <2>1. \A signal \in t.signals : signal \in w.signals \/ signal = Failed(m)
    BY <1>4
  <2>. QED
    BY <1>2, <1>4, <1>5, <1>6, <1>7, <2>1 DEF StorageOK, StatusOK
<1>. QED
  BY <1>1, <1>4, <1>5, <1>6, <1>8 DEF t

---------------------------------------------------------------------------------
(* What the fate of messages depends on *)

SentSet(ch) == {m \in SendableMessages : Sent(m) \in ch[m.src].signals}
DeliveredSet(ch) == {m \in SendableMessages : StatusOf(ch[Other(m.src)], m) = "DONE"}
ReturnedSet(ch) == {m \in SendableMessages : StatusOf(ch[m.src], m) = "RECALLED"}

\* A signal that says a message was sent is in the signal service of its source.
LEMMA SentBySource ==
  ASSUME NEW s, NEW c, StorageOK(s, c), NEW m, Sent(m) \in s.signals
  PROVE  m \in SendableMessages /\ m.src = c /\ m.id < s.nextMessageId /\ Transferable(m)
BY SignalsDiffer DEF StorageOK, StatusOK

\* A signal that says a message failed comes from its destination, where it failed.
LEMMA FailedAtDestination ==
  ASSUME NEW s, NEW c, StorageOK(s, c), NEW m, Failed(m) \in s.signals
  PROVE  m \in SendableMessages /\ m.src # c /\ StatusOf(s, m) = "FAILED"
BY SignalsDiffer DEF StorageOK, StatusOK

\* The abstract variables of MessageFate, as the statuses give them.
LEMMA FateVariables ==
  IInv => /\ AllMessages = SentSet(chain)
          /\ {m \in AllMessages : Settlements(chain[Other(m.src)], m) = 1} = DeliveredSet(chain)
          /\ {m \in AllMessages : Settlements(chain[m.src], m) = 1} = ReturnedSet(chain)
<1>. SUFFICES ASSUME IInv
              PROVE  /\ AllMessages = SentSet(chain)
                     /\ {m \in AllMessages : Settlements(chain[Other(m.src)], m) = 1}
                          = DeliveredSet(chain)
                     /\ {m \in AllMessages : Settlements(chain[m.src], m) = 1}
                          = ReturnedSet(chain)
  OBVIOUS
<1>1. AllMessages = SentSet(chain)
  <2>1. \A c \in Chains : \A m \in SentMessages(c) :
          m \in SendableMessages /\ m.src = c /\ Sent(m) \in chain[c].signals
    BY SentBySource DEF SentMessages, IInv
  <2>2. \A m \in SentSet(chain) : m.src \in Chains /\ m \in SentMessages(m.src)
    BY PayloadAmount DEF SentSet, SentMessages, Sent
  <2>. QED
    BY <2>1, <2>2 DEF AllMessages, SentSet
<1>2. ASSUME NEW m \in SendableMessages
      PROVE  /\ Settlements(chain[Other(m.src)], m) = 1
                  <=> StatusOf(chain[Other(m.src)], m) = "DONE"
             /\ Settlements(chain[m.src], m) = 1 <=> StatusOf(chain[m.src], m) = "RECALLED"
  <2>1. m.src \in Chains /\ Other(m.src) \in Chains /\ Other(m.src) # m.src
    BY PayloadAmount, OtherChain
  <2>2. \A c \in Chains : /\ Settlements(chain[c], m) =
                               IF StatusOf(chain[c], m) \in {"DONE", "RECALLED"} THEN 1 ELSE 0
                          /\ m \in DOMAIN chain[c].messageStatus =>
                               IF m.src = c THEN chain[c].messageStatus[m] = "RECALLED"
                               ELSE chain[c].messageStatus[m] \in {"RETRIABLE", "DONE", "FAILED"}
    BY DEF IInv, StorageOK, StatusOK
  <2>. QED
    BY <2>1, <2>2 DEF StatusOf
<1>3. ASSUME NEW m \in SendableMessages, StatusOf(chain[Other(m.src)], m) = "DONE"
      PROVE  m \in AllMessages
  <2>1. m.src \in Chains /\ Other(m.src) \in Chains /\ Other(m.src) # m.src
        /\ Other(Other(m.src)) = m.src
    BY PayloadAmount, OtherChain
  <2>2. m \in DOMAIN chain[Other(m.src)].messageStatus
    BY <1>3 DEF StatusOf
  <2>. QED
    BY <1>1, <2>1, <2>2 DEF IInv, LinkOK, SentSet
<1>4. ASSUME NEW m \in SendableMessages, StatusOf(chain[m.src], m) = "RECALLED"
      PROVE  m \in AllMessages
  <2>1. m.src \in Chains /\ Other(m.src) \in Chains /\ Other(m.src) # m.src
        /\ Other(Other(m.src)) = m.src
    BY PayloadAmount, OtherChain
  <2>2. m \in DOMAIN chain[m.src].messageStatus
    BY <1>4 DEF StatusOf
  <2>3. Failed(m) \in chain[Other(m.src)].signals
    BY <2>1, <2>2 DEF IInv, LinkOK
  <2>4. StatusOf(chain[Other(m.src)], m) = "FAILED"
    BY <2>1, <2>3, FailedAtDestination DEF IInv
  <2>5. m \in DOMAIN chain[Other(m.src)].messageStatus
    BY <2>4 DEF StatusOf
  <2>. QED
    BY <1>1, <2>1, <2>5 DEF IInv, LinkOK, SentSet
<1>. QED
  BY <1>1, <1>2, <1>3, <1>4 DEF SentSet, DeliveredSet, ReturnedSet

---------------------------------------------------------------------------------
(* Steps *)

\* One chain's storage changes, and its signals only grow.
LEMMA StepInv ==
  ASSUME IInv, NEW c \in Chains, NEW t, chain' = [chain EXCEPT ![c] = t], now' = now,
         StorageOK(t, c), LedgerOK(t, now), LinkOK(t, chain[Other(c)], c),
         chain[c].signals \subseteq t.signals
  PROVE  IInv'
<1>1. DOMAIN chain' = Chains /\ chain'[c] = t /\ chain'[Other(c)] = chain[Other(c)]
  BY OtherChain DEF IInv
<1>2. LinkOK(chain[Other(c)], t, Other(c))
  BY OtherChain DEF IInv, LinkOK
<1>3. \A d \in Chains : d = c \/ d = Other(c)
  BY OtherChain
<1>4. StorageOK(chain'[c], c) /\ LedgerOK(chain'[c], now')
      /\ LinkOK(chain'[c], chain'[Other(c)], c)
  BY <1>1
<1>5. StorageOK(chain'[Other(c)], Other(c)) /\ LedgerOK(chain'[Other(c)], now')
      /\ LinkOK(chain'[Other(c)], chain'[Other(Other(c))], Other(c))
  BY <1>1, <1>2, OtherChain DEF IInv
<1>. QED
  BY <1>1, <1>3, <1>4, <1>5 DEF IInv

\* The steps of MessageFate, on the sets the statuses give, and the books' share.
SendStep ==
  \E m \in SendableMessages \ SentSet(chain) :
    /\ SentSet(chain') = SentSet(chain) \cup {m}
    /\ DeliveredSet(chain') = DeliveredSet(chain)
    /\ ReturnedSet(chain') = ReturnedSet(chain)
    /\ \A k \in Classes : Book(chain', k) = Book(chain, k) + Worth(m, k)
DeliverStep ==
  \E m \in SentSet(chain) \ (DeliveredSet(chain) \cup ReturnedSet(chain)) :
    /\ DeliveredSet(chain') = DeliveredSet(chain) \cup {m}
    /\ SentSet(chain') = SentSet(chain)
    /\ ReturnedSet(chain') = ReturnedSet(chain)
    /\ \A k \in Classes : Book(chain', k) = Book(chain, k) - Worth(m, k)
ReturnStep ==
  \E m \in SentSet(chain) \ (DeliveredSet(chain) \cup ReturnedSet(chain)) :
    /\ ReturnedSet(chain') = ReturnedSet(chain) \cup {m}
    /\ SentSet(chain') = SentSet(chain)
    /\ DeliveredSet(chain') = DeliveredSet(chain)
    /\ \A k \in Classes : Book(chain', k) = Book(chain, k) - Worth(m, k)
SameSets ==
  /\ SentSet(chain') = SentSet(chain)
  /\ DeliveredSet(chain') = DeliveredSet(chain)
  /\ ReturnedSet(chain') = ReturnedSet(chain)
SameBooks == \A k \in Classes : Book(chain', k) = Book(chain, k)
AbstractStep == SendStep \/ DeliverStep \/ ReturnStep \/ (SameSets /\ SameBooks)

\* The books change by what one chain's part of them does.
LEMMA BookStep ==
  ASSUME IInv, NEW c \in Chains, NEW t, chain' = [chain EXCEPT ![c] = t], NEW k, NEW d \in Int,
         Part(t, c, k) = Part(chain[c], c, k) + d
  PROVE  Book(chain', k) = Book(chain, k) + d
<1>1. \A e \in Chains : Part(chain[e], e, k) \in Int
  BY PartType DEF IInv
<1>2. \A e \in Chains : chain'[e] = IF e = c THEN t ELSE chain[e]
  BY DEF IInv
<1>3. {"L1", "Moonchain"} = Chains
  BY DEF Chains
<1>. QED
  BY <1>1, <1>2, <1>3 DEF Book

\* A message is worth a natural number of a class.
LEMMA WorthType ==
  ASSUME NEW m \in SendableMessages, NEW k
  PROVE  Worth(m, k) \in Nat
BY PayloadAmount DEF Worth, Carried, Amount

\* The same part on one chain keeps the books.
LEMMA SamePartStep ==
  ASSUME IInv, NEW c \in Chains, NEW t, chain' = [chain EXCEPT ![c] = t],
         PartsSame(chain[c], t, c)
  PROVE  SameBooks
<1>. SUFFICES ASSUME NEW k \in Classes PROVE Book(chain', k) = Book(chain, k)
  BY DEF SameBooks
<1>1. Part(t, c, k) = Part(chain[c], c, k) /\ Part(chain[c], c, k) \in Int
  BY PartType DEF PartsSame, IInv
<1>2. \A e \in Chains : chain'[e] = IF e = c THEN t ELSE chain[e]
  BY DEF IInv
<1>3. {"L1", "Moonchain"} = Chains
  BY DEF Chains
<1>. QED
  BY <1>1, <1>2, <1>3 DEF Book

\* What a message is worth leaves the books when one chain pays it.
LEMMA LessPartStep ==
  ASSUME IInv, NEW c \in Chains, NEW t, chain' = [chain EXCEPT ![c] = t],
         NEW m \in SendableMessages, PartsLess(chain[c], t, c, m), NEW k \in Classes
  PROVE  Book(chain', k) = Book(chain, k) - Worth(m, k)
<1>1. Worth(m, k) \in Int /\ Part(chain[c], c, k) \in Int
  BY WorthType, PartType DEF IInv
<1>. DEFINE d == -Worth(m, k)
<1>2. d \in Int /\ Part(t, c, k) = Part(chain[c], c, k) + d
  BY <1>1 DEF PartsLess
<1>. HIDE DEF d
<1>3. Book(chain', k) = Book(chain, k) + d
  BY <1>2, BookStep
<1>4. Book(chain, k) \in Int
  BY PartType DEF IInv, Book, Chains
<1>. QED
  BY <1>1, <1>3, <1>4 DEF d

\* What is sent enters the books where it is locked or burnt.
LEMMA MorePartStep ==
  ASSUME IInv, NEW c \in Chains, NEW t, chain' = [chain EXCEPT ![c] = t],
         NEW payload \in Payloads, PartsMore(chain[c], t, c, payload), NEW k \in Classes
  PROVE  Book(chain', k) = Book(chain, k) + Carried(payload, k)
<1>. DEFINE d == Carried(payload, k)
<1>1. d \in Int
  BY BridgeAssumption DEF Carried, Amount, Payload
<1>2. Part(t, c, k) = Part(chain[c], c, k) + d
  BY DEF PartsMore
<1>. HIDE DEF d
<1>3. Book(chain', k) = Book(chain, k) + d
  BY <1>1, <1>2, BookStep
<1>. QED
  BY <1>3 DEF d

\* t gives m a status and changes no other, and sends nothing.
NewStatus(s, t, m, status) ==
  /\ \A x : StatusOf(t, x) = IF x = m THEN status ELSE StatusOf(s, x)
  /\ \A x : Sent(x) \in t.signals <=> Sent(x) \in s.signals
  /\ StatusOf(s, m) \notin {"DONE", "RECALLED"}

\* Statuses and signals of sent messages decide the abstract variables.
LEMMA SetsOfStep ==
  ASSUME IInv, NEW c \in Chains, NEW t, chain' = [chain EXCEPT ![c] = t],
         NEW m \in SendableMessages, NEW status, NewStatus(chain[c], t, m, status)
  PROVE  /\ SentSet(chain') = SentSet(chain)
         /\ IF m.src # c /\ status = "DONE"
            THEN DeliveredSet(chain') = DeliveredSet(chain) \cup {m}
                 /\ m \notin DeliveredSet(chain)
            ELSE DeliveredSet(chain') = DeliveredSet(chain)
         /\ IF m.src = c /\ status = "RECALLED"
            THEN ReturnedSet(chain') = ReturnedSet(chain) \cup {m}
                 /\ m \notin ReturnedSet(chain)
            ELSE ReturnedSet(chain') = ReturnedSet(chain)
<1>1. \A x \in SendableMessages : x.src \in Chains /\ Other(x.src) \in Chains
        /\ (Other(x.src) = c <=> x.src # c)
  BY PayloadAmount, OtherChain
<1>2. \A d \in Chains : chain'[d] = IF d = c THEN t ELSE chain[d]
  BY DEF IInv
<1>3. \A x \in SendableMessages : Sent(x) \in chain'[x.src].signals
                                    <=> Sent(x) \in chain[x.src].signals
  BY <1>1, <1>2 DEF NewStatus
<1>4. \A d \in Chains : \A x : StatusOf(chain'[d], x) =
        IF d = c /\ x = m THEN status ELSE StatusOf(chain[d], x)
  BY <1>2 DEF NewStatus
<1>5. SentSet(chain') = SentSet(chain)
  BY <1>3 DEF SentSet
<1>6. \A x \in SendableMessages : x \in DeliveredSet(chain') <=>
        IF x = m /\ m.src # c THEN status = "DONE" ELSE x \in DeliveredSet(chain)
  BY <1>1, <1>4 DEF DeliveredSet
<1>7. \A x \in SendableMessages : x \in ReturnedSet(chain') <=>
        IF x = m /\ m.src = c THEN status = "RECALLED" ELSE x \in ReturnedSet(chain)
  BY <1>1, <1>4 DEF ReturnedSet
<1>8. m.src # c => m \notin DeliveredSet(chain)
  BY <1>1 DEF DeliveredSet, NewStatus
<1>9. m.src = c => m \notin ReturnedSet(chain)
  BY DEF ReturnedSet, NewStatus
<1>10. DeliveredSet(chain) \subseteq SendableMessages /\ ReturnedSet(chain) \subseteq SendableMessages
       /\ DeliveredSet(chain') \subseteq SendableMessages
       /\ ReturnedSet(chain') \subseteq SendableMessages
  BY DEF DeliveredSet, ReturnedSet
<1>11. IF m.src # c /\ status = "DONE"
       THEN DeliveredSet(chain') = DeliveredSet(chain) \cup {m} /\ m \notin DeliveredSet(chain)
       ELSE DeliveredSet(chain') = DeliveredSet(chain)
  <2>. DEFINE D == DeliveredSet(chain)
              E == DeliveredSet(chain')
  <2>1. D \subseteq SendableMessages /\ E \subseteq SendableMessages
        /\ (m.src # c => m \notin D)
        /\ \A x \in SendableMessages :
             x \in E <=> IF x = m /\ m.src # c THEN status = "DONE" ELSE x \in D
    BY <1>6, <1>8, <1>10
  <2>. HIDE DEF D, E
  <2>2. IF m.src # c /\ status = "DONE" THEN E = D \cup {m} /\ m \notin D ELSE E = D
    <3>1. CASE m.src # c /\ status = "DONE"
      BY <2>1, <3>1
    <3>2. CASE m.src = c
      BY <2>1, <3>2
    <3>3. CASE m.src # c /\ status # "DONE"
      BY <2>1, <3>3
    <3>. QED
      BY <3>1, <3>2, <3>3
  <2>. QED
    BY <2>2 DEF D, E
<1>12. IF m.src = c /\ status = "RECALLED"
       THEN ReturnedSet(chain') = ReturnedSet(chain) \cup {m} /\ m \notin ReturnedSet(chain)
       ELSE ReturnedSet(chain') = ReturnedSet(chain)
  <2>. DEFINE R == ReturnedSet(chain)
              T == ReturnedSet(chain')
  <2>1. R \subseteq SendableMessages /\ T \subseteq SendableMessages
        /\ (m.src = c => m \notin R)
        /\ \A x \in SendableMessages :
             x \in T <=> IF x = m /\ m.src = c THEN status = "RECALLED" ELSE x \in R
    BY <1>7, <1>9, <1>10
  <2>. HIDE DEF R, T
  <2>2. IF m.src = c /\ status = "RECALLED" THEN T = R \cup {m} /\ m \notin R ELSE T = R
    <3>1. CASE m.src = c /\ status = "RECALLED"
      BY <2>1, <3>1
    <3>2. CASE m.src # c
      BY <2>1, <3>2
    <3>3. CASE m.src = c /\ status # "RECALLED"
      BY <2>1, <3>3
    <3>. QED
      BY <3>1, <3>2, <3>3
  <2>. QED
    BY <2>2 DEF R, T
<1>. QED
  BY <1>5, <1>11, <1>12

\* A message that a handler names was sent by its source chain.
LEMMA NamedWasSent ==
  IInv => \A m \in AllMessages :
            m \in SendableMessages /\ m.src \in Chains /\ Sent(m) \in chain[m.src].signals
BY FateVariables, PayloadAmount DEF SentSet

\* A payment on the storage of one chain preserves the invariant's parts.
LEMMA PaidOK ==
  ASSUME IInv, NEW c \in Chains, NEW p, Paid(chain[c], p)
  PROVE  /\ StorageOK(p, c) /\ LedgerOK(p, now) /\ LinkOK(p, chain[Other(c)], c)
         /\ DOMAIN p = StorageFields
         /\ p.signals = chain[c].signals /\ p.messageStatus = chain[c].messageStatus
         /\ p.synced = chain[c].synced
         /\ \A x : StatusOf(p, x) = StatusOf(chain[c], x)
<1>1. StorageOK(p, c)
  BY SameFateOK DEF IInv, Paid
<1>2. /\ DOMAIN p = StorageFields
      /\ p.signals = chain[c].signals /\ p.messageStatus = chain[c].messageStatus
      /\ p.synced = chain[c].synced
  BY DEF Paid, SameFate
<1>3. LinkOK(p, chain[Other(c)], c)
  BY <1>2 DEF IInv, LinkOK
<1>. QED
  BY <1>1, <1>2, <1>3 DEF Paid, StatusOf

\* A message from the other chain is done, or left to be retried.
LEMMA DestinationStep ==
  ASSUME IInv, NEW c \in Chains, NEW m \in AllMessages, m.src # c,
         StatusOf(chain[c], m) \in {"NEW", "RETRIABLE"},
         NEW p, Paid(chain[c], p), NEW status \in {"DONE", "RETRIABLE"},
         status = "DONE" => PartsLess(chain[c], p, c, m),
         status = "RETRIABLE" => PartsSame(chain[c], p, c),
         chain' = [chain EXCEPT ![c] = WithStatus(p, m, status)], now' = now
  PROVE  IInv' /\ AbstractStep
<1>. DEFINE t == WithStatus(p, m, status)
<1>1. /\ m \in SendableMessages /\ m.src \in Chains /\ m.src = Other(c)
      /\ Sent(m) \in chain[Other(c)].signals
  BY NamedWasSent, OtherChain
<1>2. /\ StorageOK(p, c) /\ LedgerOK(p, now) /\ LinkOK(p, chain[Other(c)], c)
      /\ DOMAIN p = StorageFields
      /\ p.signals = chain[c].signals /\ \A x : StatusOf(p, x) = StatusOf(chain[c], x)
  BY PaidOK
<1>3. /\ \A f \in StorageFields \ {"messageStatus", "settled"} : t[f] = p[f]
      /\ DOMAIN t.messageStatus = DOMAIN p.messageStatus \cup {m}
      /\ \A x : StatusOf(t, x) = IF x = m THEN status ELSE StatusOf(p, x)
  BY <1>2, WithStatusFields
<1>4. StorageOK(t, c)
  BY <1>1, <1>2, WithStatusOK
<1>0. chain' = [chain EXCEPT ![c] = t]
  OBVIOUS
<1>. HIDE DEF t
<1>5. t.signals = p.signals /\ t.synced = p.synced /\ t.ether = p.ether /\ t.held = p.held
      /\ t.supply = p.supply /\ t.quota = p.quota /\ t.income = p.income
  BY <1>3 DEF StorageFields
<1>6. LedgerOK(t, now) /\ LinkOK(t, chain[Other(c)], c)
  BY <1>1, <1>2, <1>3, <1>5 DEF LedgerOK, LinkOK
<1>7. IInv'
  BY <1>0, <1>2, <1>4, <1>5, <1>6, StepInv
<1>8. /\ SentSet(chain') = SentSet(chain) /\ ReturnedSet(chain') = ReturnedSet(chain)
      /\ IF status = "DONE"
         THEN DeliveredSet(chain') = DeliveredSet(chain) \cup {m} /\ m \notin DeliveredSet(chain)
         ELSE DeliveredSet(chain') = DeliveredSet(chain)
  <2>1. NewStatus(chain[c], t, m, status) /\ m \in SendableMessages
    BY <1>1, <1>2, <1>3, <1>5 DEF NewStatus
  <2>. QED
    BY <1>0, <2>1, SetsOfStep
<1>9. m \in SentSet(chain)
  BY FateVariables
<1>10. m \notin ReturnedSet(chain)
  <2>. SUFFICES ASSUME StatusOf(chain[m.src], m) = "RECALLED" PROVE FALSE
    BY DEF ReturnedSet
  <2>1. m \in DOMAIN chain[m.src].messageStatus
    BY DEF StatusOf
  <2>2. Failed(m) \in chain[c].signals
    BY <1>1, <2>1, OtherChain DEF IInv, LinkOK
  <2>. QED
    BY <2>2, FailedAtDestination DEF IInv
<1>13. PartsSame(p, t, c)
  BY <1>5, SameBalances
<1>14. CASE status = "DONE"
  <2>1. PartsLess(chain[c], t, c, m)
    BY <1>13, <1>14 DEF PartsLess, PartsSame
  <2>2. \A k \in Classes : Book(chain', k) = Book(chain, k) - Worth(m, k)
    BY <1>0, <1>1, <2>1, LessPartStep
  <2>. QED
    BY <1>7, <1>8, <1>9, <1>10, <1>14, <2>2 DEF AbstractStep, DeliverStep
<1>15. CASE status = "RETRIABLE"
  <2>1. PartsSame(chain[c], t, c)
    BY <1>13, <1>15 DEF PartsSame
  <2>2. SameBooks
    BY <1>0, <2>1, SamePartStep
  <2>3. status # "DONE"
    BY <1>15
  <2>. QED
    BY <1>7, <1>8, <2>2, <2>3 DEF AbstractStep, SameSets
<1>. QED
  BY <1>14, <1>15

\* A message that can be retried came from the other chain.
LEMMA RetriableFromOther ==
  ASSUME IInv, NEW c \in Chains, NEW m, Retriable(chain[c], m)
  PROVE  m.src # c /\ StatusOf(chain[c], m) = "RETRIABLE"
BY DEF IInv, StorageOK, StatusOK, Retriable, StatusOf

\* The last attempt failed, or the owner gave up: the failure is signalled.
LEMMA FailureStep ==
  ASSUME IInv, NEW c \in Chains, NEW m \in AllMessages, Retriable(chain[c], m),
         NEW p, Paid(chain[c], p), PartsSame(chain[c], p, c),
         chain' = [chain EXCEPT ![c] = WithFailure(p, m)], now' = now
  PROVE  IInv' /\ AbstractStep
<1>. DEFINE t == WithFailure(p, m)
<1>1. /\ m \in SendableMessages /\ m.src \in Chains /\ m.src = Other(c) /\ m.src # c
      /\ Sent(m) \in chain[Other(c)].signals /\ StatusOf(chain[c], m) = "RETRIABLE"
  BY NamedWasSent, OtherChain, RetriableFromOther
<1>2. /\ StorageOK(p, c) /\ LedgerOK(p, now) /\ LinkOK(p, chain[Other(c)], c)
      /\ p.signals = chain[c].signals /\ \A x : StatusOf(p, x) = StatusOf(chain[c], x)
  BY PaidOK
<1>3. /\ StorageOK(t, c) /\ t.signals = p.signals \cup {Failed(m)}
      /\ \A f \in StorageFields \ {"messageStatus", "settled", "signals"} : t[f] = p[f]
      /\ DOMAIN t.messageStatus = DOMAIN p.messageStatus \cup {m}
      /\ \A x : StatusOf(t, x) = IF x = m THEN "FAILED" ELSE StatusOf(p, x)
  BY <1>1, <1>2, WithFailureOK
<1>0. chain' = [chain EXCEPT ![c] = t]
  OBVIOUS
<1>. HIDE DEF t
<1>4. t.synced = p.synced /\ t.ether = p.ether /\ t.held = p.held
      /\ t.supply = p.supply /\ t.quota = p.quota /\ t.income = p.income
  BY <1>3 DEF StorageFields
<1>5. LedgerOK(t, now) /\ LinkOK(t, chain[Other(c)], c)
  BY <1>1, <1>2, <1>3, <1>4 DEF LedgerOK, LinkOK
<1>6. IInv'
  BY <1>0, <1>2, <1>3, <1>5, StepInv
<1>7. NewStatus(chain[c], t, m, "FAILED")
  <2>1. \A x : Sent(x) # Failed(m)
    BY SignalsDiffer
  <2>2. \A x : Sent(x) \in t.signals <=> Sent(x) \in chain[c].signals
    BY <1>2, <1>3, <2>1
  <2>. QED
    BY <1>1, <1>2, <1>3, <2>2 DEF NewStatus
<1>8. SameSets
  <2>. DEFINE status == "FAILED"
  <2>1. NewStatus(chain[c], t, m, status) /\ status \notin {"DONE", "RECALLED"}
    BY <1>7
  <2>. HIDE DEF status
  <2>. QED
    BY <1>0, <1>1, <2>1, SetsOfStep DEF SameSets
<1>9. PartsSame(p, t, c)
  BY <1>4, SameBalances
<1>10. SameBooks
  <2>1. PartsSame(chain[c], t, c)
    BY <1>9 DEF PartsSame
  <2>. QED
    BY <1>0, <2>1, SamePartStep
<1>. QED
  BY <1>6, <1>8, <1>10 DEF AbstractStep

\* What is recalled failed on the other chain, and what it locked is paid back.
LEMMA RecallStep ==
  ASSUME IInv, NEW c \in Chains, NEW m \in AllMessages, RecallMessage(c, m)
  PROVE  IInv' /\ AbstractStep
<1>. DEFINE s == chain[c]
            w == WithStatus(s, m, "RECALLED")
<1>1. /\ m.src = c /\ StatusOf(s, m) = "NEW" /\ Sent(m) \in s.signals /\ Failed(m) \in s.synced
      /\ now' = now
  BY DEF RecallMessage, Recallable
<1>2. m \in SendableMessages
  BY NamedWasSent
<1>3. StorageOK(s, c) /\ LedgerOK(s, now) /\ LinkOK(s, chain[Other(c)], c) /\ now \in Nat
  BY DEF IInv
<1>4. StorageOK(w, c)
  BY <1>1, <1>2, <1>3, WithStatusOK
<1>5. /\ DOMAIN w = StorageFields
      /\ \A f \in StorageFields \ {"messageStatus", "settled"} : w[f] = s[f]
      /\ DOMAIN w.messageStatus = DOMAIN s.messageStatus \cup {m}
      /\ \A x : StatusOf(w, x) = IF x = m THEN "RECALLED" ELSE StatusOf(s, x)
  BY <1>3, WithStatusFields DEF StorageOK
<1>6. PICK t \in Recalled(s, c, m) : chain' = [chain EXCEPT ![c] = t]
  BY DEF RecallMessage
<1>7. PICK charged \in ConsumeQuota(w, Ether, 0) :
        t \in IF m.payload.kind = "transfer" THEN OnMessageRecalled(charged, c, m.payload)
              ELSE {charged}
  BY <1>6 DEF Recalled
<1>. HIDE DEF s, w
<1>8. w.signals = s.signals /\ w.synced = s.synced /\ w.ether = s.ether /\ w.held = s.held
      /\ w.supply = s.supply /\ w.quota = s.quota /\ w.income = s.income
  BY <1>5 DEF StorageFields
<1>9. LedgerOK(w, now)
  BY <1>3, <1>8 DEF LedgerOK
<1>10. Paid(w, charged)
  BY <1>3, <1>5, <1>7, <1>9, ConsumeQuotaPaid
<1>11. Paid(w, t)
  <2>1. CASE m.payload.kind = "transfer"
    <3>1. t \in TransferTokens(charged, c, m.payload.ctoken, m.payload.amount)
      BY <1>7, <2>1 DEF OnMessageRecalled
    <3>2. Paid(charged, t)
      BY <1>2, <1>3, <1>10, <3>1, PaidFields, PayloadAmount, TransferTokensPaid
    <3>. QED
      BY <1>10, <3>2, PaidTrans
  <2>2. CASE m.payload.kind # "transfer"
    BY <1>7, <1>10, <2>2
  <2>. QED
    BY <2>1, <2>2
<1>18. PartsLess(s, t, c, m)
  <2>1. PartsSame(s, w, c)
    BY <1>8, SameBalances
  <2>2. PartsSame(w, charged, c)
    BY <1>5, <1>7, ConsumeQuotaParts
  <2>. SUFFICES ASSUME NEW k \in Classes
                PROVE  Part(t, c, k) = Part(charged, c, k) - Worth(m, k)
    BY <2>1, <2>2 DEF PartsSame, PartsLess
  <2>3. CASE m.payload.kind = "transfer"
    <3>1. t \in TransferTokens(charged, c, m.payload.ctoken, m.payload.amount)
      BY <1>7, <2>3 DEF OnMessageRecalled
    <3>2. Sendable(c, m.payload.ctoken) /\ m.payload.amount \in Nat
      BY <1>1, <1>2, <1>3, <2>3, PayloadAmount, SentBySource DEF Transferable
    <3>. QED
      BY <1>3, <1>10, <2>3, <3>1, <3>2, PaidFields, TransferTokensParts DEF Worth, Carried
  <2>4. CASE m.payload.kind # "transfer"
    BY <1>7, <1>10, <2>4, PaidFields, PartType DEF Worth, Carried
  <2>. QED
    BY <2>3, <2>4
<1>12. StorageOK(t, c) /\ LedgerOK(t, now)
  BY <1>4, <1>11, SameFateOK DEF Paid
<1>13. t.signals = s.signals /\ t.synced = s.synced /\ t.messageStatus = w.messageStatus
  BY <1>8, <1>11 DEF Paid, SameFate
<1>14. LinkOK(t, chain[Other(c)], c)
  BY <1>1, <1>3, <1>5, <1>13 DEF LinkOK
<1>15. IInv'
  BY <1>1, <1>6, <1>12, <1>13, <1>14, StepInv DEF s
<1>16. \A x : StatusOf(t, x) = StatusOf(w, x)
  BY <1>13 DEF StatusOf
<1>17. ReturnStep
  <2>. DEFINE status == "RECALLED"
  <2>1. NewStatus(chain[c], t, m, status)
    BY <1>1, <1>5, <1>13, <1>16 DEF NewStatus, s
  <2>. HIDE DEF status
  <2>2. /\ SentSet(chain') = SentSet(chain) /\ DeliveredSet(chain') = DeliveredSet(chain)
        /\ ReturnedSet(chain') = ReturnedSet(chain) \cup {m} /\ m \notin ReturnedSet(chain)
    <3>1. status = "RECALLED"
      BY DEF status
    <3>. QED
      BY <1>1, <1>2, <1>6, <2>1, <3>1, SetsOfStep
  <2>3. m \in SentSet(chain)
    BY FateVariables
  <2>4. m \notin DeliveredSet(chain)
    <3>1. Failed(m) \in chain[Other(c)].signals
      BY <1>1, <1>3 DEF LinkOK
    <3>2. StatusOf(chain[Other(c)], m) = "FAILED"
      BY <3>1, OtherChain, FailedAtDestination DEF IInv
    <3>. QED
      BY <1>1, <3>2 DEF DeliveredSet
  <2>5. \A k \in Classes : Book(chain', k) = Book(chain, k) - Worth(m, k)
    BY <1>2, <1>6, <1>18, LessPartStep DEF s
  <2>. QED
    BY <2>2, <2>3, <2>4, <2>5 DEF ReturnStep
<1>. QED
  BY <1>15, <1>17 DEF AbstractStep

\* processMessage settles a message that nobody processed before, or leaves it to be retried.
LEMMA ProcessStep ==
  ASSUME IInv, NEW c \in Chains, NEW m \in AllMessages, NEW byOwner, NEW price \in Prices,
         ProcessMessage(c, m, byOwner, price)
  PROVE  IInv' /\ AbstractStep
<1>. DEFINE s == chain[c]
<1>1. m.src # c /\ StatusOf(s, m) = "NEW" /\ now' = now
  BY DEF ProcessMessage, IsReceived, Processable
<1>2. m \in SendableMessages /\ m.fee \in Nat
  BY NamedWasSent, PayloadAmount
<1>3. DOMAIN s = StorageFields /\ LedgerOK(s, now) /\ now \in Nat
  BY DEF IInv, StorageOK
<1>4. PICK charged \in ConsumeQuota(s, Ether, m.fee) : \E outcome \in Outcomes(charged, c, m) :
        \E paid \in PayFee(outcome[1], MessageFee(c, m.fee, price)) :
          chain' = [chain EXCEPT ![c] = WithStatus(paid, m, outcome[2])]
  BY DEF ProcessMessage
<1>9. PICK outcome \in Outcomes(charged, c, m) :
        \E paid \in PayFee(outcome[1], MessageFee(c, m.fee, price)) :
          chain' = [chain EXCEPT ![c] = WithStatus(paid, m, outcome[2])]
  BY <1>4
<1>10. PICK paid \in PayFee(outcome[1], MessageFee(c, m.fee, price)) :
         chain' = [chain EXCEPT ![c] = WithStatus(paid, m, outcome[2])]
  BY <1>9
<1>5. Paid(s, charged)
  BY <1>2, <1>3, <1>4, ConsumeQuotaPaid
<1>6. Paid(charged, outcome[1]) /\ outcome[2] \in {"DONE", "RETRIABLE"}
  BY <1>2, <1>3, <1>5, PaidFields, OutcomesPaid
<1>7. Paid(outcome[1], paid)
  BY <1>2, <1>6, PaidFields, MessageFeeType, PayFeePaid
<1>8. Paid(s, paid)
  BY <1>5, <1>6, <1>7, PaidTrans
<1>11. Transferable(m)
  BY <1>1, NamedWasSent, SentBySource DEF IInv
<1>12. /\ PartsSame(s, charged, c) /\ PartsSame(outcome[1], paid, c)
       /\ outcome[2] = "DONE" => PartsLess(charged, outcome[1], c, m)
       /\ outcome[2] = "RETRIABLE" => PartsSame(charged, outcome[1], c)
  <2>1. PartsSame(s, charged, c)
    BY <1>3, ConsumeQuotaParts
  <2>2. PartsSame(outcome[1], paid, c)
    BY <1>2, <1>6, PaidFields, MessageFeeType, PayFeeParts
  <2>. QED
    BY <1>1, <1>2, <1>3, <1>5, <1>11, <2>1, <2>2, PaidFields, OutcomesParts
<1>13. /\ outcome[2] = "DONE" => PartsLess(s, paid, c, m)
       /\ outcome[2] = "RETRIABLE" => PartsSame(s, paid, c)
  BY <1>12 DEF PartsSame, PartsLess
<1>. QED
  BY <1>1, <1>6, <1>8, <1>10, <1>13, DestinationStep

\* retryMessage settles a message whose earlier invocations left nothing behind.
LEMMA RetryStep ==
  ASSUME IInv, NEW c \in Chains, NEW m \in AllMessages, NEW byOwner, NEW isLastAttempt,
         RetrySucceeds(c, m, byOwner, isLastAttempt)
  PROVE  IInv' /\ AbstractStep
<1>1. m.src # c /\ StatusOf(chain[c], m) = "RETRIABLE" /\ now' = now
  BY RetriableFromOther DEF RetrySucceeds
<1>2. m \in SendableMessages
  BY NamedWasSent
<1>3. DOMAIN chain[c] = StorageFields /\ LedgerOK(chain[c], now) /\ now \in Nat
  BY DEF IInv, StorageOK
<1>4. PICK charged \in ConsumeQuota(chain[c], Ether, 0) :
        \E s \in InvokeMessageCall(charged, c, m) :
          chain' = [chain EXCEPT ![c] = WithStatus(s, m, "DONE")]
  BY DEF RetrySucceeds
<1>8. PICK s \in InvokeMessageCall(charged, c, m) :
        chain' = [chain EXCEPT ![c] = WithStatus(s, m, "DONE")]
  BY <1>4
<1>5. Paid(chain[c], charged)
  BY <1>3, <1>4, ConsumeQuotaPaid
<1>6. Paid(charged, s)
  BY <1>2, <1>3, <1>5, PaidFields, InvokePaid
<1>7. Paid(chain[c], s)
  BY <1>5, <1>6, PaidTrans
<1>9. Transferable(m)
  BY NamedWasSent, SentBySource DEF IInv
<1>10. PartsSame(chain[c], charged, c)
  BY <1>3, ConsumeQuotaParts
<1>11. PartsLess(charged, s, c, m)
  BY <1>1, <1>2, <1>3, <1>5, <1>8, <1>9, PaidFields, InvokeParts
<1>12. PartsLess(chain[c], s, c, m)
  BY <1>10, <1>11 DEF PartsSame, PartsLess
<1>. QED
  BY <1>1, <1>7, <1>8, <1>12, DestinationStep

\* An attempt that fails and is the last, and failMessage, signal the failure.
LEMMA GiveUpStep ==
  ASSUME IInv, NEW c \in Chains, NEW m \in AllMessages, RetryFails(c, m) \/ FailMessage(c, m)
  PROVE  IInv' /\ AbstractStep
<1>1. DOMAIN chain[c] = StorageFields /\ LedgerOK(chain[c], now) /\ now \in Nat
  BY DEF IInv, StorageOK
<1>2. CASE RetryFails(c, m)
  <2>1. PICK p \in ConsumeQuota(chain[c], Ether, 0) :
          chain' = [chain EXCEPT ![c] = WithFailure(p, m)]
    BY <1>2 DEF RetryFails
  <2>2. Paid(chain[c], p) /\ PartsSame(chain[c], p, c)
    BY <1>1, ConsumeQuotaPaid, ConsumeQuotaParts
  <2>. QED
    BY <1>2, <2>1, <2>2, FailureStep DEF RetryFails
<1>3. CASE FailMessage(c, m)
  <2>1. chain' = [chain EXCEPT ![c] = WithFailure(chain[c], m)]
    BY <1>3 DEF FailMessage
  <2>2. Paid(chain[c], chain[c]) /\ PartsSame(chain[c], chain[c], c)
    BY <1>1 DEF Paid, SameFate, PartsSame
  <2>. QED
    BY <1>3, <2>1, <2>2, FailureStep DEF FailMessage
<1>. QED
  BY <1>2, <1>3

\* A message gets an id that no message of its chain had.
LEMMA NewMessageStep ==
  ASSUME IInv, NEW c \in Chains, NEW p, Paid(chain[c], p), NEW payload \in Payloads,
         NEW fee \in Fees, NEW gas \in BOOLEAN, NEW extra \in Nat,
         chain[c].nextMessageId < MaxMessages,
         payload.kind = "transfer" => Sendable(c, payload.ctoken),
         PartsMore(chain[c], p, c, payload),
         chain' = [chain EXCEPT ![c] = WithMessage(p, c, payload, fee, gas, extra)], now' = now
  PROVE  IInv' /\ AbstractStep
<1>. DEFINE t == WithMessage(p, c, payload, fee, gas, extra)
            id == chain[c].nextMessageId
            m == [src |-> c, id |-> id, fee |-> fee, gas |-> gas, payload |-> payload]
<1>1. /\ StorageOK(p, c) /\ LedgerOK(p, now) /\ LinkOK(p, chain[Other(c)], c)
      /\ DOMAIN p = StorageFields /\ p.signals = chain[c].signals
      /\ \A x : StatusOf(p, x) = StatusOf(chain[c], x)
  BY PaidOK
<1>2. p.nextMessageId = id
  BY DEF Paid, SameFate
<1>3. id \in Nat /\ id + 1 \in 0 .. MaxMessages /\ id \in 0 .. MaxMessages - 1
  BY BridgeAssumption DEF IInv, StorageOK, StatusOK
<1>4. fee \in Nat
  BY BridgeAssumption
<1>5. m \in SendableMessages /\ m.src = c /\ m.id = id
  BY <1>3 DEF SendableMessages
<1>22. Transferable(m)
  BY DEF Transferable
<1>6. t = [p EXCEPT !.nextMessageId = id + 1, !.signals = @ \cup {Sent(m)},
                    !.ether = @ + fee + extra, !.income = @ + fee + extra]
  BY <1>2 DEF WithMessage
<1>7. chain' = [chain EXCEPT ![c] = t]
  OBVIOUS
<1>. HIDE DEF t, m, id
<1>8. /\ DOMAIN t = StorageFields
      /\ t.nextMessageId = id + 1 /\ t.signals = p.signals \cup {Sent(m)}
      /\ t.ether = p.ether + fee + extra /\ t.income = p.income + fee + extra
      /\ \A f \in {"messageStatus", "synced", "paused", "held", "supply", "quota", "settled"} :
           t[f] = p[f]
  BY <1>1, <1>6 DEF StorageFields
<1>9. t.messageStatus = p.messageStatus /\ t.synced = p.synced /\ t.paused = p.paused
      /\ t.held = p.held /\ t.supply = p.supply /\ t.quota = p.quota /\ t.settled = p.settled
  BY <1>8
<1>10. LedgerOK(t, now) /\ LinkOK(t, chain[Other(c)], c)
  BY <1>1, <1>4, <1>8, <1>9 DEF LedgerOK, LinkOK
<1>11. \A x : StatusOf(t, x) = StatusOf(p, x) /\ Settlements(t, x) = Settlements(p, x)
  BY <1>9 DEF StatusOf, Settlements, BagIn, BagToSet
<1>12. StorageOK(t, c)
  <2>1. \A signal \in t.signals : signal = Sent(m) \/ signal \in p.signals
    BY <1>8
  <2>2. \A signal \in t.signals : \E x \in SendableMessages :
          \/ signal = Sent(x) /\ x.src = c /\ x.id < t.nextMessageId /\ Transferable(x)
          \/ signal = Failed(x) /\ x.src # c /\ StatusOf(t, x) = "FAILED"
    <3>. TAKE signal \in t.signals
    <3>1. CASE signal = Sent(m)
      BY <1>3, <1>5, <1>8, <1>22, <3>1
    <3>2. CASE signal \in p.signals
      <4>1. PICK x \in SendableMessages :
              \/ signal = Sent(x) /\ x.src = c /\ x.id < id /\ Transferable(x)
              \/ signal = Failed(x) /\ x.src # c /\ StatusOf(p, x) = "FAILED"
        BY <1>1, <1>2, <3>2 DEF StorageOK, StatusOK
      <4>2. x.id < id => x.id < id + 1
        BY <1>3 DEF SendableMessages
      <4>. QED
        BY <1>8, <1>11, <4>1, <4>2
    <3>. QED
      BY <2>1, <3>1, <3>2
  <2>. QED
    BY <1>1, <1>3, <1>8, <1>9, <1>11, <2>2 DEF StorageOK, StatusOK
<1>13. IInv'
  BY <1>1, <1>7, <1>8, <1>10, <1>12, StepInv
<1>14. Sent(m) \notin chain[c].signals
  BY <1>3, <1>5, SentBySource DEF IInv, id
<1>15. \A d \in Chains : chain'[d] = IF d = c THEN t ELSE chain[d]
  BY <1>7 DEF IInv
<1>16. \A x \in SendableMessages : x.src \in Chains /\ Other(x.src) \in Chains
  BY PayloadAmount, OtherChain
<1>17. \A d \in Chains : \A x : StatusOf(chain'[d], x) = StatusOf(chain[d], x)
  BY <1>1, <1>11, <1>15
<1>18. DeliveredSet(chain') = DeliveredSet(chain) /\ ReturnedSet(chain') = ReturnedSet(chain)
  BY <1>16, <1>17 DEF DeliveredSet, ReturnedSet
<1>19. \A x \in SendableMessages : Sent(x) \in chain'[x.src].signals <=>
         x = m \/ Sent(x) \in chain[x.src].signals
  <2>. TAKE x \in SendableMessages
  <2>1. Sent(x) = Sent(m) <=> x = m
    BY SignalsDiffer
  <2>2. CASE x.src = c
    BY <1>1, <1>8, <1>15, <2>1, <2>2
  <2>3. CASE x.src # c
    BY <1>5, <1>15, <1>16, <2>3
  <2>. QED
    BY <2>2, <2>3
<1>20. SentSet(chain') = SentSet(chain) \cup {m}
  BY <1>5, <1>19 DEF SentSet
<1>21. m \in SendableMessages \ SentSet(chain)
  BY <1>5, <1>14 DEF SentSet
<1>23. PartsSame(p, t, c)
  <2>1. t.ether - t.income = p.ether - p.income
    BY <1>1, <1>4, <1>8 DEF LedgerOK
  <2>. QED
    BY <1>9, <2>1, SameBalances
<1>24. PartsMore(chain[c], t, c, payload)
  BY <1>23 DEF PartsSame, PartsMore
<1>25. \A k \in Classes : Book(chain', k) = Book(chain, k) + Carried(payload, k)
  BY <1>7, <1>24, MorePartStep
<1>26. m.payload = payload
  BY DEF m
<1>. QED
  BY <1>13, <1>18, <1>20, <1>21, <1>25, <1>26 DEF AbstractStep, SendStep, Worth

\* sendMessage sends a message.
LEMMA SendMessageStep ==
  ASSUME IInv, NEW c \in Chains, NEW payload \in Payloads, NEW fee \in Fees,
         NEW gas \in BOOLEAN, SendMessage(c, payload, fee, gas)
  PROVE  IInv' /\ AbstractStep
<1>1. DOMAIN chain[c] = StorageFields /\ LedgerOK(chain[c], now)
  BY DEF IInv, StorageOK
<1>2. Paid(chain[c], chain[c])
  BY <1>1 DEF Paid, SameFate
<1>3. chain' = [chain EXCEPT ![c] = WithMessage(chain[c], c, payload, fee, gas, 0)]
      /\ now' = now /\ chain[c].nextMessageId < MaxMessages /\ payload.kind # "transfer"
  BY DEF SendMessage, CanSend
<1>4. PartsMore(chain[c], chain[c], c, payload)
  BY <1>1, <1>3, PartType DEF PartsMore, Carried
<1>. QED
  BY <1>2, <1>3, <1>4, NewMessageStep

\* sendToken locks or burns what it sends.
LEMMA SendTokenStep ==
  ASSUME IInv, NEW c \in Chains, NEW payload \in Payloads, NEW fee \in Fees,
         NEW gas \in BOOLEAN, NEW stray \in StrayValues, SendToken(c, payload, fee, gas, stray)
  PROVE  IInv' /\ AbstractStep
<1>1. DOMAIN chain[c] = StorageFields /\ LedgerOK(chain[c], now)
  BY DEF IInv, StorageOK
<1>2. payload.amount \in Nat /\ stray \in Nat
  BY BridgeAssumption DEF Payload
<1>3. PICK s \in HandleMessage(chain[c], c, payload.ctoken, payload.amount) :
        chain' = [chain EXCEPT ![c] = WithMessage(s, c, payload, fee, gas, stray)]
  BY DEF SendToken
<1>4. now' = now /\ chain[c].nextMessageId < MaxMessages /\ Sendable(c, payload.ctoken)
      /\ payload.kind = "transfer"
  BY DEF SendToken, CanSend
<1>5. Paid(chain[c], s)
  BY <1>1, <1>2, <1>4, HandleMessagePaid
<1>6. PartsMore(chain[c], s, c, payload)
  BY <1>1, <1>2, <1>3, <1>4, HandleMessageParts DEF PartsMore, Carried
<1>. QED
  BY <1>2, <1>3, <1>4, <1>5, <1>6, NewMessageStep

\* A root of the other chain, or a pause, changes no status and sends nothing.
LEMMA QuietStep ==
  ASSUME IInv, NEW c \in Chains, NEW t, chain' = [chain EXCEPT ![c] = t], now' = now,
         DOMAIN t = StorageFields,
         \A f \in StorageFields \ {"synced", "paused"} : t[f] = chain[c][f],
         t.synced \subseteq chain[Other(c)].signals, t.paused \subseteq Contracts
  PROVE  IInv' /\ AbstractStep
<1>1. /\ t.nextMessageId = chain[c].nextMessageId /\ t.signals = chain[c].signals
      /\ t.messageStatus = chain[c].messageStatus /\ t.settled = chain[c].settled
      /\ t.ether = chain[c].ether /\ t.held = chain[c].held /\ t.supply = chain[c].supply
      /\ t.quota = chain[c].quota /\ t.income = chain[c].income
  BY DEF StorageFields
<1>2. StorageOK(chain[c], c) /\ LedgerOK(chain[c], now) /\ LinkOK(chain[c], chain[Other(c)], c)
  BY DEF IInv
<1>3. \A x : StatusOf(t, x) = StatusOf(chain[c], x) /\ Settlements(t, x) = Settlements(chain[c], x)
  BY <1>1 DEF StatusOf, Settlements, BagIn, BagToSet
<1>4. StorageOK(t, c)
  BY <1>1, <1>2, <1>3 DEF StorageOK, StatusOK
<1>5. LedgerOK(t, now) /\ LinkOK(t, chain[Other(c)], c)
  BY <1>1, <1>2 DEF LedgerOK, LinkOK
<1>6. IInv'
  BY <1>1, <1>4, <1>5, StepInv
<1>7. \A d \in Chains : chain'[d].signals = chain[d].signals
        /\ \A x : StatusOf(chain'[d], x) = StatusOf(chain[d], x)
  BY <1>1, <1>3 DEF IInv
<1>8. \A x \in SendableMessages : x.src \in Chains /\ Other(x.src) \in Chains
  BY PayloadAmount, OtherChain
<1>9. SameSets
  BY <1>7, <1>8 DEF SameSets, SentSet, DeliveredSet, ReturnedSet
<1>10. PartsSame(chain[c], t, c)
  BY <1>1, SameBalances
<1>11. SameBooks
  BY <1>10, SamePartStep
<1>. QED
  BY <1>6, <1>9, <1>11 DEF AbstractStep

\* syncSignalRoot and the pauses are quiet.
LEMMA SyncAndPauseStep ==
  ASSUME IInv, NEW c \in Chains, NEW name \in Contracts, Sync(c) \/ SetPaused(c, name)
  PROVE  IInv' /\ AbstractStep
<1>1. /\ DOMAIN chain[c] = StorageFields /\ chain[c].paused \subseteq Contracts
      /\ chain[c].synced \subseteq chain[Other(c)].signals
  BY DEF IInv, StorageOK, LinkOK
<1>2. CASE Sync(c)
  <2>. DEFINE t == [chain[c] EXCEPT !.synced = chain[Other(c)].signals]
  <2>1. chain' = [chain EXCEPT ![c] = t] /\ now' = now
    BY <1>2 DEF Sync, IInv
  <2>2. /\ DOMAIN t = StorageFields
        /\ \A f \in StorageFields \ {"synced", "paused"} : t[f] = chain[c][f]
        /\ t.synced \subseteq chain[Other(c)].signals /\ t.paused \subseteq Contracts
    BY <1>1 DEF StorageFields
  <2>. HIDE DEF t
  <2>. QED
    BY <2>1, <2>2, QuietStep
<1>3. CASE SetPaused(c, name)
  <2>. DEFINE paused == IF name \in chain[c].paused THEN chain[c].paused \ {name}
                        ELSE chain[c].paused \cup {name}
              t == [chain[c] EXCEPT !.paused = paused]
  <2>1. chain' = [chain EXCEPT ![c] = t] /\ now' = now
    BY <1>3 DEF SetPaused, IInv
  <2>2. paused \subseteq Contracts
    BY <1>1
  <2>. HIDE DEF paused
  <2>3. /\ DOMAIN t = StorageFields
        /\ \A f \in StorageFields \ {"synced", "paused"} : t[f] = chain[c][f]
        /\ t.synced \subseteq chain[Other(c)].signals /\ t.paused \subseteq Contracts
    BY <1>1, <2>2 DEF StorageFields
  <2>. HIDE DEF t
  <2>. QED
    BY <2>1, <2>3, QuietStep
<1>. QED
  BY <1>2, <1>3

\* The clock only lets quotas refill.
LEMMA TickStep ==
  ASSUME IInv, Tick
  PROVE  IInv' /\ AbstractStep
<1>1. now' = now + 1 /\ chain' = chain /\ now' \in Nat /\ now' > 0
  BY DEF Tick, IInv
<1>2. \A c \in Chains : LedgerOK(chain[c], now')
  <2>. TAKE c \in Chains
  <2>1. \A token \in QuotaTokens : chain[c].quota[token].updatedAt \in Nat
    BY DEF IInv, LedgerOK, Quota
  <2>. QED
    BY <1>1, <2>1 DEF IInv, LedgerOK
<1>. QED
  BY <1>1, <1>2 DEF IInv, AbstractStep, SameSets, SameBooks

---------------------------------------------------------------------------------
(* The books balance *)

PendingSet(ch) == SentSet(ch) \ (DeliveredSet(ch) \cup ReturnedSet(ch))
Amounts == [m \in SendableMessages |-> m.payload.amount]
OfClass(P, k) == {m \in P : m.payload.kind = "transfer" /\ Class(m.payload.ctoken) = k}
Flight(P, k) == Total(Amounts, OfClass(P, k))
OpeningBook(k) == IF k = AnyMXC THEN InitEther["Moonchain"] ELSE 0

\* What both chains hold of a class covers what is in flight of it.
BooksInv ==
  /\ IsFiniteSet(SentSet(chain))
  /\ \A k \in Classes : Book(chain, k) = OpeningBook(k) + Flight(PendingSet(chain), k)

\* One message more in flight.
LEMMA FlightAdd ==
  ASSUME NEW P, P \subseteq SendableMessages, IsFiniteSet(P),
         NEW m \in SendableMessages, m \notin P, NEW k
  PROVE  Flight(P \cup {m}, k) = Flight(P, k) + Worth(m, k) /\ Flight(P, k) \in Nat
<1>. DEFINE Q == OfClass(P, k)
<1>1. IsFiniteSet(Q) /\ Q \subseteq SendableMessages /\ m \notin Q
  BY FS_Subset DEF OfClass
<1>2. \A x \in SendableMessages : Amounts[x] \in Nat /\ Amounts[x] = x.payload.amount
  BY PayloadAmount DEF Amounts
<1>. HIDE DEF Q
<1>3. Total(Amounts, Q) \in Nat
  BY <1>1, <1>2, TotalNat
<1>4. CASE m.payload.kind = "transfer" /\ Class(m.payload.ctoken) = k
  <2>1. OfClass(P \cup {m}, k) = Q \cup {m}
    BY <1>4 DEF OfClass, Q
  <2>2. Total(Amounts, Q \cup {m}) = Total(Amounts, Q) + Amounts[m]
    BY <1>1, <1>2, TotalAdd
  <2>. QED
    BY <1>2, <1>3, <1>4, <2>1, <2>2 DEF Flight, Worth, Carried, Amount, Q
<1>5. CASE ~ (m.payload.kind = "transfer" /\ Class(m.payload.ctoken) = k)
  <2>1. OfClass(P \cup {m}, k) = Q
    BY <1>5 DEF OfClass, Q
  <2>2. Worth(m, k) = 0
    BY <1>5 DEF Worth, Carried, Amount
  <2>. QED
    BY <1>3, <2>1, <2>2 DEF Flight, Q
<1>. QED
  BY <1>4, <1>5

\* What is settled was sent.
LEMMA SettledWasSent ==
  IInv => /\ SentSet(chain) \subseteq SendableMessages
          /\ DeliveredSet(chain) \subseteq SentSet(chain)
          /\ ReturnedSet(chain) \subseteq SentSet(chain)
BY FateVariables DEF SentSet

\* Every step keeps the books balanced.
LEMMA BooksStep ==
  ASSUME IInv, IInv', BooksInv, AbstractStep
  PROVE  BooksInv'
<1>. DEFINE P == PendingSet(chain)
            Q == PendingSet(chain')
<1>1. SentSet(chain) \subseteq SendableMessages /\ DeliveredSet(chain) \subseteq SentSet(chain)
      /\ ReturnedSet(chain) \subseteq SentSet(chain)
  BY SettledWasSent
<1>2. \A k \in Classes : Book(chain, k) = OpeningBook(k) + Flight(P, k)
  BY DEF BooksInv
<1>3. IsFiniteSet(SentSet(chain)) /\ IsFiniteSet(P) /\ P \subseteq SendableMessages
  <2>1. IsFiniteSet(SentSet(chain)) /\ P \subseteq SentSet(chain)
    BY DEF BooksInv, PendingSet
  <2>. QED
    BY <1>1, <2>1, FS_Subset
<1>4. \A k : OpeningBook(k) \in Int
  BY BridgeAssumption DEF OpeningBook, Chains
<1>5. CASE SendStep
  <2>1. PICK m \in SendableMessages \ SentSet(chain) :
          /\ SentSet(chain') = SentSet(chain) \cup {m}
          /\ DeliveredSet(chain') = DeliveredSet(chain)
          /\ ReturnedSet(chain') = ReturnedSet(chain)
          /\ \A k \in Classes : Book(chain', k) = Book(chain, k) + Worth(m, k)
    BY <1>5 DEF SendStep
  <2>2. Q = P \cup {m} /\ m \notin P
    BY <1>1, <2>1 DEF PendingSet
  <2>3. IsFiniteSet(SentSet(chain'))
    BY <1>3, <2>1, FS_AddElement
  <2>. HIDE DEF P, Q
  <2>4. ASSUME NEW k \in Classes
        PROVE  Book(chain', k) = OpeningBook(k) + Flight(Q, k)
    <3>1. Flight(Q, k) = Flight(P, k) + Worth(m, k) /\ Flight(P, k) \in Nat
      BY <1>3, <2>1, <2>2, FlightAdd
    <3>2. Worth(m, k) \in Nat
      BY <2>1, WorthType
    <3>. QED
      BY <1>2, <1>4, <2>1, <3>1, <3>2
  <2>. QED
    BY <2>3, <2>4 DEF BooksInv, Q
<1>6. CASE DeliverStep \/ ReturnStep
  <2>1. PICK m \in P :
          /\ SentSet(chain') = SentSet(chain) /\ Q = P \ {m}
          /\ \A k \in Classes : Book(chain', k) = Book(chain, k) - Worth(m, k)
    <3>1. CASE DeliverStep
      <4>1. PICK m \in SentSet(chain) \ (DeliveredSet(chain) \cup ReturnedSet(chain)) :
              /\ DeliveredSet(chain') = DeliveredSet(chain) \cup {m}
              /\ SentSet(chain') = SentSet(chain)
              /\ ReturnedSet(chain') = ReturnedSet(chain)
              /\ \A k \in Classes : Book(chain', k) = Book(chain, k) - Worth(m, k)
        BY <3>1 DEF DeliverStep
      <4>2. m \in P /\ Q = P \ {m}
        BY <4>1 DEF PendingSet
      <4>. QED
        BY <4>1, <4>2
    <3>2. CASE ReturnStep
      <4>1. PICK m \in SentSet(chain) \ (DeliveredSet(chain) \cup ReturnedSet(chain)) :
              /\ ReturnedSet(chain') = ReturnedSet(chain) \cup {m}
              /\ SentSet(chain') = SentSet(chain)
              /\ DeliveredSet(chain') = DeliveredSet(chain)
              /\ \A k \in Classes : Book(chain', k) = Book(chain, k) - Worth(m, k)
        BY <3>2 DEF ReturnStep
      <4>2. m \in P /\ Q = P \ {m}
        BY <4>1 DEF PendingSet
      <4>. QED
        BY <4>1, <4>2
    <3>. QED
      BY <1>6, <3>1, <3>2
  <2>2. P = Q \cup {m} /\ m \notin Q /\ Q \subseteq P /\ m \in SendableMessages
    BY <1>3, <2>1
  <2>. HIDE DEF P, Q
  <2>3. IsFiniteSet(Q) /\ Q \subseteq SendableMessages
    BY <1>3, <2>2, FS_Subset
  <2>4. ASSUME NEW k \in Classes
        PROVE  Book(chain', k) = OpeningBook(k) + Flight(Q, k)
    <3>1. Flight(P, k) = Flight(Q, k) + Worth(m, k) /\ Flight(Q, k) \in Nat
      BY <2>2, <2>3, FlightAdd
    <3>2. Worth(m, k) \in Nat
      BY <2>2, WorthType
    <3>. QED
      BY <1>2, <1>4, <2>1, <3>1, <3>2
  <2>. QED
    BY <1>3, <2>1, <2>4 DEF BooksInv, Q
<1>7. CASE SameSets /\ SameBooks
  BY <1>2, <1>3, <1>7 DEF SameSets, SameBooks, BooksInv, PendingSet
<1>. QED
  BY <1>5, <1>6, <1>7 DEF AbstractStep

\* What the properties call in flight is what the books call in flight.
LEMMA InFlightIsFlight ==
  ASSUME IInv, BooksInv, NEW ctokens, NEW k,
         \A m \in SentSet(chain) : m.payload.kind = "transfer" =>
           (m.payload.ctoken \in ctokens <=> Class(m.payload.ctoken) = k)
  PROVE  InFlight(ctokens) = Flight(PendingSet(chain), k)
<1>1. Pending = PendingSet(chain)
  <2>1. \A m \in SentSet(chain) : (Delivered(m) <=> m \in DeliveredSet(chain))
                                  /\ (Returned(m) <=> m \in ReturnedSet(chain))
    BY DEF Delivered, Returned, DeliveredSet, ReturnedSet, SentSet
  <2>. QED
    BY <2>1, FateVariables DEF Pending, PendingSet
<1>2. PendingSet(chain) \subseteq SentSet(chain)
  BY DEF PendingSet
<1>3. {m \in Pending : m.payload.kind = "transfer" /\ m.payload.ctoken \in ctokens}
        = OfClass(PendingSet(chain), k)
  BY <1>1, <1>2 DEF OfClass
<1>. DEFINE S == OfClass(PendingSet(chain), k)
            w == [m \in Pending |-> m.payload.amount]
<1>4. IsFiniteSet(S)
  <2>1. S \subseteq SentSet(chain)
    BY <1>2 DEF OfClass
  <2>. QED
    BY <2>1, FS_Subset DEF BooksInv
<1>5. \A m \in S : w[m] = Amounts[m]
  BY <1>1, <1>2 DEF OfClass, Amounts, SentSet
<1>6. InFlight(ctokens) = Total(w, S)
  BY <1>3 DEF InFlight
<1>. HIDE DEF S, w
<1>7. Total(w, S) = Total(Amounts, S)
  BY <1>4, <1>5, TotalSame
<1>. QED
  BY <1>6, <1>7 DEF Flight, S

---------------------------------------------------------------------------------
(* Theorems *)

\* The contracts start within their types, with no message sent.
LEMMA InitInv ==
  Init => IInv /\ SentSet(chain) = {} /\ DeliveredSet(chain) = {} /\ ReturnedSet(chain) = {}
<1>. SUFFICES ASSUME Init
              PROVE  /\ IInv /\ SentSet(chain) = {} /\ DeliveredSet(chain) = {}
                     /\ ReturnedSet(chain) = {}
  OBVIOUS
<1>1. DOMAIN chain = Chains /\ now = 1 /\ \A c \in Chains : chain[c] = InitStorage(c)
  BY DEF Init
<1>2. ASSUME NEW c \in Chains
      PROVE  /\ StorageOK(InitStorage(c), c) /\ LedgerOK(InitStorage(c), 1)
             /\ InitStorage(c).synced = {} /\ InitStorage(c).signals = {}
             /\ DOMAIN InitStorage(c).messageStatus = {}
             /\ \A x : StatusOf(InitStorage(c), x) = "NEW"
  <2>. DEFINE s == InitStorage(c)
  <2>1. /\ DOMAIN s = StorageFields /\ s.nextMessageId = 0 /\ s.messageStatus = <<>>
        /\ s.signals = {} /\ s.synced = {} /\ s.paused = {} /\ s.ether = InitEther[c]
        /\ s.held = [name \in {"erc20", "mxc"} |-> 0] /\ s.supply = 0 /\ s.income = 0
        /\ s.quota = [token \in QuotaTokens |->
                        UpdatedQuota(IF c = "L1" THEN InitQuota[token] ELSE 0)]
        /\ s.settled = EmptyBag
    BY DEF InitStorage, StorageFields
  <2>. HIDE DEF s
  <2>2. DOMAIN s.messageStatus = {} /\ DOMAIN s.settled = {}
    BY <2>1 DEF EmptyBag, SetToBag
  <2>3. \A x : StatusOf(s, x) = "NEW" /\ Settlements(s, x) = 0
    BY <2>2 DEF StatusOf, Settlements, BagIn, BagToSet
  <2>4. StorageOK(s, c)
    BY <2>1, <2>2, <2>3, BridgeAssumption DEF StorageOK, StatusOK
  <2>5. \A token \in QuotaTokens : s.quota[token] \in Quota /\ s.quota[token].updatedAt <= 1
    BY <2>1, BridgeAssumption DEF UpdatedQuota, Quota
  <2>6. s.ether \in Nat /\ s.held \in [HeldTokens -> Nat]
    BY <2>1, BridgeAssumption DEF HeldTokens
  <2>7. s.quota \in [QuotaTokens -> Quota]
    BY <2>1, <2>5
  <2>8. LedgerOK(s, 1)
    BY <2>1, <2>5, <2>6, <2>7 DEF LedgerOK
  <2>. QED
    BY <2>1, <2>2, <2>3, <2>4, <2>8 DEF s
<1>3. \A c \in Chains : LinkOK(chain[c], chain[Other(c)], c)
  BY <1>1, <1>2 DEF LinkOK
<1>4. IInv
  BY <1>1, <1>2, <1>3 DEF IInv
<1>5. \A x \in SendableMessages : x.src \in Chains /\ Other(x.src) \in Chains
  BY PayloadAmount, OtherChain
<1>. QED
  BY <1>1, <1>2, <1>4, <1>5 DEF SentSet, DeliveredSet, ReturnedSet

\* Every step keeps the invariant and is a step of MessageFate, or none.
LEMMA NextStep ==
  IInv /\ [Next]_vars => IInv' /\ AbstractStep
<1>. SUFFICES ASSUME IInv, [Next]_vars
              PROVE  IInv' /\ AbstractStep
  OBVIOUS
<1>1. ASSUME NEW c \in Chains, NEW payload \in Payloads, NEW fee \in Fees, NEW gas \in BOOLEAN,
             \/ SendMessage(c, payload, fee, gas)
             \/ \E stray \in StrayValues : SendToken(c, payload, fee, gas, stray)
      PROVE  IInv' /\ AbstractStep
  BY <1>1, SendMessageStep, SendTokenStep
<1>2. ASSUME NEW c \in Chains, NEW m \in AllMessages,
             \/ \E byOwner \in BOOLEAN, price \in Prices : ProcessMessage(c, m, byOwner, price)
             \/ \E byOwner, isLastAttempt \in BOOLEAN : RetrySucceeds(c, m, byOwner, isLastAttempt)
             \/ RetryFails(c, m)
             \/ FailMessage(c, m)
             \/ RecallMessage(c, m)
      PROVE  IInv' /\ AbstractStep
  BY <1>2, ProcessStep, RetryStep, GiveUpStep, RecallStep
<1>3. ASSUME NEW c \in Chains, Sync(c)
      PROVE  IInv' /\ AbstractStep
  BY <1>3, SyncAndPauseStep DEF Contracts
<1>4. ASSUME NEW c \in Chains, NEW name \in {"bridge", "erc20_vault", "quota_manager"},
             SetPaused(c, name)
      PROVE  IInv' /\ AbstractStep
  BY <1>4, SyncAndPauseStep DEF Contracts
<1>5. CASE Tick
  BY <1>5, TickStep
<1>6. CASE UNCHANGED vars
  BY <1>6 DEF vars, IInv, AbstractStep, SameSets, SameBooks
<1>. QED
  BY <1>1, <1>2, <1>3, <1>4, <1>5, <1>6 DEF Next

\* The invariant holds in every reachable state.
LEMMA IInvHolds == Spec => []IInv
<1>1. Init => IInv
  BY InitInv
<1>2. IInv /\ [Next]_vars => IInv'
  BY NextStep
<1>. QED
  BY <1>1, <1>2, PTL DEF Spec

\* Message ids, balances, quotas, statuses and signals keep their types: no burn,
\* release or fee payment of the bridges and vaults (transferTokens,
\* _invocationSendNativeToken, processMessage) takes a balance below zero.
THEOREM StorageTypeCorrect == Spec => []TypeOK
<1>1. IInv => TypeOK
  <2>. SUFFICES ASSUME IInv, NEW c \in Chains
                PROVE  LET s == chain[c] IN
                       /\ {s.nextMessageId, s.ether, s.supply} \cup Range(s.held) \subseteq Nat
                       /\ \A m \in DOMAIN s.messageStatus : m \in Message /\ s.messageStatus[m] \in Status
                       /\ \A signal \in s.signals : signal[1] \in {"sent", "failed"} /\ signal[2] \in Message
                       /\ s.synced \subseteq chain[Other(c)].signals
                       /\ s.quota \in [QuotaTokens -> Quota]
                       /\ s.paused \subseteq {"bridge", "erc20_vault", "quota_manager"}
    BY DEF TypeOK, IInv
  <2>1. SendableMessages \subseteq Message
    <3>1. \A m \in SendableMessages : m.id \in Nat
      BY BridgeAssumption DEF SendableMessages
    <3>. QED
      BY <3>1, BridgeAssumption DEF SendableMessages, Message
  <2>2. chain[c].nextMessageId \in Nat
    BY BridgeAssumption DEF IInv, StorageOK, StatusOK
  <2>3. Range(chain[c].held) \subseteq Nat
    BY DEF IInv, LedgerOK, Range
  <2>4. \A signal \in chain[c].signals : signal[1] \in {"sent", "failed"} /\ signal[2] \in Message
    BY <2>1 DEF IInv, StorageOK, StatusOK, Sent, Failed
  <2>5. \A m \in DOMAIN chain[c].messageStatus :
          m \in Message /\ chain[c].messageStatus[m] \in Status
    BY <2>1 DEF IInv, StorageOK, StatusOK, Status
  <2>. QED
    BY <2>2, <2>3, <2>4, <2>5 DEF IInv, StorageOK, LedgerOK, LinkOK, Contracts
<1>. QED
  BY <1>1, IInvHolds, PTL

\* The bridges implement MessageFate: whatever the chains sync, process, retry, fail,
\* recall and pause, in whatever order, a message is settled by one transaction, on
\* one of the two chains.
THEOREM BridgeImplementsFate == Spec => FateSpec
<1>1. Init => Fate!Init
  BY InitInv, FateVariables DEF Fate!Init
<1>2. IInv /\ IInv' /\ [Next]_vars => [Fate!Next]_Fate!vars
  <2>. SUFFICES ASSUME IInv, IInv', [Next]_vars
                PROVE  Fate!Next \/ UNCHANGED Fate!vars
    OBVIOUS
  <2>. DEFINE sent == AllMessages
              delivered == {m \in AllMessages : Settlements(chain[Other(m.src)], m) = 1}
              returned == {m \in AllMessages : Settlements(chain[m.src], m) = 1}
  <2>1. sent = SentSet(chain) /\ delivered = DeliveredSet(chain) /\ returned = ReturnedSet(chain)
    BY FateVariables
  <2>2. /\ sent' = SentSet(chain') /\ delivered' = DeliveredSet(chain')
        /\ returned' = ReturnedSet(chain')
    <3>1. (IInv => sent = SentSet(chain) /\ delivered = DeliveredSet(chain)
                     /\ returned = ReturnedSet(chain))'
      BY FateVariables, PTL
    <3>. QED
      BY <3>1
  <2>3. AbstractStep
    BY NextStep
  <2>4. CASE SendStep
    BY <2>1, <2>2, <2>4 DEF SendStep, Fate!Next, Fate!Send
  <2>5. CASE DeliverStep
    BY <2>1, <2>2, <2>5 DEF DeliverStep, Fate!Next, Fate!Deliver, Fate!Pending
  <2>6. CASE ReturnStep
    BY <2>1, <2>2, <2>6 DEF ReturnStep, Fate!Next, Fate!Return, Fate!Pending
  <2>7. CASE SameSets
    BY <2>1, <2>2, <2>7 DEF SameSets, Fate!vars
  <2>. QED
    BY <2>3, <2>4, <2>5, <2>6, <2>7 DEF AbstractStep
<1>. QED
  BY <1>1, <1>2, IInvHolds, PTL DEF Spec, FateSpec, Fate!Spec

\* The books are balanced when nothing is sent.
LEMMA BooksInit ==
  Init => BooksInv
<1>. SUFFICES ASSUME Init PROVE BooksInv
  OBVIOUS
<1>1. SentSet(chain) = {} /\ PendingSet(chain) = {}
  BY InitInv DEF PendingSet
<1>2. \A k : Flight({}, k) = 0
  <2>. TAKE k
  <2>1. OfClass({}, k) = {}
    BY DEF OfClass
  <2>. QED
    BY <2>1, TotalEmpty DEF Flight
<1>3. \A c \in Chains :
        /\ chain[c].held["erc20"] = 0 /\ chain[c].held["mxc"] = 0 /\ chain[c].supply = 0
        /\ chain[c].income = 0 /\ chain[c].ether = InitEther[c] /\ InitEther[c] \in Nat
  BY BridgeAssumption DEF Init, InitStorage
<1>4. "L1" \in Chains /\ "Moonchain" \in Chains
      /\ Classes = {<<"L1", "erc20">>, <<"Moonchain", "erc20">>, AnyMXC}
  BY DEF Chains, Classes
<1>5. Other("L1") = "Moonchain" /\ Other("Moonchain") = "L1"
  BY <1>4, OtherChain DEF Chains
<1>6. ASSUME NEW k \in Classes
      PROVE  Book(chain, k) = OpeningBook(k)
  <2>1. CASE k = AnyMXC
    BY <1>3, <1>4, <1>5, <2>1 DEF Book, Part, OpeningBook, AnyMXC
  <2>2. CASE k = <<"L1", "erc20">>
    BY <1>3, <1>4, <1>5, <2>2 DEF Book, Part, OpeningBook, AnyMXC
  <2>3. CASE k = <<"Moonchain", "erc20">>
    BY <1>3, <1>4, <1>5, <2>3 DEF Book, Part, OpeningBook, AnyMXC
  <2>. QED
    BY <1>4, <2>1, <2>2, <2>3
<1>7. \A k : OpeningBook(k) \in Int
  BY <1>3, <1>4 DEF OpeningBook
<1>. QED
  BY <1>1, <1>2, <1>6, <1>7, FS_EmptySet DEF BooksInv

\* The books balance in every reachable state.
LEMMA BooksBalance == Spec => [](IInv /\ BooksInv)
<1>1. Init => IInv /\ BooksInv
  BY InitInv, BooksInit
<1>2. IInv /\ BooksInv /\ [Next]_vars => (IInv /\ BooksInv)'
  BY NextStep, BooksStep
<1>. QED
  BY <1>1, <1>2, PTL DEF Spec

\* Every bridged ERC-20, and every one in flight, is locked in the vault of its own
\* chain (ERC20Vault._handleMessage, _transferTokens): no order of processing,
\* retrying, failing and recalling mints or releases a transfer twice, or loses one.
THEOREM ERC20sStayBacked == Spec => []Backed
<1>1. IInv /\ BooksInv => Backed
  <2>. SUFFICES ASSUME IInv, BooksInv, NEW c \in Chains
                PROVE  chain[c].held["erc20"]
                         = chain[Other(c)].supply + InFlight({<<c, "erc20">>})
    BY DEF Backed
  <2>. DEFINE k == <<c, "erc20">>
              flight == Flight(PendingSet(chain), k)
  <2>1. k \in Classes /\ k # AnyMXC
    BY DEF Classes, AnyMXC
  <2>2. InFlight({k}) = flight
    <3>1. \A ctoken : ctoken \in {k} <=> Class(ctoken) = k
      BY DEF Class, AnyMXC
    <3>. HIDE DEF k
    <3>. QED
      BY <3>1, InFlightIsFlight
  <2>3. Book(chain, k) = 0 + flight
    BY <2>1 DEF BooksInv, OpeningBook
  <2>4. flight \in Int
    <3>. HIDE DEF k
    <3>1. IsFiniteSet(OfClass(PendingSet(chain), k))
      BY FS_Subset DEF BooksInv, OfClass, PendingSet
    <3>2. \A m \in OfClass(PendingSet(chain), k) : Amounts[m] \in Nat
      BY PayloadAmount DEF OfClass, PendingSet, SentSet, Amounts
    <3>. QED
      BY <3>1, <3>2, TotalNat DEF Flight
  <2>. HIDE DEF flight
  <2>5. /\ Other(c) \in Chains /\ Other(c) # c /\ Other(Other(c)) = c
        /\ {c, Other(c)} = {"L1", "Moonchain"}
    BY OtherChain DEF Chains
  <2>6. chain[c].held["erc20"] \in Int /\ chain[Other(c)].supply \in Int
    BY <2>5 DEF IInv, LedgerOK, HeldTokens
  <2>7. Part(chain[c], c, k) = chain[c].held["erc20"]
        /\ Part(chain[Other(c)], Other(c), k) = -chain[Other(c)].supply
    BY <2>5 DEF Part
  <2>8. Book(chain, k) = Part(chain[c], c, k) + Part(chain[Other(c)], Other(c), k)
    <3>. HIDE DEF k
    <3>1. CASE c = "L1" /\ Other(c) = "Moonchain"
      BY <3>1 DEF Book
    <3>2. CASE c = "Moonchain" /\ Other(c) = "L1"
      <4>1. Part(chain["L1"], "L1", k) \in Int /\ Part(chain["Moonchain"], "Moonchain", k) \in Int
        BY PartType DEF IInv, Chains
      <4>. QED
        BY <3>2, <4>1 DEF Book
    <3>3. (c = "L1" /\ Other(c) = "Moonchain") \/ (c = "Moonchain" /\ Other(c) = "L1")
      BY <2>5
    <3>. QED
      BY <3>1, <3>2, <3>3
  <2>. QED
    BY <2>2, <2>3, <2>4, <2>6, <2>7, <2>8
<1>. QED
  BY <1>1, BooksBalance, PTL

\* MXC is never created: what L1's vault and Moonchain's bridge hold changes with the
\* transfers in flight and with the fees of the bridge only (_invocationSendNativeToken,
\* ERC20Vault._transferTokens and _handleMessage).
THEOREM NativeMXCConserved == Spec => []NativeConserved
<1>1. IInv /\ BooksInv => NativeConserved
  <2>. SUFFICES ASSUME IInv, BooksInv PROVE NativeConserved
    OBVIOUS
  <2>. DEFINE tokens == Chains \X {"mxc"}
  <2>1. InFlight(tokens) = Flight(PendingSet(chain), AnyMXC)
    <3>1. ASSUME NEW m \in SentSet(chain), m.payload.kind = "transfer"
          PROVE  m.payload.ctoken \in tokens <=> Class(m.payload.ctoken) = AnyMXC
      <4>1. m.src \in Chains /\ Other(m.src) \in Chains /\ Sendable(m.src, m.payload.ctoken)
        BY <3>1, PayloadAmount, OtherChain, SentBySource DEF SentSet, Transferable, IInv
      <4>2. \E c \in Chains, name \in {"erc20", "mxc"} : m.payload.ctoken = <<c, name>>
        BY <4>1 DEF Sendable
      <4>. QED
        BY <4>2 DEF Class, AnyMXC, Chains
    <3>. HIDE DEF tokens
    <3>. QED
      BY <3>1, InFlightIsFlight
  <2>2. Book(chain, AnyMXC) = InitEther["Moonchain"] + Flight(PendingSet(chain), AnyMXC)
    BY DEF BooksInv, OpeningBook, Classes
  <2>3. Part(chain["L1"], "L1", AnyMXC) = chain["L1"].held["mxc"]
        /\ Part(chain["Moonchain"], "Moonchain", AnyMXC)
             = chain["Moonchain"].ether - chain["Moonchain"].income
    BY DEF Part, AnyMXC
  <2>4. chain["L1"].held["mxc"] \in Int /\ chain["Moonchain"].ether \in Int
        /\ chain["Moonchain"].income \in Int
    BY DEF IInv, LedgerOK, HeldTokens, Chains
  <2>. HIDE DEF tokens
  <2>5. chain["L1"].held["mxc"] + chain["Moonchain"].ether - chain["Moonchain"].income
          = InitEther["Moonchain"] + InFlight(tokens)
    BY <2>1, <2>2, <2>3, <2>4 DEF Book
  <2>. QED
    BY <2>5 DEF NativeConserved, tokens
<1>. QED
  BY <1>1, BooksBalance, PTL

=================================================================================
