--------------------------------- MODULE Bridge ---------------------------------
(***************************************************************************)
(* The Bridge contracts of L1 and of Moonchain with the ERC20Vault on top  *)
(* of each: sending, processing, retrying, failing and recalling messages. *)
(* chain[c] is the storage of chain c's contracts; an operator that takes  *)
(* such a storage `s` returns storages, and a call that reverts returns    *)
(* none.  Signals reach the other chain when its signal service syncs.     *)
(***************************************************************************)
EXTENDS Integers, FiniteSets, Functions, Bags, Quotas, Totals

CONSTANTS
  Fees,           \* fees users choose
  StrayValues,    \* ether sent with an ERC-20 on Moonchain beyond the fee
  Payloads,       \* what users send
  Prices,         \* ETH/MXC price the aggregator may answer
  InitEther,      \* [Chains -> Nat]: native coins of each bridge at the start
  InitQuota,      \* [QuotaTokens -> Nat]: quotas on L1, 0 for no limit
  QuotaPeriod,
  Pausable,       \* bound: contracts <<chain, name>> their owners may pause
  MaxMessages,    \* bound: messages sent from each chain
  MaxTime         \* bound: the clock

VARIABLES chain, now

vars == <<chain, now>>

Chains == {"L1", "Moonchain"}
Other(c) == CHOOSE d \in Chains : d # c

---------------------------------------------------------------------------------
(* Tokens, messages and storage *)

\* Canonical tokens: on each chain an ERC-20 and MXC (B_TAIKO_TOKEN), an
\* ERC-20 on L1 and the native coin, as address 0xEeee.., on Moonchain.
CTokens == Chains \X {"erc20", "mxc"}
NoToken == <<"none", "none">>
Ether == <<"none", "ether">>     \* address(0) of the quota manager
QuotaTokens == {Ether} \cup CTokens

\* A call other than a token transfer ("call"), one the bridge will not make
\* ("prohibited"), or a call of the other chain's vault ("transfer").
Payload == [kind : {"call", "prohibited", "transfer"}, ctoken : CTokens \cup {NoToken},
            amount : Nat, toAllowed : BOOLEAN]

ASSUME BridgeAssumption ==
  /\ Fees \subseteq Nat /\ StrayValues \subseteq Nat
  /\ Payloads \subseteq Payload
  /\ Prices \subseteq Nat \ {0}
  /\ InitEther \in [Chains -> Nat]
  /\ InitQuota \in [QuotaTokens -> Nat]
  /\ QuotaPeriod \in Nat \ {0}
  /\ MaxMessages \in Nat /\ MaxTime \in Nat

\* `value` is 0: the bridge reverts for any other.  `gas` tells a gasLimit
\* that pays for the invocation from one of 0.
Message == [src : Chains, id : Nat, fee : Nat, gas : BOOLEAN, payload : Payload]

Status == {"NEW", "RETRIABLE", "DONE", "FAILED", "RECALLED"}
Sent(m) == <<"sent", m>>            \* the signal msgHash
Failed(m) == <<"failed", m>>        \* signalForFailedMessage(msgHash)

StatusOf(s, m) == IF m \in DOMAIN s.messageStatus THEN s.messageStatus[m] ELSE "NEW"

InitStorage(c) ==
  [nextMessageId |-> 0,
   messageStatus |-> <<>>,
   signals |-> {},                                \* sent through this chain's signal service
   synced |-> {},                                 \* provable signals of the other chain
   paused |-> {},
   ether |-> InitEther[c],                        \* native coins of the bridge
   held |-> [name \in {"erc20", "mxc"} |-> 0],    \* canonical tokens of the vault
   supply |-> 0,                                  \* of the other chain's bridged ERC-20
   quota |-> [token \in QuotaTokens |->
                UpdatedQuota(IF c = "L1" THEN InitQuota[token] ELSE 0)],
   income |-> 0,                                  \* history: fees and strays less fees paid
   settled |-> EmptyBag]                          \* history: messages done or recalled here

Init == chain = [c \in Chains |-> InitStorage(c)] /\ now = 1

---------------------------------------------------------------------------------
(* QuotaManager and ERC20Vault *)

ConsumeQuota(s, token, amount) ==
  {t \in {[s EXCEPT !.quota[token] = Consumed(@, QuotaPeriod, now, amount)]} :
     /\ "quota_manager" \notin s.paused
     /\ CanConsume(s.quota[token], QuotaPeriod, now, amount)}

ReleaseHeld(s, name, amount) ==
  {t \in {[s EXCEPT !.held[name] = @ - amount]} : s.held[name] >= amount}
InvocationSendNativeToken(s, amount) ==
  {t \in {[s EXCEPT !.ether = @ - amount]} : s.ether >= amount}
Mint(s, amount) == {[s EXCEPT !.supply = @ + amount]}

\* On Moonchain, address 0xEeee.. is no contract: its safeTransfer reverts.
Moved(s, c, ctoken, amount) ==
  CASE ctoken = <<c, "erc20">> -> ReleaseHeld(s, "erc20", amount)
    [] ctoken = <<c, "mxc">> -> IF c = "L1" THEN ReleaseHeld(s, "mxc", amount) ELSE {}
    [] ctoken = <<Other(c), "mxc">> -> IF c = "L1" THEN ReleaseHeld(s, "mxc", amount)
                                       ELSE InvocationSendNativeToken(s, amount)
    [] OTHER -> Mint(s, amount)

\* token_ stays address(0) for the MXC of the other chain.
QuotaTokenOf(c, ctoken) == IF ctoken = <<Other(c), "mxc">> THEN Ether ELSE ctoken

TransferTokens(s, c, ctoken, amount) ==
  UNION {ConsumeQuota(t, QuotaTokenOf(c, ctoken), amount) : t \in Moved(s, c, ctoken, amount)}

OnMessageInvocation(s, c, payload) ==
  IF "erc20_vault" \notin s.paused /\ payload.toAllowed
  THEN TransferTokens(s, c, payload.ctoken, payload.amount) ELSE {}

OnMessageRecalled(s, c, payload) ==
  IF "erc20_vault" \notin s.paused
  THEN TransferTokens(s, c, payload.ctoken, payload.amount) ELSE {}

\* Tokens a user may name on chain c, as canonical tokens.
Sendable(c, ctoken) == ctoken \in {<<c, "erc20">>, <<c, "mxc">>, <<Other(c), "erc20">>}

\* The tokens leave the sender: burnt, paid with msg.value or locked.
HandleMessage(s, c, ctoken, amount) ==
  CASE ctoken = <<Other(c), "erc20">> ->
         {t \in {[s EXCEPT !.supply = @ - amount]} : s.supply >= amount}
    [] ctoken = <<"Moonchain", "mxc">> -> {[s EXCEPT !.ether = @ + amount]}
    [] OTHER -> {[s EXCEPT !.held[ctoken[2]] = @ + amount]}

---------------------------------------------------------------------------------
(* Sending *)

WithMessage(s, c, payload, fee, gas, extra) ==
  [s EXCEPT !.nextMessageId = @ + 1,
            !.signals = @ \cup {Sent([src |-> c, id |-> s.nextMessageId, fee |-> fee,
                                      gas |-> gas, payload |-> payload])},
            !.ether = @ + fee + extra,
            !.income = @ + fee + extra]

CanSend(s, fee, gas) ==
  /\ "bridge" \notin s.paused
  /\ gas \/ fee = 0
  /\ s.nextMessageId < MaxMessages

SendMessage(c, payload, fee, gas) ==
  /\ payload.kind # "transfer"
  /\ CanSend(chain[c], fee, gas)
  /\ chain' = [chain EXCEPT ![c] = WithMessage(@, c, payload, fee, gas, 0)]
  /\ UNCHANGED now

\* On Moonchain the bridge does not compare msg.value with the fee of a
\* message of the vault: `stray` is what an ERC-20 transfer carries beyond it.
SendToken(c, payload, fee, gas, stray) ==
  /\ payload.kind = "transfer"
  /\ Sendable(c, payload.ctoken)
  /\ "erc20_vault" \notin chain[c].paused
  /\ CanSend(chain[c], fee, gas)
  /\ stray > 0 => c = "Moonchain" /\ payload.ctoken # <<c, "mxc">>
  /\ \E s \in HandleMessage(chain[c], c, payload.ctoken, payload.amount) :
       chain' = [chain EXCEPT ![c] = WithMessage(s, c, payload, fee, gas, stray)]
  /\ UNCHANGED now

---------------------------------------------------------------------------------
(* Processing, on the destination chain *)

UnableToInvokeMessageCall(m) == m.payload.kind = "prohibited"

WithStatus(s, m, status) ==
  [s EXCEPT !.messageStatus = [x \in DOMAIN @ \cup {m} |-> IF x = m THEN status ELSE @[x]],
            !.settled = IF status \in {"DONE", "RECALLED"} THEN @ (+) SetToBag({m}) ELSE @]

\* How a call that has enough gas may end without a revert.
InvokeMessageCall(s, c, m) ==
  IF m.payload.kind = "transfer" THEN OnMessageInvocation(s, c, m.payload) ELSE {s}

\* The fee is converted to the destination's native coin.
MessageFee(c, fee, price) ==
  CASE fee = 0 -> 0
    [] c = "Moonchain" -> fee * price
    [] OTHER -> IF fee \div price = 0 THEN 1 ELSE fee \div price

\* To the relayer and to destOwner, which together get the whole fee.
PayFee_Unchecked(s, amount) == \* mutation: pays what the bridge does not hold
  {[s EXCEPT !.ether = @ - amount, !.income = @ - amount]}
PayFee(s, amount) ==
  {t \in {[s EXCEPT !.ether = @ - amount, !.income = @ - amount]} : s.ether >= amount}

\* What the call leaves behind, with the status it gives the message; any
\* call may fail, for its gas at least, and leaves nothing then.
Outcomes(s, c, m) ==
  IF UnableToInvokeMessageCall(m) THEN {<<s, "DONE">>}
  ELSE {<<t, "DONE">> : t \in InvokeMessageCall(s, c, m)} \cup {<<s, "RETRIABLE">>}

IsReceived(s, c, m) == m.src # c /\ Sent(m) \in s.synced

Processable_NotFinal(s, m) == \* mutation: refuses only what is done
  StatusOf(s, m) # "DONE"
Processable(s, m) == StatusOf(s, m) = "NEW"

ProcessMessage(c, m, byOwner, price) ==
  LET s == chain[c] IN
  /\ "bridge" \notin s.paused
  /\ byOwner \/ m.gas
  /\ Processable(s, m)
  /\ IsReceived(s, c, m)
  /\ \E charged \in ConsumeQuota(s, Ether, m.fee) :
     \E outcome \in Outcomes(charged, c, m) :
     \E paid \in PayFee(outcome[1], MessageFee(c, m.fee, price)) :
       chain' = [chain EXCEPT ![c] = WithStatus(paid, m, outcome[2])]
  /\ UNCHANGED now

\* FAILED, and the signal for it that the source chain can prove.
WithFailure_NoSignal(s, m) == \* mutation: the source chain never hears of it
  WithStatus(s, m, "FAILED")
WithFailure(s, m) ==
  [WithStatus(s, m, "FAILED") EXCEPT !.signals = @ \cup {Failed(m)}]

Retriable(s, m) == "bridge" \notin s.paused /\ StatusOf(s, m) = "RETRIABLE"

MayRetry(m, byOwner, isLastAttempt) == byOwner \/ (m.gas /\ ~isLastAttempt)

RetrySucceeds(c, m, byOwner, isLastAttempt) ==
  /\ Retriable(chain[c], m)
  /\ MayRetry(m, byOwner, isLastAttempt)
  /\ \E s \in UNION {InvokeMessageCall(charged, c, m) : charged \in ConsumeQuota(chain[c], Ether, 0)} :
       chain' = [chain EXCEPT ![c] = WithStatus(s, m, "DONE")]
  /\ UNCHANGED now

\* The last attempt fails; an attempt that fails and is not the last reverts.
RetryFails(c, m) ==
  /\ Retriable(chain[c], m)
  /\ \E s \in ConsumeQuota(chain[c], Ether, 0) :
       chain' = [chain EXCEPT ![c] = WithFailure(s, m)]
  /\ UNCHANGED now

FailMessage(c, m) ==
  /\ Retriable(chain[c], m)
  /\ chain' = [chain EXCEPT ![c] = WithFailure(@, m)]
  /\ UNCHANGED now

---------------------------------------------------------------------------------
(* Recalling, on the source chain *)

Recallable_NoProof(s, c, m) == \* mutation: no proof that the message failed
  m.src = c /\ StatusOf(s, m) = "NEW" /\ Sent(m) \in s.signals
Recallable(s, c, m) ==
  /\ m.src = c
  /\ StatusOf(s, m) = "NEW"
  /\ Sent(m) \in s.signals
  /\ Failed(m) \in s.synced

\* What the recall leaves behind, if it does not revert.
Recalled(s, c, m) ==
  UNION {IF m.payload.kind = "transfer" THEN OnMessageRecalled(charged, c, m.payload)
         ELSE {charged} : charged \in ConsumeQuota(WithStatus(s, m, "RECALLED"), Ether, 0)}

RecallMessage(c, m) ==
  /\ "bridge" \notin chain[c].paused
  /\ Recallable(chain[c], c, m)
  /\ \E s \in Recalled(chain[c], c, m) : chain' = [chain EXCEPT ![c] = s]
  /\ UNCHANGED now

---------------------------------------------------------------------------------
(* The signal service of chain c learns a root of the other chain. *)
Sync(c) ==
  /\ chain' = [chain EXCEPT ![c].synced = chain[Other(c)].signals]
  /\ UNCHANGED now

SetPaused(c, name) ==
  /\ <<c, name>> \in Pausable
  /\ chain' = [chain EXCEPT ![c].paused =
                 IF name \in @ THEN @ \ {name} ELSE @ \cup {name}]
  /\ UNCHANGED now

Tick == now < MaxTime /\ now' = now + 1 /\ UNCHANGED chain

SentMessages(c) == {m \in {signal[2] : signal \in chain[c].signals} : Sent(m) \in chain[c].signals}
AllMessages == UNION {SentMessages(c) : c \in Chains}

Next ==
  \/ \E c \in Chains, payload \in Payloads, fee \in Fees, gas \in BOOLEAN :
       \/ SendMessage(c, payload, fee, gas)
       \/ \E stray \in StrayValues : SendToken(c, payload, fee, gas, stray)
  \/ \E c \in Chains, m \in AllMessages :
       \/ \E byOwner \in BOOLEAN, price \in Prices : ProcessMessage(c, m, byOwner, price)
       \/ \E byOwner, isLastAttempt \in BOOLEAN : RetrySucceeds(c, m, byOwner, isLastAttempt)
       \/ RetryFails(c, m)
       \/ FailMessage(c, m)
       \/ RecallMessage(c, m)
  \/ \E c \in Chains : Sync(c)
  \/ \E c \in Chains, name \in {"bridge", "erc20_vault", "quota_manager"} : SetPaused(c, name)
  \/ Tick

Spec == Init /\ [][Next]_vars

---------------------------------------------------------------------------------
(* Properties *)

\* How often a transaction settled m on the chain of storage s.
Settlements(s, m) == IF BagIn(m, s.settled) THEN s.settled[m] ELSE 0

Delivered(m) == StatusOf(chain[Other(m.src)], m) = "DONE"
Returned(m) == StatusOf(chain[m.src], m) = "RECALLED"
Pending == {m \in AllMessages : ~Delivered(m) /\ ~Returned(m)}
InFlight(ctokens) ==
  Total([m \in Pending |-> m.payload.amount],
        {m \in Pending : m.payload.kind = "transfer" /\ m.payload.ctoken \in ctokens})

\* The storage of both chains keeps its type.  A balance below zero would be
\* a burn, a release or a fee payment the code lets through uncovered.
TypeOK ==
  /\ now \in Nat
  /\ \A c \in Chains :
       LET s == chain[c] IN
       /\ {s.nextMessageId, s.ether, s.supply} \cup Range(s.held) \subseteq Nat
       /\ \A m \in DOMAIN s.messageStatus : m \in Message /\ s.messageStatus[m] \in Status
       /\ \A signal \in s.signals : signal[1] \in {"sent", "failed"} /\ signal[2] \in Message
       /\ s.synced \subseteq chain[Other(c)].signals
       /\ s.quota \in [QuotaTokens -> Quota]
       /\ s.paused \subseteq {"bridge", "erc20_vault", "quota_manager"}

\* Every bridged ERC-20 and every one in a pending message is locked in the
\* vault of its own chain: no order of processing, retrying, failing and
\* recalling mints or releases a transfer twice, or loses one.
Backed ==
  \A c \in Chains :
    chain[c].held["erc20"] = chain[Other(c)].supply + InFlight({<<c, "erc20">>})

\* MXC is never created: what L1's vault and Moonchain's bridge hold, but for
\* the fees the bridge earned and paid, changes with the pending messages only.
NativeConserved ==
  chain["L1"].held["mxc"] + chain["Moonchain"].ether - chain["Moonchain"].income
    = InitEther["Moonchain"] + InFlight(Chains \X {"mxc"})

\* Both chains together keep the promise of MessageFate: the statuses, the
\* signal of a failure and its proof never let one message be delivered and
\* returned, or either of them twice: the transactions that settle a message
\* are counted.
SendableMessages ==
  [src : Chains, id : 0 .. MaxMessages - 1, fee : Fees, gas : BOOLEAN, payload : Payloads]
Fate == INSTANCE MessageFate
          WITH Messages <- SendableMessages,
               sent <- AllMessages,
               delivered <- {m \in AllMessages : Settlements(chain[Other(m.src)], m) = 1},
               returned <- {m \in AllMessages : Settlements(chain[m.src], m) = 1}
FateSpec == Fate!Spec

---------------------------------------------------------------------------------
(* Liveness: both chains sync, somebody processes what can be processed,   *)
(* owners retry or give up, and recall what failed.                        *)
Process == \E c \in Chains, m \in AllMessages, byOwner \in BOOLEAN, price \in Prices :
             ProcessMessage(c, m, byOwner, price)
GiveUp == \E c \in Chains, m \in AllMessages : FailMessage(c, m) \/ RetryFails(c, m)
Recall == \E c \in Chains, m \in AllMessages : RecallMessage(c, m)

FairSpec ==
  /\ Spec
  /\ \A c \in Chains : WF_vars(Sync(c))
  /\ WF_vars(Process) /\ WF_vars(GiveUp) /\ WF_vars(Recall)

\* Every message without native MXC that is sent is in the end delivered or
\* returned: no order of failures and retries strands the tokens it locks.
\* (Messages are bounded, so there is a last one.)
EventuallySettled ==
  <>[](\A m \in Pending : m.payload.ctoken = <<"Moonchain", "mxc">>)

=================================================================================
