----------------------------- MODULE QuotaManager -----------------------------
(***************************************************************************)
(* The QuotaManager contract: what the bridge and the token vault may      *)
(* release per period, for each token, refilled linearly since the last    *)
(* consumption.                                                            *)
(***************************************************************************)
EXTENDS Quotas, Totals, Sequences, FiniteSets

CONSTANTS
  Tokens,      \* tokens with a quota; Ether is one of them
  InitQuotas,  \* quotas the owner sets first, and again later
  Periods,     \* values of quotaPeriod
  Amounts,     \* amounts the bridge and the vault ask for
  MaxTime,     \* bound: the clock
  MaxConsumed  \* bound: consumptions recorded in the history

ASSUME QuotaAssumption ==
  /\ InitQuotas \subseteq Nat /\ Amounts \subseteq Nat
  /\ Periods \subseteq Nat \ {0}
  /\ MaxTime \in Nat /\ MaxConsumed \in Nat

VARIABLES
  tokenQuota,
  quotaPeriod,
  paused,      \* EssentialContract.__paused
  now,         \* block.timestamp
  consumed,    \* history: consumptions since the token's quota was set
  periodSetAt  \* history: when quotaPeriod was last set

quotaVars == <<tokenQuota, quotaPeriod, paused, now, consumed, periodSetAt>>

Consumption == [at : Nat, amount : Nat]

QuotaInit ==
  /\ tokenQuota \in [Tokens -> {UpdatedQuota(quota) : quota \in InitQuotas}]
  /\ quotaPeriod \in Periods
  /\ paused = FALSE
  /\ now = 1
  /\ consumed = [token \in Tokens |-> <<>>]
  /\ periodSetAt = now

UpdateQuota(token, quota) ==
  /\ ~paused
  /\ tokenQuota' = [tokenQuota EXCEPT ![token] = UpdatedQuota(quota)]
  /\ consumed' = [consumed EXCEPT ![token] = <<>>]
  /\ UNCHANGED <<quotaPeriod, paused, now, periodSetAt>>

\* The refill since updatedAt is recomputed with the new period.
SetQuotaPeriod(period) ==
  /\ ~paused
  /\ quotaPeriod' = period
  /\ periodSetAt' = now
  /\ UNCHANGED <<tokenQuota, paused, now, consumed>>

ConsumeQuota(token, amount) ==
  /\ ~paused
  /\ CanConsume(tokenQuota[token], quotaPeriod, now, amount)
  /\ Len(consumed[token]) < MaxConsumed
  /\ tokenQuota' = [tokenQuota EXCEPT ![token] = Consumed(@, quotaPeriod, now, amount)]
  /\ consumed' = [consumed EXCEPT ![token] = Append(@, [at |-> now, amount |-> amount])]
  /\ UNCHANGED <<quotaPeriod, paused, now, periodSetAt>>

SetPaused ==
  /\ paused' = ~paused
  /\ UNCHANGED <<tokenQuota, quotaPeriod, now, consumed, periodSetAt>>

Tick ==
  /\ now < MaxTime
  /\ now' = now + 1
  /\ UNCHANGED <<tokenQuota, quotaPeriod, paused, consumed, periodSetAt>>

QuotaNext ==
  \/ \E token \in Tokens, quota \in InitQuotas : UpdateQuota(token, quota)
  \/ \E period \in Periods : SetQuotaPeriod(period)
  \/ \E token \in Tokens, amount \in Amounts : ConsumeQuota(token, amount)
  \/ SetPaused
  \/ Tick

QuotaSpec == QuotaInit /\ [][QuotaNext]_quotaVars

-------------------------------------------------------------------------------
(* Properties *)

\* The records keep their type, and no token has more available than its
\* quota: the subtraction of consumeQuota never wraps and the cap holds.
TypeOK ==
  /\ tokenQuota \in [Tokens -> Quota]
  /\ \A token \in Tokens : tokenQuota[token].available <= tokenQuota[token].quota
  /\ \A token \in Tokens : tokenQuota[token].updatedAt <= now
  /\ quotaPeriod \in Periods
  /\ paused \in BOOLEAN
  /\ consumed \in [Tokens -> Seq(Consumption)]

\* The consumptions of a history since a time, and what they consumed.
Recent(history, from) == {i \in DOMAIN history : history[i].at >= from}
AmountSince(history, from) ==
  Total([i \in DOMAIN history |-> history[i].amount], Recent(history, from))

\* In no window of time is more released than the quota plus the linear
\* refill of the window: at most twice the quota in one period, however the
\* consumptions are timed, once the period is set (availableQuota, consumeQuota).
WindowBound ==
  \A token \in Tokens :
    LET q == tokenQuota[token]
    IN  \A i \in DOMAIN consumed[token] :
          LET from == consumed[token][i].at
          IN  \/ Unlimited(q)
              \/ from < periodSetAt
              \/ AmountSince(consumed[token], from) <= q.quota + (q.quota * (now - from)) \div quotaPeriod

\* "The time required to restore all quota" (init): what was consumed longer
\* than a whole period ago is available again, but for one unit of rounding for each
\* consumption since.  A consumption of 0 is one: it forgets the refill of a
\* fraction of a unit.
RestoredAfterPeriod ==
  \A token \in Tokens :
    LET q == tokenQuota[token]
        from == IF now >= quotaPeriod THEN now - quotaPeriod ELSE 0
        history == consumed[token]
    IN  \/ Unlimited(q)
        \/ now < periodSetAt + quotaPeriod
        \/ AvailableQuota(q, quotaPeriod, now) + AmountSince(history, from + 1)
             + Cardinality(Recent(history, from + 1)) >= q.quota

===============================================================================
