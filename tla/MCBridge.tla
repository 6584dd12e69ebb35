------------------------------- MODULE MCBridge -------------------------------
(* Instances of Bridge for TLC. *)
EXTENDS Bridge, TLC

Transfer(home, name, amount, toAllowed) ==
  [kind |-> "transfer", ctoken |-> <<home, name>>, amount |-> amount, toAllowed |-> toAllowed]
Plain(kind) == [kind |-> kind, ctoken |-> NoToken, amount |-> 0, toAllowed |-> TRUE]

\* An ERC-20 of each chain, one of them to an address the vault refuses.
BothERC20s == {Transfer("L1", "erc20", 1, TRUE), Transfer("Moonchain", "erc20", 1, FALSE)}
\* MXC of both chains.
MXC == {Transfer("L1", "mxc", 1, TRUE), Transfer("Moonchain", "mxc", 1, TRUE)}
NativeMXC == {Transfer("Moonchain", "mxc", 1, TRUE)}
Calls == {Plain("call"), Plain("prohibited")}
Everything == BothERC20s \cup MXC \cup Calls

L1Pausable == {"L1"} \X {"bridge", "erc20_vault", "quota_manager"}

\* Moonchain's bridge cannot pay every fee and release at the start.
Funded == [c \in Chains |-> IF c = "L1" THEN 2 ELSE 1]
NoQuotas == [token \in QuotaTokens |-> 0]
\* Quotas of one unit per period on L1, for its ERC-20 and for Ether: a fee
\* may use up what the release of the same message needs.
SmallQuotas ==
  [token \in QuotaTokens |-> IF token \in {Ether, <<"L1", "erc20">>} THEN 1 ELSE 0]

===============================================================================
