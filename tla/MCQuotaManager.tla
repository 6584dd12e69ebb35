---------------------------- MODULE MCQuotaManager ----------------------------
(* An instance of QuotaManager for TLC: one token. *)
EXTENDS QuotaManager

CONSTANT ether

===============================================================================
