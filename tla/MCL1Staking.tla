------------------------------- MODULE MCL1Staking -----------------------------
(* Instances of L1Staking for TLC. *)
EXTENDS L1Staking, TLC

CONSTANTS u1, u2

UserSymmetry == Permutations(Users)
================================================================================
