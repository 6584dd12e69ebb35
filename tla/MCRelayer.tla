------------------------------- MODULE MCRelayer -------------------------------
(* Instances of Relayer for TLC. *)
EXTENDS Relayer, TLC

CONSTANTS m1, t1

OneTx == [m \in Msgs |-> t1]
================================================================================
