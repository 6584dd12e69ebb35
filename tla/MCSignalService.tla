----------------------------- MODULE MCSignalService -----------------------------
(* Instances of SignalService for TLC. *)
EXTENDS SignalService, TLC

CONSTANTS L1, A, B

\* L1 with two L2s: every root goes through L1.
Star == {<<L1, A>>, <<L1, B>>, <<A, L1>>, <<B, L1>>}


\* Blocks of the source of the signals and of the chain in the middle.
TwoBlocks == [c \in Chains |-> IF c = B THEN 0 ELSE 2]

==================================================================================
