---------------------------- MODULE MCGuardianProver ---------------------------
(* Instances of GuardianProver for TLC. *)
EXTENDS GuardianProver, TLC

\* Three guardians and one more account.  Two sets share members at other ids.
Accounts == {"ann", "bob", "carl", "dora"}
Rotations == {<<"ann", "bob", "carl">>, <<"dora", "ann">>}

\* One block with three proofs.
AllProofs == {"right", "other", "third"}
OneBlock(proof) == 1
TheRight(block) == "right"
================================================================================
