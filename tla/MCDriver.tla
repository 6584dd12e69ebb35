-------------------------------- MODULE MCDriver --------------------------------
(* Instances of Driver for TLC. *)
EXTENDS Driver, TLC

Setup(p2pSync, fullSync, synced, reorgs, height) ==
  [p2pSync |-> p2pSync, fullSync |-> fullSync, synced |-> synced,
   reorgs |-> reorgs, height |-> height]

\* An engine that has the verified blocks meets a reorg, an empty one syncs
\* through its peers first.
FollowsOrSyncs ==
  {Setup(FALSE, TRUE, Finalized, 1, 7),
   Setup(TRUE, TRUE, 0, 0, 6), Setup(TRUE, FALSE, 0, 0, 5)}
================================================================================
