SPECIFICATION FairSpec
CONSTANTS
  Finalized = 2
  VerifyDelay = 9
  MaxDepth = 1
  Setups <- FollowsOrSyncs
  Fork = 0
  GapToResync = 2
  MaxRetrieveExponent = 1
  MaxFaults = 1
INVARIANTS TypeOK  NumberIsId 
 
CHECK_DEADLOCK FALSE
