SPECIFICATION FairSpec
CONSTANTS
  u1 = u1
  u2 = u2
  Users = {u1}
  Guardian = guardian
  NoAddr = none
  BlockMaxProposals = 2
  BlockRingBufferSize = 3
  MaxBlocksToVerify = 6
  LivenessBond = 0
  StateRootSyncInternal = 2
  MaxAnchorHeightOffset = 1
  AnchorWindow = 0
  OntakeForkHeight = 1
  MigratedId = 1
  Tiers = {1}
  TierConfig <- OneTier
  MinTiers = {1}
  Variants = {1}
  StateRoots = {1}
  InitialTokens = 0
  BondAmounts = {}
  Watchdog = FALSE
  MaxBlockId = 8
  MaxTransitions = 2
  MaxTime = 0
PROPERTIES
  EveryBlockVerified
CHECK_DEADLOCK FALSE
