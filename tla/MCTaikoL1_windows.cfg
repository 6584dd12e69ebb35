SPECIFICATION Spec
CONSTANTS
  u1 = u1
  u2 = u2
  Users = {u1}
  Guardian = guardian
  NoAddr = none
  BlockMaxProposals = 2
  BlockRingBufferSize = 3
  MaxBlocksToVerify = 2
  LivenessBond = 4
  StateRootSyncInternal = 2
  MaxAnchorHeightOffset = 2
  AnchorWindow = 2
  OntakeForkHeight = 0
  MigratedId = 0
  Tiers = {1, 2}
  TierConfig <- FreeTiers
  MinTiers = {1}
  Variants = {1}
  StateRoots = {1}
  InitialTokens = 8
  BondAmounts = {}
  Watchdog = TRUE
  MaxBlockId = 2
  MaxTransitions = 1
  MaxTime = 3
INVARIANTS
  DefaultProposalAdmissible
PROPERTIES
  CooldownObserved
CHECK_DEADLOCK FALSE
