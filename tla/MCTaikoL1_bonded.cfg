SPECIFICATION Spec
CONSTANTS
  u1 = u1
  u2 = u2
  Users = {u1, u2}
  Guardian = guardian
  NoAddr = none
  BlockMaxProposals = 2
  BlockRingBufferSize = 3
  MaxBlocksToVerify = 2
  LivenessBond = 2
  StateRootSyncInternal = 2
  MaxAnchorHeightOffset = 1
  AnchorWindow = 0
  OntakeForkHeight = 2
  MigratedId = 0
  Tiers = {1, 2, 3}
  TierConfig <- BondedTiers
  MinTiers = {1}
  Variants = {1, 2}
  StateRoots = {1}
  InitialTokens = 24
  BondAmounts = {16}
  Watchdog = FALSE
  MaxBlockId = 2
  MaxTransitions = 1
  MaxTime = 3
SYMMETRY UserSymmetry
INVARIANTS
  TypeOK
  Solvent
  ContestSettled
CHECK_DEADLOCK FALSE
