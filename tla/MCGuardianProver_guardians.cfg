SPECIFICATION FairSpec
CONSTANTS
  Addresses <- Accounts
  GuardianSets <- Rotations
  Blocks = {1}
  Proofs <- AllProofs
  BlockOf <- OneBlock
  RightProof <- TheRight
  MaxDisruptions = 3
INVARIANTS TypeOK ProofBacked NoSilentConflict
 
CHECK_DEADLOCK FALSE
