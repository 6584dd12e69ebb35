SPECIFICATION Spec
CONSTANTS
  L1 = L1
  A = A
  B = B
  Chains = {L1, A, B}
  SyncedTo <- Star
  Apps = {a1}
  Signals = {s1}
  Options = {"NOTHING", "BOTH"}
  Senders = {A}
  MaxBlocks <- TwoBlocks
  MaxHops = 2
INVARIANTS ProvenWasSent ChainDataTrue TopIsStored
