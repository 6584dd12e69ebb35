------------------------------- MODULE L2Engine --------------------------------
(***************************************************************************)
(* The L2 execution engine a driver feeds, and what the client's rpc package *)
(* reads of it and of the L1 chain.                                        *)
(***************************************************************************)
EXTENDS L1Chain, FiniteSetsExt

CONSTANT Fork  \* OntakeForkHeight

ASSUME EngineAssumption == Fork \in Nat /\ \A s \in Setups : s.synced \in 0..Finalized

Synced == setup.synced  \* blocks the engine has in the beginning

VARIABLES
  canon,       \* the engine's canonical chain, as the hash of its head
  origin,      \* [BlockIds -> L2BlockHash of its L1Origin record, NoOrigin for none]
  headOrigin,  \* id of the HeadL1Origin record, 0 for none
  target       \* hash a beacon sync was started for, <<>> for none

engineVars == <<canon, origin, headOrigin, target>>

BlockIds == 1..MaxHeight
NoOrigin == <<>>

EngineTypeOK ==
  /\ canon \in Seq(L1Block) /\ target \in Seq(L1Block)
  /\ DOMAIN origin = BlockIds /\ \A id \in BlockIds : origin[id] \in Seq(L1Block)
  /\ headOrigin \in 0..MaxHeight

\* The L1 block in an L1Origin record is the one that proposed the L2 block.
L1OriginByID(id) == Last(origin[id])

HeaderByNumber(n) == SubSeq(canon, 1, n)

\* LatestL2KnownL1Header: an orphaned header may still be known by its hash.
LatestL2KnownL1Header ==
  IF headOrigin = 0 THEN {chain[GenesisHeight]}
  ELSE {L1OriginByID(headOrigin)}
         \cup IF Canonical(L1OriginByID(headOrigin)) THEN {} ELSE {chain[GenesisHeight]}

--------------------------------------------------------------------------------
(* Reorg checks.  A result says whether to reset, and to which L1 block and    *)
(* last handled id; "error" ends the caller, "nil" is a missing header.        *)

NoHeader == [h |-> 0]
NoId == -1
NotReorged == [is |-> "no", cur |-> NoHeader, last |-> NoId]
Failed == [is |-> "error", cur |-> NoHeader, last |-> NoId]
Reorged(cur, last) == [is |-> "yes", cur |-> cur, last |-> last]

\* The anchor transaction of the engine's block id names the L1 block before the
\* one of its L1Origin, and a state root that block has.
SyncedL1SnippetValid(id) ==
  LET b == canon[id]
  IN  b.h = L1OriginByID(id).h /\ (b.h = 1 \/ OnChainOf(chain[b.h - 1], b))

\* CheckL1Reorg walks down from an id to the first block that ends it: one before
\* the fork, one without L1Origin, one that is still proposed on the L1 chain.
EndsWalk_ByHeight(id) == \* mutation: the L1 hashes are not compared
  id <= Fork + 1 \/ origin[id] = NoOrigin \/ L1OriginByID(id).h <= Len(chain)
EndsWalk(id) ==
  \/ id <= Fork + 1
  \/ origin[id] = NoOrigin
  \/ Canonical(L1OriginByID(id)) /\ (id > Len(canon) \/ SyncedL1SnippetValid(id))

CheckL1Reorg(blockID) ==
  LET id == Max({k \in 0..blockID : EndsWalk(k)})
      reorged == id < blockID
  IN  IF id <= Fork + 1 THEN NotReorged
      ELSE IF origin[id] = NoOrigin THEN
        IF reorged THEN Reorged(NoHeader, NoId) ELSE NotReorged
      ELSE IF id > Len(canon) THEN Failed
      ELSE IF reorged THEN Reorged(chain[L1OriginByID(id).h], id)
      ELSE NotReorged

\* L2ParentByBlockID: the hashes a block of that id may be built on.
L2ParentByBlockID(id) ==
  IF id = 1 THEN {<<>>}
  ELSE IF origin[id - 1] # NoOrigin THEN {origin[id - 1]}
  ELSE IF id - 1 <= Len(canon) THEN {HeaderByNumber(id - 1)}
  ELSE {}

--------------------------------------------------------------------------------
(* The engine *)

EngineInit ==
  /\ canon = SubSeq(Proposed(chain), 1, Synced)
  /\ origin = [id \in BlockIds |->
                 IF id <= Synced THEN HeaderByNumber(id) ELSE NoOrigin]
  /\ headOrigin = Synced
  /\ target = <<>>

\* A forkchoiceUpdated with payload attributes builds a block on its parent, and
\* writes the L1Origin records before the block is the head.
BuildPayload(id, parent, b) ==
  /\ origin' = [origin EXCEPT ![id] = Append(parent, b)]
  /\ headOrigin' = id
  /\ UNCHANGED <<canon, target>>

SetHead(hash) ==
  /\ canon' = hash /\ target' = <<>>
  /\ UNCHANGED <<origin, headOrigin>>

StartBeaconSync(hash) ==
  /\ target' = hash
  /\ UNCHANGED <<canon, origin, headOrigin>>

\* The blocks come from peers, without L1Origin records.
BeaconSynced ==
  /\ target # <<>> /\ canon' = target /\ target' = <<>>
  /\ UNCHANGED <<origin, headOrigin>>
================================================================================
