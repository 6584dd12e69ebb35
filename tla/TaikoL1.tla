------------------------------ MODULE TaikoL1 ------------------------------
(***************************************************************************)
(* The TaikoL1 contract: proposing, proving, contesting and verifying L2   *)
(* blocks over a ring buffer, with their bonds, pauses and the Moonchain   *)
(* migration.  A transaction is one action: the record `state` is the      *)
(* storage every handler works on, and an operator that takes a storage    *)
(* `s` and returns a storage is one library call inside a transaction.     *)
(* A revert is a transaction that is not enabled.                          *)
(***************************************************************************)
EXTENDS Totals, FiniteSets

CONSTANTS
  Users,                 \* accounts that propose, prove and contest
  Guardian,              \* the GuardianProver contract, as a prover
  NoAddr,                \* address(0)
  BlockMaxProposals, BlockRingBufferSize, MaxBlocksToVerify, LivenessBond,
  StateRootSyncInternal, \* TaikoData.Config, as named there
  MaxAnchorHeightOffset, \* in L1 blocks
  AnchorWindow,          \* maxAnchorHeightOffset * 12 seconds, in time units
  OntakeForkHeight,
  MigratedId,            \* the last L2 block before initMigrate; 0 after init
  Tiers, TierConfig,     \* ITierProvider: tier ids (ordered), their parameters
  MinTiers,              \* what getMinTier may return
  Variants,              \* competing hashes a prover may claim for one block
  StateRoots,            \* non-zero state roots a prover may claim
  InitialTokens,         \* bond tokens in each user's wallet at the start
  BondAmounts,           \* amounts deposited and withdrawn
  Watchdog,              \* bound: whether the owner or the watchdog ever pauses
  MaxBlockId,            \* bound: highest block id proposed
  MaxTransitions,        \* bound: transitions per block (uint24 in the code)
  MaxTime                \* bound: the clock

TierRecord == [validityBond : Nat, contestBond : Nat, cooldownWindow : Nat,
               provingWindow : Nat, guardian : BOOLEAN]

ASSUME AddressAssumption ==
  IsFiniteSet(Users) /\ Guardian \notin Users /\ NoAddr \notin Users \cup {Guardian}

ASSUME ConfigAssumption ==
  /\ BlockMaxProposals \in Nat \ {0}
  /\ BlockRingBufferSize \in Nat \ {0}
  /\ BlockMaxProposals < BlockRingBufferSize
  /\ {MaxBlocksToVerify, LivenessBond, StateRootSyncInternal, MaxAnchorHeightOffset,
      AnchorWindow, OntakeForkHeight, MigratedId, MaxBlockId, MaxTime} \subseteq Nat
  /\ MaxTransitions \in Nat \ {0}

\* The slot of the block after the migrated one is not slot 0 (715_127 and
\* 755_880 in a ring of 3_600_000), and the fork is not the block before it.
ASSUME MigrationAssumption ==
  /\ (MigratedId + 1) % BlockRingBufferSize # 0
  /\ OntakeForkHeight + 1 # MigratedId

ASSUME DomainAssumption ==
  /\ Tiers \subseteq Nat \ {0}
  /\ TierConfig \in [Tiers -> TierRecord]
  /\ MinTiers \subseteq Tiers
  /\ Variants \subseteq Nat
  /\ StateRoots \subseteq Nat \ {0}
  /\ BondAmounts \subseteq Nat
  /\ Watchdog \in BOOLEAN
  /\ InitialTokens \in Nat

VARIABLES
  state,     \* TaikoData.State, with the token, signals and history beside it
  paused,    \* EssentialContract.__paused
  now,       \* block.timestamp
  openSince  \* history: when proving last became possible again

vars == <<state, paused, now, openSince>>

Accounts == Users \cup {Guardian}
Slots == 0 .. BlockRingBufferSize - 1
Tids == 1 .. MaxTransitions

---------------------------------------------------------------------------
(* Hashes: a kind, the block they belong to, a variant. *)
ZeroHash == <<0, 0, 0>>          \* bytes32(0)
OneHash == <<0, 0, 1>>           \* bytes32(uint256(1))
MetaHash(id) == <<1, id, 0>>     \* keccak256 of a block's metadata
BlockHash(id, v) == <<2, id, v>> \* the hash of an L2 block
Hash == (0 .. 2) \X Nat \X Nat

Slot(id) == id % BlockRingBufferSize
BlockNumber == MigratedId + 1 + now     \* L1 height: one block per time unit
PostFork(id) == id >= OntakeForkHeight

\* Metadata a prover presents again; what metaHash commits to.
NoMeta == [proposer |-> NoAddr, minTier |-> 0, livenessBond |-> 0, proposedAt |-> 0]
EmptyBlock ==
  [metaHash |-> ZeroHash, blockId |-> 0, livenessBond |-> 0, proposedAt |-> 0,
   proposedIn |-> 0, nextTransitionId |-> 0, livenessBondReturned |-> FALSE,
   verifiedTransitionId |-> 0, meta |-> NoMeta]
\* `parentHash` is history: the parent a transition was created for.
EmptyTransition ==
  [key |-> ZeroHash, blockHash |-> ZeroHash, stateRoot |-> 0, prover |-> NoAddr,
   validityBond |-> 0, contester |-> NoAddr, contestBond |-> 0, timestamp |-> 0,
   tier |-> 0, parentHash |-> ZeroHash]

Later(a, b) == IF a >= b THEN a ELSE b
IsPostDeadline(s, timestamp, window) == now >= Later(timestamp, s.lastUnpausedAt) + window

ShouldVerifyBlocks(id, isProposed) ==
  LET segment == MaxBlocksToVerify \div 2
  IN  /\ MaxBlocksToVerify # 0
      /\ \/ segment <= 1
         \/ id % segment = IF isProposed THEN 0 ELSE segment \div 2

ShouldSyncStateRoot(id) ==
  \/ StateRootSyncInternal <= 1
  \/ id % StateRootSyncInternal = StateRootSyncInternal - 1

---------------------------------------------------------------------------
(* LibBonds.  `tkoOf` and `tkoHeld` are the ERC-20 balances of the users   *)
(* and of the contract.                                                    *)
CanDebit(s, u, amount) == s.bondBalance[u] >= amount \/ s.tkoOf[u] >= amount
DebitBond_Unchecked(s, u, amount) == \* mutation: no look at the balance
  [s EXCEPT !.bondBalance[u] = @ - amount]
DebitBond(s, u, amount) ==
  IF s.bondBalance[u] >= amount
  THEN [s EXCEPT !.bondBalance[u] = @ - amount]
  ELSE [s EXCEPT !.tkoOf[u] = @ - amount, !.tkoHeld = @ + amount]
CreditBond(s, u, amount) ==
  IF amount = 0 THEN s ELSE [s EXCEPT !.bondBalance[u] = @ + amount]

---------------------------------------------------------------------------
(* LibUtils.getTransitionId *)
GetTransitionId(s, slot, parentHash) ==
  LET indexed == <<s.blocks[slot].blockId, parentHash>>
  IN  IF s.transitions[slot][1].key = parentHash
      THEN IF parentHash \in {ZeroHash, OneHash} THEN 0 ELSE 1
      ELSE IF indexed \in DOMAIN s.transitionIds THEN s.transitionIds[indexed] ELSE 0

\* getTransitionId reverts with L1_UNEXPECTED_TRANSITION_ID.
UnexpectedTransitionId(s, slot, parentHash) ==
  LET tid == GetTransitionId(s, slot, parentHash)
  IN  tid # 0 /\ tid >= s.blocks[slot].nextTransitionId

---------------------------------------------------------------------------
(* LibVerifying.verifyBlocks.  A run verifies the blocks from the one      *)
(* after the last verified up to `last`, the block `id` by its transition  *)
(* tids[id]; every iteration of the loop is a conjunct on one `id`.        *)

\* The block before it carries metaHash 1: verified without a proof.
FollowsMigrated(s, id) ==
  Slot(id) # 0 /\ s.blocks[Slot(id) - 1].metaHash = OneHash

VerifiedHash(s) ==
  LET slot == Slot(s.lastVerifiedBlockId)
  IN  s.transitions[slot][s.blocks[slot].verifiedTransitionId].blockHash

\* mutation: no migration of the block hash
TrustedHash_NotMigrated(s, tids, id) ==
  IF id - 1 > s.lastVerifiedBlockId
  THEN s.transitions[Slot(id - 1)][tids[id - 1]].blockHash ELSE VerifiedHash(s)
\* local.blockHash when the loop reaches `id`.
TrustedHash(s, tids, id) ==
  LET proven == {i \in s.lastVerifiedBlockId + 1 .. id - 1 : ~FollowsMigrated(s, i)}
      last == CHOOSE i \in proven : \A j \in proven : j <= i
  IN  IF id = OntakeForkHeight + 2 THEN s.transitions[Slot(id)][1].key
      ELSE IF proven = {} THEN VerifiedHash(s)
      ELSE s.transitions[Slot(last)][tids[last]].blockHash

TidToVerify_First(s, tids, id) == \* mutation: the first proof, whatever its parent
  IF s.blocks[Slot(id)].nextTransitionId > 1 THEN 1 ELSE 0
TidToVerify(s, tids, id) ==
  LET next == s.blocks[Slot(id)].nextTransitionId
  IN  IF FollowsMigrated(s, id) THEN (IF next > 1 THEN next - 1 ELSE 1)
      ELSE GetTransitionId(s, Slot(id), TrustedHash(s, tids, id))

CanVerify_IgnoresContest(s, tids, id) == \* mutation: no look at the contester
  \/ FollowsMigrated(s, id)
  \/ LET tid == TidToVerify(s, tids, id)
         ts == s.transitions[Slot(id)][tid]
     IN  /\ tid # 0
         /\ IsPostDeadline(s, ts.timestamp, TierConfig[ts.tier].cooldownWindow)
CanVerify(s, tids, id) ==
  \/ FollowsMigrated(s, id)
  \/ LET tid == TidToVerify(s, tids, id)
         ts == s.transitions[Slot(id)][tid]
     IN  /\ tid # 0
         /\ ts.contester = NoAddr
         /\ IsPostDeadline(s, ts.timestamp, TierConfig[ts.tier].cooldownWindow)

\* The iteration for `id` reverts: L1_BLOCK_MISMATCH or an unexpected tid.
IterationReverts(s, tids, id) ==
  \/ s.blocks[Slot(id)].blockId # id
  \/ UnexpectedTransitionId(s, Slot(id), TrustedHash(s, tids, id))

VerifyReverts(s) ==
  LET blk == s.blocks[Slot(s.lastVerifiedBlockId)]
  IN  blk.blockId # s.lastVerifiedBlockId \/ blk.verifiedTransitionId = 0

LoopContinues(s, max, id) ==
  id < s.numBlocks /\ id - s.lastVerifiedBlockId <= max

IsRun(s, max, last, tids) ==
  /\ \A id \in s.lastVerifiedBlockId + 1 .. last :
       /\ LoopContinues(s, max, id)
       /\ ~IterationReverts(s, tids, id)
       /\ CanVerify(s, tids, id)
       /\ tids[id] = TidToVerify(s, tids, id)
  /\ LoopContinues(s, max, last + 1) =>
       ~IterationReverts(s, tids, last + 1) /\ ~CanVerify(s, tids, last + 1)

\* The last block of the run whose state root is to be synced; 0 if none.
SyncPoints(s, last, tids) ==
  LET candidates == {id \in s.lastVerifiedBlockId + 1 .. last :
                       /\ ~FollowsMigrated(s, id)
                       /\ ShouldSyncStateRoot(id)
                       /\ s.transitions[Slot(id)][tids[id]].stateRoot # 0}
  IN  IF candidates = {} THEN {0}
      ELSE {id \in candidates : \A other \in candidates : other <= id}

SyncedRoot_FirstTransition(s, tids, id) == \* mutation: always the first transition
  s.transitions[Slot(id)][1].stateRoot
SyncedRoot(s, tids, id) == s.transitions[Slot(id)][tids[id]].stateRoot

\* The blocks whose verifiedTransitionId a run writes: those verified without
\* a proof, the last one and the synced one.
Proofless(s, last) == {id \in s.lastVerifiedBlockId + 1 .. last : FollowsMigrated(s, id)}
Marked_NotLast(s, last, sync) == \* mutation: the last block is forgotten
  Proofless(s, last) \cup ({sync} \cap (s.lastVerifiedBlockId + 1 .. last))
Marked(s, last, sync) ==
  Proofless(s, last) \cup ({last, sync} \cap (s.lastVerifiedBlockId + 1 .. last))

\* The validity bonds that a run returns to the prover `u`.
ReturnedBonds(s, last, tids, u) ==
  LET fresh == s.lastVerifiedBlockId + 1 .. last
  IN  Total([id \in fresh |-> s.transitions[Slot(id)][tids[id]].validityBond],
            {id \in fresh : ~FollowsMigrated(s, id)
                              /\ s.transitions[Slot(id)][tids[id]].prover = u})

\* What the run appends to the history of verified blocks.
VerifiedRecord(s, id, tid) ==
  LET ts == s.transitions[Slot(id)][tid]
      proofless == FollowsMigrated(s, id)
  IN  [tid |-> tid, proofless |-> proofless, parentHash |-> ts.parentHash,
       tier |-> ts.tier, stateRoot |-> ts.stateRoot,
       blockHash |-> IF proofless THEN s.blocks[Slot(id)].metaHash ELSE ts.blockHash]

Verified(s, last, tids, sync) ==
  LET fresh == s.lastVerifiedBlockId + 1 .. last
  IN  [s EXCEPT
        !.lastVerifiedBlockId = last,
        !.lastSyncedBlockId = IF sync = 0 THEN @ ELSE sync,
        !.blocks = [slot \in Slots |->
          IF \E id \in Marked(s, last, sync) : Slot(id) = slot
          THEN [s.blocks[slot] EXCEPT !.verifiedTransitionId = tids[s.blocks[slot].blockId]]
          ELSE s.blocks[slot]],
        !.transitions = [slot \in Slots |->
          IF \E id \in Proofless(s, last) : Slot(id) = slot
          THEN [s.transitions[slot] EXCEPT
                 ![tids[s.blocks[slot].blockId]].blockHash = s.blocks[slot].metaHash]
          ELSE s.transitions[slot]],
        !.bondBalance = [u \in Accounts |-> s.bondBalance[u] + ReturnedBonds(s, last, tids, u)],
        !.syncedRoots = IF sync = 0 THEN @
          ELSE [id \in DOMAIN s.syncedRoots \cup {sync} |->
                 IF id = sync THEN SyncedRoot(s, tids, sync)
                 ELSE s.syncedRoots[id]],
        !.chain = [id \in MigratedId .. last |->
          IF id \in fresh THEN VerifiedRecord(s, id, tids[id]) ELSE s.chain[id]]]

\* The storages verifyBlocks(max) can end in: one, or none when it reverts.
VerifyOutcomes(s, max) ==
  IF max = 0 THEN {s}
  ELSE IF VerifyReverts(s) THEN {}
  ELSE UNION { UNION { {Verified(s, last, tids, sync) : sync \in SyncPoints(s, last, tids)} :
                       tids \in {t \in [s.lastVerifiedBlockId + 1 .. last -> Tids] :
                                   IsRun(s, max, last, t)} } :
               last \in s.lastVerifiedBlockId .. s.numBlocks - 1 }

\* The end of proposeBlock and _proveBlock.
AfterVerification(s, id, isProposed) ==
  IF ~s.provingPaused /\ ShouldVerifyBlocks(id, isProposed)
  THEN VerifyOutcomes(s, MaxBlocksToVerify)
  ELSE {s}

---------------------------------------------------------------------------
(* LibProposing._proposeBlock *)
ParentBlock(s) == s.blocks[Slot(s.numBlocks - 1)]

HasRoom_OffByOne(s) == \* mutation: one block too many
  s.numBlocks <= s.lastVerifiedBlockId + BlockMaxProposals + 1
HasRoom(s) == s.numBlocks < s.lastVerifiedBlockId + BlockMaxProposals + 1

ValidAnchor(s, anchorBlockId) ==
  /\ anchorBlockId + MaxAnchorHeightOffset >= BlockNumber
  /\ anchorBlockId < BlockNumber
  /\ anchorBlockId >= ParentBlock(s).proposedIn
ValidTimestamp_Future(s, timestamp) == \* mutation: no upper bound
  /\ timestamp + AnchorWindow >= now
  /\ timestamp >= ParentBlock(s).proposedAt
ValidTimestamp(s, timestamp) ==
  /\ timestamp + AnchorWindow >= now
  /\ timestamp <= now
  /\ timestamp >= ParentBlock(s).proposedAt

CanPropose(s, u, anchorBlockId, timestamp) ==
  /\ s.numBlocks <= MaxBlockId
  /\ HasRoom(s)
  /\ PostFork(s.numBlocks) => ValidAnchor(s, anchorBlockId) /\ ValidTimestamp(s, timestamp)
  /\ CanDebit(s, u, LivenessBond)

NewBlock(s, u, anchorBlockId, timestamp, minTier) ==
  LET id == s.numBlocks
      postFork == PostFork(id)
  IN  [EmptyBlock EXCEPT
        !.metaHash = MetaHash(id), !.blockId = id, !.nextTransitionId = 1,
        !.livenessBond = IF postFork THEN 0 ELSE LivenessBond,
        !.proposedAt = IF postFork THEN timestamp ELSE now,
        !.proposedIn = IF postFork THEN anchorBlockId ELSE BlockNumber,
        !.meta = [proposer |-> u, minTier |-> minTier, proposedAt |-> now,
                  livenessBond |-> IF postFork THEN LivenessBond ELSE 0]]

Appended_StaleMetaHash(s, blk) == \* mutation: a reused slot keeps its metaHash
  LET slot == Slot(blk.blockId)
  IN  [s EXCEPT !.blocks[slot] =
                  [blk EXCEPT !.metaHash = IF s.blocks[slot].metaHash = ZeroHash
                                           THEN @ ELSE s.blocks[slot].metaHash],
                !.numBlocks = @ + 1]
Appended(s, blk) == [s EXCEPT !.blocks[Slot(blk.blockId)] = blk, !.numBlocks = @ + 1]

\* The storage after _proposeBlock; none when it reverts.
Proposed(s, u, anchorBlockId, timestamp, minTier) ==
  IF CanPropose(s, u, anchorBlockId, timestamp)
  THEN {DebitBond(Appended(s, NewBlock(s, u, anchorBlockId, timestamp, minTier)),
                  u, LivenessBond)}
  ELSE {}

\* The anchors and timestamps a proposer may ask for.
Anchors == BlockNumber - MaxAnchorHeightOffset - 1 .. BlockNumber
Timestamps == now - AnchorWindow - 1 .. now + 1

\* TaikoL1.proposeBlock: blocks before the fork; there is no choice of anchor.
ProposeBlock(u, minTier) ==
  /\ ~paused
  /\ ~PostFork(state.numBlocks)
  /\ \E s \in Proposed(state, u, BlockNumber - 1, now, minTier) :
       state' \in AfterVerification(s, state.numBlocks, FALSE)
  /\ UNCHANGED <<paused, now, openSince>>

\* TaikoL1.proposeBlockV2
ProposeBlockV2(u, minTier) ==
  /\ ~paused
  /\ PostFork(state.numBlocks)
  /\ \E anchorBlockId \in Anchors, timestamp \in Timestamps :
       \E s \in Proposed(state, u, anchorBlockId, timestamp, minTier) :
         state' \in AfterVerification(s, state.numBlocks, FALSE)
  /\ UNCHANGED <<paused, now, openSince>>

\* TaikoL1.proposeBlocksV2 with two default blocks: both are proposed before
\* either attempt to verify.
ProposeBlocksV2(u, minTier) ==
  LET id == state.numBlocks
  IN  /\ ~paused
      /\ PostFork(id)
      /\ \E first \in Proposed(state, u, BlockNumber - 1, now, minTier) :
           \E second \in Proposed(first, u, BlockNumber - 1, now, minTier) :
             \E s \in AfterVerification(second, id, FALSE) :
               state' \in AfterVerification(s, id + 1, FALSE)
      /\ UNCHANGED <<paused, now, openSince>>

---------------------------------------------------------------------------
(* LibProving._proveBlock *)

\* The tier-0 transition that _fetchOrCreateTransition starts from.
NewTransition(s, id, tid, parentHash) ==
  LET blk == s.blocks[Slot(id)]
  IN  [EmptyTransition EXCEPT
        !.timestamp = IF PostFork(id) THEN blk.meta.proposedAt ELSE blk.proposedAt,
        !.key = IF tid = 1 THEN parentHash ELSE ZeroHash,
        !.prover = IF tid = 1 THEN blk.meta.proposer ELSE NoAddr,
        !.parentHash = parentHash]

WithNewTransition(s, id, tid, parentHash) ==
  [s EXCEPT
    !.blocks[Slot(id)].nextTransitionId = @ + 1,
    !.transitionIds = IF tid = 1 THEN @
      ELSE [k \in DOMAIN @ \cup {<<id, parentHash>>} |->
             IF k = <<id, parentHash>> THEN tid ELSE s.transitionIds[k]]]

\* 12.5% friction
RewardAfterFriction(amount) == (amount * 7) \div 8

LivenessBondHandled_Twice(s, p) == \* mutation: not marked as handled
  [s EXCEPT !.blocks[p.slot].livenessBond = 0]
LivenessBondHandled(s, p) ==
  [s EXCEPT !.blocks[p.slot].livenessBond = 0, !.blocks[p.slot].livenessBondReturned = TRUE]

ReturnsLivenessBond(p) ==
  \/ p.inProvingWindow /\ p.tid = 1
  \/ p.isTopTier /\ p.returnLivenessBond

\* A contest is resolved for the prover or for the contester.
ContestResolved(s, p) ==
  LET quarter == RewardAfterFriction(p.ts.validityBond) \div 4
  IN  IF p.sameTransition
      THEN [reward |-> RewardAfterFriction(p.ts.contestBond),
            s |-> CreditBond(s, p.ts.prover, p.ts.validityBond)]
      ELSE [reward |-> quarter,
            s |-> CreditBond(s, p.ts.contester, p.ts.contestBond + quarter * 3)]

ProvedUncontested(s, p) ==
  LET handled == IF p.livenessBond = 0 THEN s ELSE LivenessBondHandled(s, p)
      friction == RewardAfterFriction(p.ts.validityBond)
  IN  IF ~ReturnsLivenessBond(p) THEN [reward |-> friction, s |-> handled]
      ELSE IF p.assignedProver = p.sender
      THEN [reward |-> friction + p.livenessBond, s |-> handled]
      ELSE [reward |-> friction, s |-> CreditBond(handled, p.assignedProver, p.livenessBond)]

\* The bond moves of _overrideWithHigherProof before the sender's own.  p are
\* the locals of _proveBlock; `reward` is what the new prover earns.
Overridden(s, p) ==
  IF p.ts.contester # NoAddr THEN ContestResolved(s, p) ELSE ProvedUncontested(s, p)

OverrideWithHigherProof(s, p) ==
  LET moved == Overridden(s, p)
      bond == p.tier.validityBond
      settled == IF moved.reward > bond
                 THEN CreditBond(moved.s, p.sender, moved.reward - bond)
                 ELSE DebitBond(moved.s, p.sender, bond - moved.reward)
  IN  [settled EXCEPT !.transitions[p.slot][p.tid] =
        [p.ts EXCEPT !.validityBond = bond, !.contester = NoAddr, !.prover = p.sender,
                     !.tier = p.tierId, !.timestamp = now,
                     !.blockHash = p.blockHash, !.stateRoot = p.stateRoot]]

CanOverride(s, p) ==
  LET moved == Overridden(s, p)
  IN  /\ p.tierId > p.ts.tier
      /\ p.ts.contester = NoAddr => ~p.sameTransition
      /\ \/ moved.reward >= p.tier.validityBond
         \/ CanDebit(moved.s, p.sender, p.tier.validityBond - moved.reward)

\* The top tier proves again on its own tier.
CanReprove(p) ==
  /\ p.tierId = p.ts.tier
  /\ ~p.sameTransition
  /\ p.isTopTier
  /\ p.tier.validityBond = 0 /\ p.ts.validityBond = 0 /\ p.ts.contester = NoAddr

Reproved(s, p) ==
  [s EXCEPT !.transitions[p.slot][p.tid] =
    [p.ts EXCEPT !.prover = p.sender, !.timestamp = now,
                 !.blockHash = p.blockHash, !.stateRoot = p.stateRoot]]

\* A proof on the transition's own tier, below the top one, contests it.
CanContest(s, p) ==
  /\ p.tierId = p.ts.tier
  /\ ~p.sameTransition
  /\ ~p.isTopTier
  /\ p.ts.contester = NoAddr
  /\ ~IsPostDeadline(s, p.ts.timestamp, p.tier.cooldownWindow)
  /\ CanDebit(s, p.sender, p.tier.contestBond)

Contested(s, p) ==
  [DebitBond(s, p.sender, p.tier.contestBond) EXCEPT
    !.transitions[p.slot][p.tid] =
      [p.ts EXCEPT !.contestBond = p.tier.contestBond, !.contester = p.sender,
                   !.timestamp = now],
    !.contests = @ \cup {<<p.id, p.tid, p.tierId>>}]

\* The locals of _proveBlock once _fetchOrCreateTransition has returned, with
\* the storage it leaves; none when getTransitionId or getTier reverts.
ProofLocals(s, u, id, parentHash, blockHash, stateRoot, tierId, returnLivenessBond) ==
  LET slot == Slot(id)
      blk == s.blocks[slot]
      found == GetTransitionId(s, slot, parentHash)
      tid == IF found = 0 THEN blk.nextTransitionId ELSE found
      ts == IF found = 0 THEN NewTransition(s, id, tid, parentHash)
            ELSE s.transitions[slot][tid]
  IN  IF \/ UnexpectedTransitionId(s, slot, parentHash) \/ tid > MaxTransitions
         \/ blk.meta.minTier \notin Tiers
      THEN {}
      ELSE {[id |-> id, slot |-> slot, tid |-> tid, ts |-> ts, sender |-> u,
             fetched |-> IF found = 0 THEN WithNewTransition(s, id, tid, parentHash) ELSE s,
             tierId |-> tierId, tier |-> TierConfig[tierId], minTier |-> blk.meta.minTier,
             isTopTier |-> TierConfig[tierId].contestBond = 0,
             blockHash |-> blockHash, stateRoot |-> stateRoot,
             sameTransition |-> blockHash = ts.blockHash /\ stateRoot = ts.stateRoot,
             assignedProver |-> blk.meta.proposer,
             livenessBond |-> IF blk.livenessBondReturned THEN 0
                              ELSE IF blk.meta.livenessBond = 0 THEN blk.livenessBond
                              ELSE blk.meta.livenessBond,
             inProvingWindow |-> ~IsPostDeadline(s, ts.timestamp,
                                                 TierConfig[blk.meta.minTier].provingWindow),
             returnLivenessBond |-> returnLivenessBond]}

\* The checks between the fetch of the transition and the bond moves.
MayProve(p) ==
  /\ p.tierId >= p.minTier /\ p.tierId >= p.ts.tier
  /\ (~p.isTopTier /\ p.ts.contester = NoAddr /\ p.tid = 1 /\ p.ts.tier = 0
        /\ p.inProvingWindow) => p.sender = p.assignedProver

\* The storage after the tier comparison: overridden, proved again or contested.
Settled(s, p) ==
  (IF CanOverride(s, p) THEN {OverrideWithHigherProof(s, p)} ELSE {})
    \cup (IF CanReprove(p) THEN {Reproved(s, p)} ELSE {})
    \cup (IF CanContest(s, p) THEN {Contested(s, p)} ELSE {})

ProveBlock(u, id, parentHash, blockHash, stateRoot, tierId, returnLivenessBond) ==
  /\ ~paused /\ ~state.provingPaused
  /\ \E p \in ProofLocals(state, u, id, parentHash, blockHash, stateRoot, tierId,
                          returnLivenessBond) :
       /\ MayProve(p)
       /\ \E s \in Settled(p.fetched, p) : state' \in AfterVerification(s, id, TRUE)
  /\ UNCHANGED <<paused, now, openSince>>

\* The parent hashes, block hashes and state roots that a prover may claim.
ParentHashes(id) ==
  {BlockHash(id - 1, v) : v \in Variants}
    \cup (IF id = MigratedId + 1 THEN {OneHash} ELSE {})
    \cup (IF id = MigratedId + 2 THEN {MetaHash(id - 1)} ELSE {})
ProversOf(tierId) == IF TierConfig[tierId].guardian THEN {Guardian} ELSE Users
\* The blocks that are proposed and not yet verified.
Provable == state.lastVerifiedBlockId + 1 .. state.numBlocks - 1
\* Whether the proof data is H_RETURN_LIVENESS_BOND; only a top tier reads it.
ReturnFlags(tierId) == IF TierConfig[tierId].contestBond = 0 THEN BOOLEAN ELSE {FALSE}
ClaimedRoots(id) == IF ShouldSyncStateRoot(id) THEN StateRoots ELSE {0}

---------------------------------------------------------------------------
(* The remaining external functions of TaikoL1. *)

VerifyBlocks(max) ==
  /\ ~paused /\ ~state.provingPaused
  /\ state' \in VerifyOutcomes(state, max)
  /\ UNCHANGED <<paused, now, openSince>>

PauseProving(pause) ==
  /\ Watchdog
  /\ state.provingPaused # pause
  /\ state' = [state EXCEPT !.provingPaused = pause,
                            !.lastUnpausedAt = IF pause THEN @ ELSE now]
  /\ openSince' = IF pause \/ paused THEN openSince ELSE now
  /\ UNCHANGED <<paused, now>>

Pause ==
  /\ Watchdog
  /\ ~paused
  /\ paused' = TRUE
  /\ UNCHANGED <<state, now, openSince>>

Unpause_KeepsDeadlines == \* mutation: lastUnpausedAt is not set
  /\ paused
  /\ paused' = FALSE
  /\ openSince' = IF state.provingPaused THEN openSince ELSE now
  /\ UNCHANGED <<state, now>>
Unpause ==
  /\ paused
  /\ paused' = FALSE
  /\ state' = [state EXCEPT !.lastUnpausedAt = now]
  /\ openSince' = IF state.provingPaused THEN openSince ELSE now
  /\ UNCHANGED now

DepositBond(u, amount) ==
  /\ ~paused
  /\ state.tkoOf[u] >= amount
  /\ state' = [state EXCEPT !.bondBalance[u] = @ + amount, !.tkoOf[u] = @ - amount,
                            !.tkoHeld = @ + amount]
  /\ UNCHANGED <<paused, now, openSince>>

WithdrawBond(u, amount) ==
  /\ ~paused
  /\ state.bondBalance[u] >= amount
  /\ state.tkoHeld >= amount
  /\ state' = [state EXCEPT !.bondBalance[u] = @ - amount, !.tkoOf[u] = @ + amount,
                            !.tkoHeld = @ - amount]
  /\ UNCHANGED <<paused, now, openSince>>

\* L1 produces a block.
Tick ==
  /\ now < MaxTime
  /\ now' = now + 1
  /\ UNCHANGED <<state, paused, openSince>>

---------------------------------------------------------------------------
GenesisBlock ==
  [EmptyBlock EXCEPT !.metaHash = OneHash, !.nextTransitionId = 2, !.verifiedTransitionId = 1]
GenesisTransition == [EmptyTransition EXCEPT !.blockHash = BlockHash(0, 0)]

TrustedRecord(blockHash, stateRoot) ==
  [tid |-> 1, proofless |-> TRUE, parentHash |-> ZeroHash, tier |-> 0,
   stateRoot |-> stateRoot, blockHash |-> blockHash]

\* LibUtils.init
InitState ==
  [numBlocks |-> 1, lastVerifiedBlockId |-> 0, lastSyncedBlockId |-> 0,
   provingPaused |-> FALSE, lastUnpausedAt |-> 0,
   blocks |-> [slot \in Slots |-> IF slot = 0 THEN GenesisBlock ELSE EmptyBlock],
   transitions |-> [slot \in Slots |-> [tid \in Tids |->
     IF slot = 0 /\ tid = 1 THEN GenesisTransition ELSE EmptyTransition]],
   transitionIds |-> [k \in {} |-> 0],
   bondBalance |-> [u \in Accounts |-> 0],
   tkoOf |-> [u \in Accounts |-> InitialTokens], tkoHeld |-> 0,
   syncedRoots |-> [id \in {} |-> 0],
   chain |-> [id \in {0} |-> TrustedRecord(BlockHash(0, 0), 0)],
   contests |-> {}]

\* doMigrate: the chain continues after block MigratedId, whose hash becomes 1.
MigratedState ==
  [InitState EXCEPT
    !.numBlocks = MigratedId + 1, !.lastVerifiedBlockId = MigratedId,
    !.blocks[Slot(MigratedId)] =
      [@ EXCEPT !.metaHash = OneHash, !.blockId = MigratedId, !.proposedIn = MigratedId,
                !.verifiedTransitionId = 1, !.nextTransitionId = 2],
    !.transitions[Slot(MigratedId)][1] = [@ EXCEPT !.blockHash = OneHash, !.stateRoot = 1],
    !.chain = [id \in {MigratedId} |-> TrustedRecord(OneHash, 1)]]

\* initMigrate proposes the next block in the same transaction.
InitMigrate ==
  \E u \in Users, minTier \in MinTiers :
    \E s \in Proposed(MigratedState, u, BlockNumber - 1, now, minTier) :
      state \in AfterVerification(s, MigratedId + 1, FALSE)

Init ==
  /\ paused \in {FALSE, Watchdog} /\ now = 0 /\ openSince = 0
  /\ IF MigratedId = 0 THEN state = InitState ELSE InitMigrate

Propose ==
  \E u \in Users, minTier \in MinTiers :
    ProposeBlock(u, minTier) \/ ProposeBlockV2(u, minTier) \/ ProposeBlocksV2(u, minTier)

Prove ==
  \E id \in Provable, tierId \in Tiers :
    \E u \in ProversOf(tierId), returnLivenessBond \in ReturnFlags(tierId),
       parentHash \in ParentHashes(id), v \in Variants, stateRoot \in ClaimedRoots(id) :
      ProveBlock(u, id, parentHash, BlockHash(id, v), stateRoot, tierId, returnLivenessBond)

Next ==
  \/ Propose
  \/ Prove
  \/ \E max \in 0 .. MaxBlockId : VerifyBlocks(max)
  \/ \E pause \in BOOLEAN : PauseProving(pause)
  \/ Pause
  \/ Unpause
  \/ \E u \in Users, amount \in BondAmounts : DepositBond(u, amount) \/ WithdrawBond(u, amount)
  \/ Tick

Spec == Init /\ [][Next]_vars

\* A live prover client proves the block that verification waits for, on the
\* parent it knows from L2, and somebody calls verifyBlocks.
ProveNext ==
  LET id == state.lastVerifiedBlockId + 1
  IN  /\ id < state.numBlocks
      /\ \E u \in Users, tierId \in Tiers, v \in Variants, stateRoot \in ClaimedRoots(id) :
           ProveBlock(u, id, BlockHash(id - 1, v), BlockHash(id, v), stateRoot, tierId, FALSE)

FairSpec ==
  /\ Spec
  /\ WF_vars(ProveNext)
  /\ WF_vars(\E max \in 1 .. MaxBlockId : VerifyBlocks(max))

---------------------------------------------------------------------------
(* Properties *)

MetaRecord == [proposer : Accounts \cup {NoAddr}, minTier : Tiers \cup {0},
               livenessBond : Nat, proposedAt : Nat]
BlockRecord ==
  [metaHash : Hash, blockId : Nat, livenessBond : Nat, proposedAt : Nat, proposedIn : Nat,
   nextTransitionId : Nat, livenessBondReturned : BOOLEAN, verifiedTransitionId : Nat,
   meta : MetaRecord]
TransitionRecord ==
  [key : Hash, blockHash : Hash, stateRoot : Nat, prover : Accounts \cup {NoAddr},
   validityBond : Nat, contester : Accounts \cup {NoAddr}, contestBond : Nat,
   timestamp : Nat, tier : Tiers \cup {0}, parentHash : Hash]
ChainRecord == [tid : Tids, proofless : BOOLEAN, parentHash : Hash, tier : Tiers \cup {0},
                stateRoot : Nat, blockHash : Hash]

Fields ==
  {"numBlocks", "lastVerifiedBlockId", "lastSyncedBlockId", "provingPaused",
   "lastUnpausedAt", "blocks", "transitions", "transitionIds", "bondBalance",
   "tkoOf", "tkoHeld", "syncedRoots", "chain", "contests"}

\* The cursors, the ring buffer and the transitions of a storage.
IsStorage(s) ==
  /\ DOMAIN s = Fields
  /\ s.numBlocks \in Nat
  /\ s.lastVerifiedBlockId \in Nat
  /\ s.lastSyncedBlockId \in Nat
  /\ s.provingPaused \in BOOLEAN
  /\ s.lastUnpausedAt \in Nat
  /\ s.blocks \in [Slots -> BlockRecord]
  /\ s.transitions \in [Slots -> [Tids -> TransitionRecord]]
  /\ DOMAIN s.transitionIds \subseteq Nat \X Hash
  /\ \A k \in DOMAIN s.transitionIds : s.transitionIds[k] \in Tids
ClockTypeOK == paused \in BOOLEAN /\ now \in Nat /\ openSince \in Nat
LedgerTypeOK ==
  /\ state.bondBalance \in [Accounts -> Nat]
  /\ state.tkoOf \in [Accounts -> Nat]
  /\ state.tkoHeld \in Nat
HistoryTypeOK ==
  /\ state.chain \in [MigratedId .. state.lastVerifiedBlockId -> ChainRecord]
  /\ DOMAIN state.syncedRoots \subseteq Nat
  /\ \A id \in DOMAIN state.syncedRoots : state.syncedRoots[id] \in Nat
  /\ state.contests \subseteq Nat \X Tids \X Tiers

\* The storage of the rollup itself keeps its type (TaikoData.State).
StorageTypeOK == IsStorage(state)

\* Every variable keeps its type: no checked subtraction of a bond underflows
\* and no cursor leaves the ring (LibBonds, TaikoData.State).
TypeOK == StorageTypeOK /\ ClockTypeOK /\ LedgerTypeOK /\ HistoryTypeOK

RingOK(s) ==
  /\ s.lastVerifiedBlockId < s.numBlocks
  /\ s.numBlocks <= s.lastVerifiedBlockId + BlockMaxProposals + 1
  /\ \A id \in s.lastVerifiedBlockId .. s.numBlocks - 1 :
       s.blocks[Slot(id)].blockId = id /\ s.blocks[Slot(id)].nextTransitionId # 0
  /\ s.blocks[Slot(s.lastVerifiedBlockId)].verifiedTransitionId # 0

\* The ring holds the last verified block and every block after it, intact:
\* a proposal never overwrites a block that is still to be verified, and the
\* block verification starts from is there with the transition that verified it.
RingIntact == RingOK(state)

\* verifyBlocks, and with it every proposal and proof that ends in it, never
\* reverts, whatever a reused slot still holds: neither L1_BLOCK_MISMATCH nor
\* L1_TRANSITION_ID_ZERO nor L1_UNEXPECTED_TRANSITION_ID.
VerificationNeverReverts == VerifyOutcomes(state, MaxBlockId) # {}

\* A block verified by a proof extends the hash its predecessor was verified
\* with, except the block whose parent the migration takes from its first proof.
ChainLinked ==
  \A id \in DOMAIN state.chain \ {MigratedId, OntakeForkHeight + 2} :
    ~state.chain[id - 1].proofless =>
      state.chain[id].parentHash = state.chain[id - 1].blockHash

\* Only the block that follows the migrated one is ever verified without a
\* proof: no reused slot makes another block look like its successor.
OnlyMigrationProofless ==
  \A id \in DOMAIN state.chain : state.chain[id].proofless => id <= MigratedId + 1

\* A transition that was contested verifies a block only after a proof of a
\* higher tier settled the contest.
ContestSettled ==
  \A id \in DOMAIN state.chain : ~state.chain[id].proofless =>
    \A tier \in Tiers :
      <<id, state.chain[id].tid, tier>> \in state.contests => tier < state.chain[id].tier

\* Before a transition verifies its block, proving and contesting have been
\* open without a pause for the whole cooldown window since it was last proven.
CooldownObserved ==
  [][\A id \in state.lastVerifiedBlockId + 1 .. state'.lastVerifiedBlockId :
       LET ts == state'.transitions[Slot(id)][state'.chain[id].tid]
       IN  ~state'.chain[id].proofless =>
             /\ ~paused /\ ~state.provingPaused
             /\ now >= Later(ts.timestamp, openSince) + TierConfig[ts.tier].cooldownWindow]_vars

\* What the contract may still have to pay for a block not yet verified.
BondsOf(ts) == ts.validityBond + (IF ts.contester = NoAddr THEN 0 ELSE ts.contestBond)
OutstandingBonds(s, id) ==
  LET blk == s.blocks[Slot(id)]
      tids == 1 .. blk.nextTransitionId - 1
  IN  (IF blk.livenessBondReturned THEN 0 ELSE blk.livenessBond + blk.meta.livenessBond)
      + Total([tid \in tids |-> BondsOf(s.transitions[Slot(id)][tid])], tids)

\* The contract holds the tokens for every bond balance and every bond that an
\* unverified block may still return: no bond is paid out twice.
Solvent ==
  state.tkoHeld >= Total(state.bondBalance, Accounts)
                     + Total([id \in Provable |-> OutstandingBonds(state, id)], Provable)

\* The state roots sent to the signal service are those of the transitions
\* that verified their blocks, the last of them is lastSyncedBlockId, and
\* the sent blocks are those whose ids the sync interval selects.
SyncedRootsVerified ==
  /\ \A id \in DOMAIN state.syncedRoots :
       /\ id \in DOMAIN state.chain
       /\ state.syncedRoots[id] = state.chain[id].stateRoot
       /\ ShouldSyncStateRoot(id)
       /\ id <= state.lastSyncedBlockId
  /\ DOMAIN state.syncedRoots # {} => state.lastSyncedBlockId \in DOMAIN state.syncedRoots

\* The default parameters (anchor and timestamp 0) always pass the checks
\* against the parent block: earlier proposals cannot lock the next one out.
DefaultProposalAdmissible ==
  PostFork(state.numBlocks) =>
    ValidAnchor(state, BlockNumber - 1) /\ ValidTimestamp(state, now)

\* With a live prover and no pause, every proposed block is eventually
\* verified, across the migrated block and every reuse of a slot.
EveryBlockVerified ==
  \A id \in MigratedId + 1 .. MaxBlockId :
    id < state.numBlocks ~> id <= state.lastVerifiedBlockId
=============================================================================
