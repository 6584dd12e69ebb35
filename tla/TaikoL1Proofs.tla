--------------------------- MODULE TaikoL1Proofs ---------------------------
(***************************************************************************)
(* TaikoL1 for every configuration, every number of blocks and every tier  *)
(* set: its storage keeps its type, the ring buffer stays intact, what     *)
(* was verified is a linked chain of proofs whose contests were settled    *)
(* and whose cooldowns were observed, the contract holds the tokens for    *)
(* every bond it may have to pay, and neither proposing nor verifying is   *)
(* ever locked out.                                                        *)
(*                                                                         *)
(* The handlers are storage transformers, so are the lemmas: each library  *)
(* call preserves StorageInv(s), the intact ring, and HistoryInv(s), what  *)
(* the storage says of transitions and verified blocks; the actions        *)
(* compose the calls.  SolventInv(s) weighs every bond that a call moves   *)
(* against the tokens the contract holds beyond the balances (Margin).     *)
(* AnchorOK(s, time) is what a default proposal needs of the newest block, *)
(* NameInv(s) what a run of verifyBlocks needs of the keys and hashes that *)
(* the slots of the ring hold.                                             *)
(***************************************************************************)
EXTENDS TaikoL1, TotalsProofs

StorageInv(s) == IsStorage(s) /\ RingOK(s)

\* The inductive invariant.
IInv == StorageInv(state) /\ ClockTypeOK

\* Two storages that differ at most in tokens and history.
SameRing(s, t) ==
  /\ DOMAIN t = Fields
  /\ \A f \in {"numBlocks", "lastVerifiedBlockId", "lastSyncedBlockId", "provingPaused",
               "lastUnpausedAt", "blocks", "transitions", "transitionIds"} : t[f] = s[f]

---------------------------------------------------------------------------
(* Arithmetic of the ring. *)

\* Numbers less than n apart have different remainders modulo n.
LEMMA ModDistinct ==
  ASSUME NEW n \in Nat \ {0}, NEW a \in Nat, NEW b \in Nat, a < b, b < a + n
  PROVE  a % n # b % n
<1>1. a = n * (a \div n) + (a % n) /\ b = n * (b \div n) + (b % n)
  OBVIOUS
<1>. SUFFICES ASSUME a % n = b % n PROVE FALSE
  OBVIOUS
<1>. DEFINE q == (b \div n) - (a \div n)
<1>2. q \in Int
  OBVIOUS
<1>3. b - a = n * q
  BY <1>1
<1>. HIDE DEF q
<1>4. q >= 1
  <2>. SUFFICES ASSUME q <= 0 PROVE FALSE
    BY <1>2
  <2>1. n * q <= 0
    BY <1>2
  <2>. QED
    BY <2>1, <1>3
<1>5. n * q >= n
  BY <1>2, <1>4
<1>. QED
  BY <1>3, <1>5

\* Every block id has a slot of the ring (id % blockRingBufferSize).
LEMMA SlotInRing ==
  ASSUME NEW id \in Nat
  PROVE  Slot(id) \in Slots
BY ConfigAssumption DEF Slot, Slots

\* Two ids that the ring holds at once have different slots.
LEMMA SlotsDiffer ==
  ASSUME NEW a \in Nat, NEW b \in Nat, a < b, b < a + BlockRingBufferSize
  PROVE  Slot(a) # Slot(b)
BY ConfigAssumption, ModDistinct DEF Slot

---------------------------------------------------------------------------
(* Bonds and history leave the ring alone. *)

\* What leaves the ring alone preserves the storage invariant.
LEMMA SameRingInv ==
  ASSUME NEW s, NEW t, StorageInv(s), SameRing(s, t)
  PROVE  StorageInv(t)
<1>1. IsStorage(t)
  BY DEF StorageInv, IsStorage, SameRing
<1>2. RingOK(t)
  BY DEF StorageInv, RingOK, SameRing
<1>. QED
  BY <1>1, <1>2 DEF StorageInv

\* LibBonds.debitBond touches bonds and tokens only.
LEMMA DebitSame ==
  ASSUME NEW s, NEW u, NEW amount, DOMAIN s = Fields
  PROVE  SameRing(s, DebitBond(s, u, amount))
BY DEF SameRing, DebitBond, Fields

\* LibBonds.creditBond touches bonds only.
LEMMA CreditSame ==
  ASSUME NEW s, NEW u, NEW amount, DOMAIN s = Fields
  PROVE  SameRing(s, CreditBond(s, u, amount))
BY DEF SameRing, CreditBond, Fields

\* LibBonds.debitBond preserves the storage invariant.
LEMMA DebitInv ==
  ASSUME NEW s, NEW u, NEW amount, StorageInv(s)
  PROVE  StorageInv(DebitBond(s, u, amount))
BY DebitSame, SameRingInv DEF StorageInv, IsStorage

\* LibBonds.creditBond preserves the storage invariant.
LEMMA CreditInv ==
  ASSUME NEW s, NEW u, NEW amount, StorageInv(s)
  PROVE  StorageInv(CreditBond(s, u, amount))
BY CreditSame, SameRingInv DEF StorageInv, IsStorage

---------------------------------------------------------------------------
(* Writing one block or one transition in place. *)

\* A block is replaced by one with the same id and the same cursors.
LEMMA TouchBlockInv ==
  ASSUME NEW s, StorageInv(s), NEW t, NEW slot \in Slots, NEW blk \in BlockRecord,
         DOMAIN t = Fields,
         \A f \in Fields \ {"blocks"} : t[f] = s[f],
         t.blocks = [s.blocks EXCEPT ![slot] = blk],
         blk.blockId = s.blocks[slot].blockId,
         blk.nextTransitionId = s.blocks[slot].nextTransitionId,
         blk.verifiedTransitionId = s.blocks[slot].verifiedTransitionId
  PROVE  StorageInv(t)
<1>1. IsStorage(t)
  BY DEF StorageInv, IsStorage, Fields
<1>2. RingOK(t)
  <2>1. /\ t.lastVerifiedBlockId = s.lastVerifiedBlockId /\ t.numBlocks = s.numBlocks
    BY DEF Fields
  <2>2. s.lastVerifiedBlockId \in Nat /\ s.numBlocks \in Nat /\ s.blocks \in [Slots -> BlockRecord]
    BY DEF StorageInv, IsStorage
  <2>3. ASSUME NEW id \in Nat
        PROVE  /\ t.blocks[Slot(id)].blockId = s.blocks[Slot(id)].blockId
               /\ s.blocks[Slot(id)].nextTransitionId # 0 =>
                    t.blocks[Slot(id)].nextTransitionId # 0
               /\ t.blocks[Slot(id)].verifiedTransitionId
                    = s.blocks[Slot(id)].verifiedTransitionId
    BY <2>2, SlotInRing
  <2>. QED
    BY <2>1, <2>2, <2>3 DEF StorageInv, RingOK
<1>. QED
  BY <1>1, <1>2 DEF StorageInv

\* A transition of the right type is written into its slot.
LEMMA TouchTransitionInv ==
  ASSUME NEW s, StorageInv(s), NEW t, NEW slot \in Slots, NEW tid \in Tids,
         NEW ts \in TransitionRecord,
         DOMAIN t = Fields,
         \A f \in {"numBlocks", "lastVerifiedBlockId", "lastSyncedBlockId", "provingPaused",
                   "lastUnpausedAt", "blocks", "transitionIds"} : t[f] = s[f],
         t.transitions = [s.transitions EXCEPT ![slot][tid] = ts]
  PROVE  StorageInv(t)
<1>1. IsStorage(t)
  BY DEF StorageInv, IsStorage
<1>2. RingOK(t)
  BY DEF StorageInv, RingOK
<1>. QED
  BY <1>1, <1>2 DEF StorageInv

---------------------------------------------------------------------------
(* Proposing. *)

\* An empty slot is a block record.
LEMMA EmptyBlockType == EmptyBlock \in BlockRecord
BY DEF EmptyBlock, BlockRecord, NoMeta, MetaRecord, ZeroHash, Hash

\* _proposeBlock writes a block with the next id, ready for its first transition.
LEMMA NewBlockType ==
  ASSUME NEW s, StorageInv(s), ClockTypeOK, NEW u \in Accounts, NEW minTier \in Tiers,
         NEW anchorBlockId \in Int, NEW timestamp \in Int,
         CanPropose(s, u, anchorBlockId, timestamp)
  PROVE  /\ NewBlock(s, u, anchorBlockId, timestamp, minTier) \in BlockRecord
         /\ NewBlock(s, u, anchorBlockId, timestamp, minTier).blockId = s.numBlocks
         /\ NewBlock(s, u, anchorBlockId, timestamp, minTier).nextTransitionId # 0
<1>1. s.numBlocks \in Nat \ {0} /\ ParentBlock(s) \in BlockRecord
  <2>1. s.numBlocks \in Nat \ {0} /\ s.blocks \in [Slots -> BlockRecord]
    BY DEF StorageInv, IsStorage, RingOK
  <2>. QED
    BY <2>1, SlotInRing DEF ParentBlock
<1>2. PostFork(s.numBlocks) => anchorBlockId \in Nat /\ timestamp \in Nat
  <2>1. ParentBlock(s).proposedIn \in Nat /\ ParentBlock(s).proposedAt \in Nat
    BY <1>1 DEF BlockRecord
  <2>. QED
    BY <2>1 DEF CanPropose, ValidAnchor, ValidTimestamp
<1>3. BlockNumber \in Nat /\ now \in Nat /\ LivenessBond \in Nat
  BY ConfigAssumption DEF BlockNumber, ClockTypeOK
<1>4. MetaHash(s.numBlocks) \in Hash
  BY <1>1 DEF MetaHash, Hash
<1>5. [proposer |-> u, minTier |-> minTier, proposedAt |-> now,
       livenessBond |-> IF PostFork(s.numBlocks) THEN LivenessBond ELSE 0] \in MetaRecord
  BY <1>3 DEF MetaRecord
<1>. DEFINE bond == IF PostFork(s.numBlocks) THEN 0 ELSE LivenessBond
            at == IF PostFork(s.numBlocks) THEN timestamp ELSE now
            in == IF PostFork(s.numBlocks) THEN anchorBlockId ELSE BlockNumber
            meta == [proposer |-> u, minTier |-> minTier, proposedAt |-> now,
                     livenessBond |-> IF PostFork(s.numBlocks) THEN LivenessBond ELSE 0]
            hash == MetaHash(s.numBlocks)
            id == s.numBlocks
<1>6. NewBlock(s, u, anchorBlockId, timestamp, minTier) =
        [EmptyBlock EXCEPT !.metaHash = hash, !.blockId = id, !.nextTransitionId = 1,
                           !.livenessBond = bond, !.proposedAt = at, !.proposedIn = in,
                           !.meta = meta]
  BY Zenon DEF NewBlock
<1>7. bond \in Nat /\ at \in Nat /\ in \in Nat /\ meta \in MetaRecord /\ hash \in Hash /\ id \in Nat
  BY <1>1, <1>2, <1>3, <1>4, <1>5
<1>. HIDE DEF bond, at, in, meta, hash, id
<1>. DEFINE blk == [EmptyBlock EXCEPT !.metaHash = hash, !.blockId = id, !.nextTransitionId = 1,
                           !.livenessBond = bond, !.proposedAt = at, !.proposedIn = in,
                           !.meta = meta]
<1>8. blk \in BlockRecord /\ blk.blockId = id /\ blk.nextTransitionId = 1
  BY <1>7, EmptyBlockType DEF BlockRecord
<1>9. NewBlock(s, u, anchorBlockId, timestamp, minTier) = blk
  BY <1>6
<1>. HIDE DEF blk
<1>. QED
  BY <1>8, <1>9 DEF id

\* With room in the ring a new block overwrites no block that verification still needs.
LEMMA AppendedInv ==
  ASSUME NEW s, StorageInv(s), NEW blk \in BlockRecord,
         blk.blockId = s.numBlocks, blk.nextTransitionId # 0, HasRoom(s)
  PROVE  StorageInv(Appended(s, blk))
<1>. DEFINE t == Appended(s, blk)
<1>1. /\ DOMAIN t = Fields
      /\ t.blocks = [s.blocks EXCEPT ![Slot(s.numBlocks)] = blk]
      /\ t.numBlocks = s.numBlocks + 1
      /\ \A f \in Fields \ {"blocks", "numBlocks"} : t[f] = s[f]
  BY DEF Appended, StorageInv, IsStorage, Fields
<1>2. /\ s.lastVerifiedBlockId \in Nat /\ s.numBlocks \in Nat
      /\ s.blocks \in [Slots -> BlockRecord]
      /\ s.lastVerifiedBlockId < s.numBlocks
      /\ s.numBlocks <= s.lastVerifiedBlockId + BlockMaxProposals
      /\ t.lastVerifiedBlockId = s.lastVerifiedBlockId
  BY <1>1, ConfigAssumption DEF StorageInv, IsStorage, RingOK, HasRoom, Fields
<1>. HIDE DEF t
<1>3. IsStorage(t)
  BY <1>1, <1>2, SlotInRing DEF StorageInv, IsStorage, Fields
<1>4. \A id \in s.lastVerifiedBlockId .. s.numBlocks - 1 : Slot(id) # Slot(s.numBlocks)
  <2>. TAKE id \in s.lastVerifiedBlockId .. s.numBlocks - 1
  <2>1. id \in Nat /\ id < s.numBlocks /\ s.numBlocks < id + BlockRingBufferSize
    BY <1>2, ConfigAssumption
  <2>. QED
    BY <2>1, <1>2, SlotsDiffer
<1>5. \A id \in s.lastVerifiedBlockId .. s.numBlocks - 1 :
        t.blocks[Slot(id)] = s.blocks[Slot(id)]
  BY <1>1, <1>2, <1>4
<1>6. t.blocks[Slot(s.numBlocks)] = blk
  BY <1>1, <1>2, SlotInRing
<1>7. RingOK(t)
  BY <1>1, <1>2, <1>5, <1>6, ConfigAssumption DEF StorageInv, RingOK
<1>. QED
  BY <1>3, <1>7 DEF StorageInv, t

\* _proposeBlock preserves the storage invariant.
LEMMA ProposedInv ==
  ASSUME NEW s, StorageInv(s), ClockTypeOK, NEW u \in Accounts, NEW minTier \in Tiers,
         NEW anchorBlockId \in Int, NEW timestamp \in Int,
         NEW t \in Proposed(s, u, anchorBlockId, timestamp, minTier)
  PROVE  StorageInv(t)
<1>. DEFINE blk == NewBlock(s, u, anchorBlockId, timestamp, minTier)
<1>1. /\ CanPropose(s, u, anchorBlockId, timestamp)
      /\ t = DebitBond(Appended(s, blk), u, LivenessBond)
  BY DEF Proposed
<1>2. blk \in BlockRecord /\ blk.blockId = s.numBlocks /\ blk.nextTransitionId # 0
  BY <1>1, NewBlockType
<1>3. HasRoom(s)
  BY <1>1 DEF CanPropose
<1>. HIDE DEF blk
<1>4. StorageInv(Appended(s, blk))
  BY <1>2, <1>3, AppendedInv
<1>. QED
  BY <1>1, <1>4, DebitInv

---------------------------------------------------------------------------
(* Verifying. *)

\* A transition whose block hash is overwritten is still a transition.
LEMMA RehashedType ==
  ASSUME NEW ts \in TransitionRecord, NEW hash \in Hash
  PROVE  [ts EXCEPT !.blockHash = hash] \in TransitionRecord
BY DEF TransitionRecord

\* A run marks blocks of the run only, and each with the transition it chose.
LEMMA VerifiedInv ==
  ASSUME NEW s, StorageInv(s), NEW max \in Nat,
         NEW last \in s.lastVerifiedBlockId .. s.numBlocks - 1,
         NEW tids \in [s.lastVerifiedBlockId + 1 .. last -> Tids],
         IsRun(s, max, last, tids),
         NEW sync \in SyncPoints(s, last, tids)
  PROVE  StorageInv(Verified(s, last, tids, sync))
<1>. DEFINE fresh == s.lastVerifiedBlockId + 1 .. last
            t == Verified(s, last, tids, sync)
<1>1. /\ s.lastVerifiedBlockId \in Nat /\ s.numBlocks \in Nat /\ last \in Nat
      /\ s.lastSyncedBlockId \in Nat
      /\ s.blocks \in [Slots -> BlockRecord]
      /\ s.transitions \in [Slots -> [Tids -> TransitionRecord]]
      /\ fresh \subseteq Nat
  BY DEF StorageInv, IsStorage
<1>2. \A id \in fresh : s.blocks[Slot(id)].blockId = id
  BY DEF IsRun, IterationReverts
<1>3. Proofless(s, last) \subseteq fresh /\ Marked(s, last, sync) \subseteq fresh
  BY DEF Proofless, Marked
<1>4. sync \in Nat
  BY <1>1 DEF SyncPoints
<1>5. /\ DOMAIN t = Fields
      /\ t.numBlocks = s.numBlocks /\ t.lastVerifiedBlockId = last
      /\ t.lastSyncedBlockId \in Nat
      /\ t.provingPaused = s.provingPaused /\ t.lastUnpausedAt = s.lastUnpausedAt
      /\ t.transitionIds = s.transitionIds
  BY <1>1, <1>4 DEF Verified, StorageInv, IsStorage, Fields
<1>6. t.blocks = [slot \in Slots |->
          IF \E id \in Marked(s, last, sync) : Slot(id) = slot
          THEN [s.blocks[slot] EXCEPT !.verifiedTransitionId = tids[s.blocks[slot].blockId]]
          ELSE s.blocks[slot]]
  BY DEF Verified, StorageInv, IsStorage, Fields
<1>7. t.transitions = [slot \in Slots |->
          IF \E id \in Proofless(s, last) : Slot(id) = slot
          THEN [s.transitions[slot] EXCEPT
                 ![tids[s.blocks[slot].blockId]].blockHash = s.blocks[slot].metaHash]
          ELSE s.transitions[slot]]
  BY DEF Verified, StorageInv, IsStorage, Fields
<1>. HIDE DEF t
<1>8. ASSUME NEW slot \in Slots
      PROVE  /\ t.blocks[slot] \in BlockRecord
             /\ t.blocks[slot].blockId = s.blocks[slot].blockId
             /\ t.blocks[slot].nextTransitionId = s.blocks[slot].nextTransitionId
             /\ t.blocks[slot].verifiedTransitionId = s.blocks[slot].verifiedTransitionId
                  \/ t.blocks[slot].verifiedTransitionId \in Tids
             /\ t.transitions[slot] \in [Tids -> TransitionRecord]
  <2>1. s.blocks[slot] \in BlockRecord /\ s.transitions[slot] \in [Tids -> TransitionRecord]
    BY <1>1
  <2>2. ASSUME NEW id \in fresh, Slot(id) = slot PROVE tids[s.blocks[slot].blockId] \in Tids
    BY <1>2, <2>2
  <2>3. Tids \subseteq Nat
    BY DEF Tids
  <2>4. /\ t.blocks[slot] \in BlockRecord
        /\ t.blocks[slot].blockId = s.blocks[slot].blockId
        /\ t.blocks[slot].nextTransitionId = s.blocks[slot].nextTransitionId
        /\ t.blocks[slot].verifiedTransitionId = s.blocks[slot].verifiedTransitionId
             \/ t.blocks[slot].verifiedTransitionId \in Tids
    <3>1. CASE \E id \in Marked(s, last, sync) : Slot(id) = slot
      <4>1. tids[s.blocks[slot].blockId] \in Tids
        BY <3>1, <1>3, <2>2
      <4>2. t.blocks[slot] = [s.blocks[slot] EXCEPT
                                !.verifiedTransitionId = tids[s.blocks[slot].blockId]]
        BY <3>1, <1>6
      <4>. QED
        BY <4>1, <4>2, <2>1, <2>3 DEF BlockRecord
    <3>2. CASE ~ \E id \in Marked(s, last, sync) : Slot(id) = slot
      BY <3>2, <1>6, <2>1
    <3>. QED
      BY <3>1, <3>2
  <2>5. t.transitions[slot] \in [Tids -> TransitionRecord]
    <3>1. CASE \E id \in Proofless(s, last) : Slot(id) = slot
      <4>. DEFINE tid == tids[s.blocks[slot].blockId]
      <4>1. tid \in Tids
        BY <3>1, <1>3, <2>2
      <4>2. t.transitions[slot] = [s.transitions[slot] EXCEPT
                                     ![tid].blockHash = s.blocks[slot].metaHash]
        BY <3>1, <1>7
      <4>. HIDE DEF tid
      <4>3. s.blocks[slot].metaHash \in Hash
        BY <2>1 DEF BlockRecord
      <4>4. [s.transitions[slot][tid] EXCEPT !.blockHash = s.blocks[slot].metaHash]
              \in TransitionRecord
        <5>1. s.transitions[slot][tid] \in TransitionRecord
          BY <4>1, <2>1
        <5>. QED
          BY <4>3, <5>1, RehashedType
      <4>. QED
        BY <4>1, <4>2, <4>4, <2>1
    <3>2. CASE ~ \E id \in Proofless(s, last) : Slot(id) = slot
      BY <3>2, <1>7, <2>1
    <3>. QED
      BY <3>1, <3>2
  <2>. QED
    BY <2>4, <2>5
<1>9. IsStorage(t)
  <2>1. t.blocks \in [Slots -> BlockRecord]
    BY <1>6, <1>8
  <2>2. t.transitions \in [Slots -> [Tids -> TransitionRecord]]
    BY <1>7, <1>8
  <2>. QED
    BY <1>1, <1>5, <2>1, <2>2 DEF StorageInv, IsStorage
<1>10. t.blocks[Slot(last)].verifiedTransitionId # 0
  <2>1. Slot(last) \in Slots
    BY <1>1, SlotInRing
  <2>2. 0 \notin Tids
    BY DEF Tids
  <2>3. CASE last = s.lastVerifiedBlockId
    BY <2>1, <2>2, <2>3, <1>8 DEF StorageInv, RingOK
  <2>4. CASE last # s.lastVerifiedBlockId
    <3>1. last \in fresh
      BY <1>1, <2>4
    <3>2. last \in Marked(s, last, sync)
      BY <3>1 DEF Marked
    <3>3. s.blocks[Slot(last)].blockId = last /\ tids[last] \in Tids
      BY <3>1, <1>2
    <3>4. t.blocks[Slot(last)] = [s.blocks[Slot(last)] EXCEPT !.verifiedTransitionId = tids[last]]
      BY <3>2, <3>3, <2>1, <1>6
    <3>5. s.blocks[Slot(last)] \in BlockRecord
      BY <2>1, <1>1
    <3>. QED
      BY <3>3, <3>4, <3>5, <2>2 DEF BlockRecord
  <2>. QED
    BY <2>3, <2>4
<1>11. RingOK(t)
  <2>1. s.numBlocks <= last + BlockMaxProposals + 1 /\ last < s.numBlocks
    <3>1. s.numBlocks <= s.lastVerifiedBlockId + BlockMaxProposals + 1
      BY DEF StorageInv, RingOK
    <3>2. BlockMaxProposals \in Nat /\ last >= s.lastVerifiedBlockId
      BY <1>1, ConfigAssumption
    <3>. QED
      BY <1>1, <3>1, <3>2
  <2>2. \A id \in last .. s.numBlocks - 1 :
          t.blocks[Slot(id)].blockId = id /\ t.blocks[Slot(id)].nextTransitionId # 0
    <3>. TAKE id \in last .. s.numBlocks - 1
    <3>1. id \in s.lastVerifiedBlockId .. s.numBlocks - 1 /\ Slot(id) \in Slots
      BY <1>1, SlotInRing
    <3>. QED
      BY <3>1, <1>8 DEF StorageInv, RingOK
  <2>. QED
    BY <2>1, <2>2, <1>5, <1>10 DEF RingOK
<1>. QED
  BY <1>9, <1>11 DEF StorageInv, t

\* verifyBlocks preserves the storage invariant.
LEMMA VerifyInv ==
  ASSUME NEW s, StorageInv(s), NEW max \in Nat, NEW t \in VerifyOutcomes(s, max)
  PROVE  StorageInv(t)
BY VerifiedInv DEF VerifyOutcomes

\* So does the verification at the end of a proposal or a proof.
LEMMA AfterVerificationInv ==
  ASSUME NEW s, StorageInv(s), NEW id, NEW isProposed, NEW t \in AfterVerification(s, id, isProposed)
  PROVE  StorageInv(t)
BY VerifyInv, ConfigAssumption DEF AfterVerification

---------------------------------------------------------------------------
(* Proving. *)

\* What the later steps of _proveBlock need of its locals.
ProofRecord(p) ==
  /\ p.slot \in Slots /\ p.tid \in Tids /\ p.sender \in Accounts /\ p.tierId \in Tiers
  /\ p.ts \in TransitionRecord /\ p.blockHash \in Hash /\ p.stateRoot \in Nat
  /\ p.tier = TierConfig[p.tierId]

\* _fetchOrCreateTransition starts from a transition of the right type.
LEMMA NewTransitionType ==
  ASSUME NEW s, StorageInv(s), NEW id \in Nat, NEW tid \in Nat, NEW parentHash \in Hash
  PROVE  NewTransition(s, id, tid, parentHash) \in TransitionRecord
<1>. DEFINE blk == s.blocks[Slot(id)]
            timestamp == IF PostFork(id) THEN blk.meta.proposedAt ELSE blk.proposedAt
            key == IF tid = 1 THEN parentHash ELSE ZeroHash
            prover == IF tid = 1 THEN blk.meta.proposer ELSE NoAddr
<1>1. blk \in BlockRecord
  BY SlotInRing DEF StorageInv, IsStorage
<1>2. blk.meta.proposedAt \in Nat /\ blk.proposedAt \in Nat
      /\ blk.meta.proposer \in Accounts \cup {NoAddr}
  BY <1>1 DEF BlockRecord, MetaRecord
<1>3. timestamp \in Nat /\ key \in Hash /\ prover \in Accounts \cup {NoAddr}
  BY <1>2 DEF ZeroHash, Hash
<1>4. EmptyTransition \in TransitionRecord
  BY DEF EmptyTransition, TransitionRecord, ZeroHash, Hash
<1>5. NewTransition(s, id, tid, parentHash) =
        [EmptyTransition EXCEPT !.timestamp = timestamp, !.key = key, !.prover = prover,
                                !.parentHash = parentHash]
  BY Zenon DEF NewTransition
<1>. HIDE DEF timestamp, key, prover
<1>6. [EmptyTransition EXCEPT !.timestamp = timestamp, !.key = key, !.prover = prover,
                              !.parentHash = parentHash] \in TransitionRecord
  BY <1>3, <1>4 DEF TransitionRecord
<1>. QED
  BY <1>5, <1>6

\* Creating a transition only moves nextTransitionId on and indexes the parent.
LEMMA WithNewTransitionInv ==
  ASSUME NEW s, StorageInv(s), NEW id \in Nat, NEW tid \in Tids, NEW parentHash \in Hash
  PROVE  StorageInv(WithNewTransition(s, id, tid, parentHash))
<1>. DEFINE t == WithNewTransition(s, id, tid, parentHash)
            slot == Slot(id)
            k0 == <<id, parentHash>>
<1>1. slot \in Slots /\ s.blocks \in [Slots -> BlockRecord]
  BY SlotInRing DEF StorageInv, IsStorage
<1>2. /\ DOMAIN t = Fields
      /\ \A f \in Fields \ {"blocks", "transitionIds"} : t[f] = s[f]
      /\ t.blocks = [s.blocks EXCEPT ![slot] =
                       [@ EXCEPT !.nextTransitionId = s.blocks[slot].nextTransitionId + 1]]
      /\ t.transitionIds = IF tid = 1 THEN s.transitionIds
           ELSE [k \in DOMAIN s.transitionIds \cup {k0} |->
                   IF k = k0 THEN tid ELSE s.transitionIds[k]]
  BY <1>1 DEF WithNewTransition, StorageInv, IsStorage, Fields
<1>. HIDE DEF t
<1>3. [s.blocks[slot] EXCEPT !.nextTransitionId = s.blocks[slot].nextTransitionId + 1]
        \in BlockRecord
  BY <1>1 DEF BlockRecord
<1>4. /\ DOMAIN t.transitionIds \subseteq Nat \X Hash
      /\ \A k \in DOMAIN t.transitionIds : t.transitionIds[k] \in Tids
  <2>1. k0 \in Nat \X Hash
    OBVIOUS
  <2>. HIDE DEF k0
  <2>. QED
    BY <1>2, <2>1 DEF StorageInv, IsStorage
<1>5. IsStorage(t)
  BY <1>1, <1>2, <1>3, <1>4 DEF StorageInv, IsStorage, Fields
<1>6. /\ t.lastVerifiedBlockId = s.lastVerifiedBlockId /\ t.numBlocks = s.numBlocks
      /\ s.lastVerifiedBlockId \in Nat /\ s.numBlocks \in Nat
  BY <1>2 DEF Fields, StorageInv, IsStorage
<1>7. ASSUME NEW i \in Nat
      PROVE  /\ t.blocks[Slot(i)].blockId = s.blocks[Slot(i)].blockId
             /\ s.blocks[Slot(i)].nextTransitionId # 0 => t.blocks[Slot(i)].nextTransitionId # 0
             /\ t.blocks[Slot(i)].verifiedTransitionId = s.blocks[Slot(i)].verifiedTransitionId
  <2>1. Slot(i) \in Slots /\ s.blocks[Slot(i)] \in BlockRecord
    BY <1>1, SlotInRing
  <2>. QED
    BY <2>1, <1>1, <1>2 DEF BlockRecord
<1>8. RingOK(t)
  BY <1>6, <1>7 DEF StorageInv, RingOK
<1>. QED
  BY <1>5, <1>8 DEF StorageInv, t

\* The locals of _proveBlock name a slot and a transition of the ring.
LEMMA ProofLocalsInv ==
  ASSUME NEW s, StorageInv(s), NEW u \in Accounts, NEW parentHash \in Hash,
         NEW id \in s.lastVerifiedBlockId + 1 .. s.numBlocks - 1,
         NEW blockHash \in Hash, NEW stateRoot \in Nat, NEW tierId \in Tiers, NEW flag,
         NEW p \in ProofLocals(s, u, id, parentHash, blockHash, stateRoot, tierId, flag)
  PROVE  ProofRecord(p) /\ StorageInv(p.fetched)
<1>. DEFINE slot == Slot(id)
            found == GetTransitionId(s, slot, parentHash)
            tid == IF found = 0 THEN s.blocks[slot].nextTransitionId ELSE found
            ts == IF found = 0 THEN NewTransition(s, id, tid, parentHash)
                  ELSE s.transitions[slot][tid]
            fetched == IF found = 0 THEN WithNewTransition(s, id, tid, parentHash) ELSE s
<1>1. id \in Nat /\ id \in s.lastVerifiedBlockId .. s.numBlocks - 1 /\ slot \in Slots
  BY SlotInRing DEF StorageInv, IsStorage
<1>2. s.blocks[slot] \in BlockRecord /\ s.transitions[slot] \in [Tids -> TransitionRecord]
  BY <1>1 DEF StorageInv, IsStorage
<1>3. s.blocks[slot].nextTransitionId \in Nat \ {0}
  BY <1>1, <1>2 DEF StorageInv, RingOK, BlockRecord
<1>4. 1 \in Tids
  BY ConfigAssumption DEF Tids
<1>5. found \in Tids \cup {0}
  BY <1>4 DEF GetTransitionId, StorageInv, IsStorage
<1>6. tid <= MaxTransitions
  <2>1. ~ (tid > MaxTransitions)
    BY DEF ProofLocals
  <2>2. tid \in Nat
    BY <1>3, <1>5 DEF Tids
  <2>. QED
    BY <2>1, <2>2, ConfigAssumption
<1>7. tid \in Tids
  BY <1>3, <1>5, <1>6, ConfigAssumption DEF Tids
<1>8. ts \in TransitionRecord
  <2>1. tid \in Nat
    BY <1>7 DEF Tids
  <2>2. NewTransition(s, id, tid, parentHash) \in TransitionRecord
    BY <2>1, <1>1, NewTransitionType
  <2>. QED
    BY <2>2, <1>2, <1>7
<1>9. StorageInv(fetched)
  <2>1. StorageInv(WithNewTransition(s, id, tid, parentHash))
    BY <1>1, <1>7, WithNewTransitionInv
  <2>. QED
    BY <2>1
<1>10. /\ p.slot = slot /\ p.tid = tid /\ p.sender = u /\ p.tierId = tierId /\ p.ts = ts
       /\ p.blockHash = blockHash /\ p.stateRoot = stateRoot /\ p.tier = TierConfig[tierId]
       /\ p.fetched = fetched
  BY DEF ProofLocals
<1>. HIDE DEF slot, tid, ts, fetched
<1>. QED
  BY <1>1, <1>7, <1>8, <1>9, <1>10 DEF ProofRecord

\* Handling the liveness bond leaves ids and cursors of the block alone.
LEMMA LivenessBondHandledInv ==
  ASSUME NEW s, StorageInv(s), NEW p, p.slot \in Slots
  PROVE  StorageInv(LivenessBondHandled(s, p))
<1>. DEFINE t == LivenessBondHandled(s, p)
            slot == p.slot
<1>1. s.blocks \in [Slots -> BlockRecord]
  BY DEF StorageInv, IsStorage
<1>2. /\ DOMAIN t = Fields
      /\ \A f \in Fields \ {"blocks"} : t[f] = s[f]
      /\ t.blocks = [s.blocks EXCEPT ![slot] =
                       [@ EXCEPT !.livenessBond = 0, !.livenessBondReturned = TRUE]]
  BY <1>1 DEF LivenessBondHandled, StorageInv, IsStorage, Fields
<1>. HIDE DEF t
<1>. DEFINE blk == [s.blocks[slot] EXCEPT !.livenessBond = 0, !.livenessBondReturned = TRUE]
<1>3. /\ blk \in BlockRecord /\ blk.blockId = s.blocks[slot].blockId
      /\ blk.nextTransitionId = s.blocks[slot].nextTransitionId
      /\ blk.verifiedTransitionId = s.blocks[slot].verifiedTransitionId
  BY <1>1 DEF BlockRecord
<1>4. t.blocks = [s.blocks EXCEPT ![slot] = blk]
  BY <1>2
<1>. HIDE DEF blk
<1>5. StorageInv(t)
  BY <1>1, <1>2, <1>3, <1>4, TouchBlockInv
<1>. QED
  BY <1>5 DEF t

\* The bond moves of _overrideWithHigherProof preserve the storage invariant.
LEMMA OverriddenInv ==
  ASSUME NEW s, StorageInv(s), NEW p, p.slot \in Slots
  PROVE  StorageInv(Overridden(s, p).s)
<1>1. StorageInv(ContestResolved(s, p).s)
  BY CreditInv DEF ContestResolved
<1>2. StorageInv(ProvedUncontested(s, p).s)
  <2>. DEFINE handled == IF p.livenessBond = 0 THEN s ELSE LivenessBondHandled(s, p)
  <2>1. StorageInv(handled)
    BY LivenessBondHandledInv
  <2>2. StorageInv(CreditBond(handled, p.assignedProver, p.livenessBond))
    BY <2>1, CreditInv
  <2>. HIDE DEF handled
  <2>3. ProvedUncontested(s, p).s
          \in {handled, CreditBond(handled, p.assignedProver, p.livenessBond)}
    BY DEF ProvedUncontested, handled
  <2>. QED
    BY <2>1, <2>2, <2>3
<1>. QED
  BY <1>1, <1>2 DEF Overridden

\* Writing one transition in place leaves everything else alone.
LEMMA WriteTransitionInv ==
  ASSUME NEW s, StorageInv(s), NEW slot \in Slots, NEW tid \in Tids,
         NEW ts \in TransitionRecord
  PROVE  StorageInv([s EXCEPT !.transitions[slot][tid] = ts])
<1>. DEFINE t == [s EXCEPT !.transitions[slot][tid] = ts]
<1>1. /\ DOMAIN t = Fields
      /\ \A f \in {"numBlocks", "lastVerifiedBlockId", "lastSyncedBlockId", "provingPaused",
                   "lastUnpausedAt", "blocks", "transitionIds"} : t[f] = s[f]
      /\ t.transitions = [s.transitions EXCEPT ![slot][tid] = ts]
  BY DEF StorageInv, IsStorage, Fields
<1>. HIDE DEF t
<1>2. StorageInv(t)
  BY <1>1, TouchTransitionInv
<1>. QED
  BY <1>2 DEF t

\* A proof of a higher tier preserves the storage invariant.
LEMMA OverrideInv ==
  ASSUME NEW s, StorageInv(s), NEW p, ProofRecord(p), ClockTypeOK
  PROVE  StorageInv(OverrideWithHigherProof(s, p))
<1>. DEFINE moved == Overridden(s, p)
            bond == p.tier.validityBond
            settled == IF moved.reward > bond
                       THEN CreditBond(moved.s, p.sender, moved.reward - bond)
                       ELSE DebitBond(moved.s, p.sender, bond - moved.reward)
            ts == [p.ts EXCEPT !.validityBond = bond, !.contester = NoAddr,
                               !.prover = p.sender, !.tier = p.tierId, !.timestamp = now,
                               !.blockHash = p.blockHash, !.stateRoot = p.stateRoot]
<1>1. StorageInv(moved.s)
  BY OverriddenInv DEF ProofRecord
<1>2. StorageInv(settled)
  BY <1>1, CreditInv, DebitInv
<1>3. bond \in Nat
  BY DomainAssumption DEF ProofRecord, TierRecord
<1>4. now \in Nat
  BY DEF ClockTypeOK
<1>. HIDE DEF bond
<1>5. ts \in TransitionRecord
  BY <1>3, <1>4 DEF ProofRecord, TransitionRecord
<1>6. OverrideWithHigherProof(s, p) = [settled EXCEPT !.transitions[p.slot][p.tid] = ts]
  BY Zenon DEF OverrideWithHigherProof, bond
<1>. HIDE DEF settled, ts
<1>. QED
  BY <1>2, <1>5, <1>6, WriteTransitionInv DEF ProofRecord

\* A second proof of the top tier preserves the storage invariant.
LEMMA ReprovedInv ==
  ASSUME NEW s, StorageInv(s), NEW p, ProofRecord(p), ClockTypeOK
  PROVE  StorageInv(Reproved(s, p))
<1>. DEFINE ts == [p.ts EXCEPT !.prover = p.sender, !.timestamp = now,
                               !.blockHash = p.blockHash, !.stateRoot = p.stateRoot]
<1>1. ts \in TransitionRecord
  BY DEF ClockTypeOK, ProofRecord, TransitionRecord
<1>2. Reproved(s, p) = [s EXCEPT !.transitions[p.slot][p.tid] = ts]
  BY Zenon DEF Reproved
<1>. HIDE DEF ts
<1>. QED
  BY <1>1, <1>2, WriteTransitionInv DEF ProofRecord

\* A contest preserves the storage invariant.
LEMMA ContestedInv ==
  ASSUME NEW s, StorageInv(s), NEW p, ProofRecord(p), ClockTypeOK
  PROVE  StorageInv(Contested(s, p))
<1>. DEFINE debited == DebitBond(s, p.sender, p.tier.contestBond)
            bond == p.tier.contestBond
            ts == [p.ts EXCEPT !.contestBond = bond, !.contester = p.sender,
                               !.timestamp = now]
            t == Contested(s, p)
            slot == p.slot
            tid == p.tid
<1>1. bond \in Nat
  BY DomainAssumption DEF ProofRecord, TierRecord
<1>2. StorageInv(debited)
  BY DebitInv
<1>. HIDE DEF bond
<1>3. ts \in TransitionRecord
  BY <1>1 DEF ClockTypeOK, ProofRecord, TransitionRecord
<1>. HIDE DEF debited, ts
<1>4. t = [debited EXCEPT !.transitions[slot][tid] = ts,
                          !.contests = @ \cup {<<p.id, p.tid, p.tierId>>}]
  BY Zenon DEF Contested, debited, ts, bond
<1>. HIDE DEF t
<1>5. /\ DOMAIN t = Fields
      /\ \A f \in {"numBlocks", "lastVerifiedBlockId", "lastSyncedBlockId", "provingPaused",
                   "lastUnpausedAt", "blocks", "transitionIds"} : t[f] = debited[f]
      /\ t.transitions = [debited.transitions EXCEPT ![slot][tid] = ts]
  BY <1>2, <1>4 DEF StorageInv, IsStorage, Fields
<1>6. slot \in Slots /\ tid \in Tids
  BY DEF ProofRecord
<1>7. StorageInv(t)
  BY <1>2, <1>3, <1>5, <1>6, TouchTransitionInv
<1>. QED
  BY <1>7 DEF t

\* So does whichever of the three a proof turns out to be.
LEMMA SettledInv ==
  ASSUME NEW s, StorageInv(s), NEW p, ProofRecord(p), ClockTypeOK, NEW t \in Settled(s, p)
  PROVE  StorageInv(t)
BY OverrideInv, ReprovedInv, ContestedInv DEF Settled

---------------------------------------------------------------------------
(* The initial states. *)

\* LibUtils.init leaves an intact ring.
LEMMA InitStateInv == StorageInv(InitState)
<1>. DEFINE t == InitState
<1>1. Slot(0) = 0 /\ 0 \in Slots
  BY ConfigAssumption DEF Slot, Slots
<1>2. GenesisBlock \in BlockRecord /\ GenesisBlock.blockId = 0
      /\ GenesisBlock.nextTransitionId = 2 /\ GenesisBlock.verifiedTransitionId = 1
  <2>1. EmptyBlock.blockId = 0 /\ OneHash \in Hash
    BY DEF EmptyBlock, OneHash, Hash
  <2>. QED
    BY <2>1, EmptyBlockType DEF GenesisBlock, BlockRecord
<1>3. EmptyTransition \in TransitionRecord /\ GenesisTransition \in TransitionRecord
  BY DEF GenesisTransition, EmptyTransition, TransitionRecord, ZeroHash, BlockHash, Hash
<1>4. /\ DOMAIN t = Fields
      /\ t.numBlocks = 1 /\ t.lastVerifiedBlockId = 0 /\ t.lastSyncedBlockId = 0
      /\ t.provingPaused \in BOOLEAN /\ t.lastUnpausedAt = 0
      /\ t.blocks = [slot \in Slots |-> IF slot = 0 THEN GenesisBlock ELSE EmptyBlock]
      /\ t.transitions = [slot \in Slots |-> [tid \in Tids |->
            IF slot = 0 /\ tid = 1 THEN GenesisTransition ELSE EmptyTransition]]
      /\ t.transitionIds = [k \in {} |-> 0]
  BY DEF InitState, Fields
<1>. HIDE DEF t
<1>5. IsStorage(t)
  <2>1. t.blocks \in [Slots -> BlockRecord]
    BY <1>2, <1>4, EmptyBlockType
  <2>2. t.transitions \in [Slots -> [Tids -> TransitionRecord]]
    BY <1>3, <1>4
  <2>3. DOMAIN t.transitionIds = {}
    BY <1>4
  <2>4. DOMAIN t.transitionIds \subseteq Nat \X Hash
    BY <2>3
  <2>5. \A k \in DOMAIN t.transitionIds : t.transitionIds[k] \in Tids
    BY <2>3
  <2>6. /\ DOMAIN t = Fields
        /\ t.numBlocks \in Nat /\ t.lastVerifiedBlockId \in Nat /\ t.lastSyncedBlockId \in Nat
        /\ t.provingPaused \in BOOLEAN /\ t.lastUnpausedAt \in Nat
    BY <1>4
  <2>. QED
    BY <2>1, <2>2, <2>4, <2>5, <2>6 DEF IsStorage
<1>6. RingOK(t)
  <2>1. t.lastVerifiedBlockId .. t.numBlocks - 1 = {0}
    BY <1>4
  <2>2. t.blocks[Slot(0)] = GenesisBlock
    BY <1>1, <1>4
  <2>. QED
    BY <1>2, <1>4, <2>1, <2>2, ConfigAssumption DEF RingOK
<1>. QED
  BY <1>5, <1>6 DEF StorageInv, t

\* doMigrate leaves an intact ring, also when it rewrites slot 0.
LEMMA MigratedStateInv == StorageInv(MigratedState)
<1>. DEFINE t == MigratedState
            slot == Slot(MigratedId)
            b0 == InitState.blocks[slot]
            blk == [b0 EXCEPT !.metaHash = OneHash, !.blockId = MigratedId,
                              !.proposedIn = MigratedId, !.verifiedTransitionId = 1,
                              !.nextTransitionId = 2]
            ts == [InitState.transitions[slot][1] EXCEPT !.blockHash = OneHash, !.stateRoot = 1]
<1>1. MigratedId \in Nat /\ slot \in Slots /\ 1 \in Tids
  BY SlotInRing, ConfigAssumption DEF Tids
<1>2. IsStorage(InitState)
  BY InitStateInv DEF StorageInv
<1>3. b0 \in BlockRecord /\ InitState.transitions[slot][1] \in TransitionRecord
  BY <1>1, <1>2 DEF IsStorage
<1>4. OneHash \in Hash
  BY DEF OneHash, Hash
<1>5. blk \in BlockRecord /\ blk.blockId = MigratedId /\ blk.nextTransitionId = 2
      /\ blk.verifiedTransitionId = 1
  <2>. HIDE DEF b0
  <2>. QED
    BY <1>1, <1>3, <1>4 DEF BlockRecord
<1>6. ts \in TransitionRecord
  BY <1>3, <1>4 DEF TransitionRecord
<1>7. /\ DOMAIN t = Fields
      /\ t.numBlocks = MigratedId + 1 /\ t.lastVerifiedBlockId = MigratedId
      /\ \A f \in {"lastSyncedBlockId", "provingPaused", "lastUnpausedAt", "transitionIds"} :
           t[f] = InitState[f]
      /\ t.blocks = [InitState.blocks EXCEPT ![slot] = blk]
      /\ t.transitions = [InitState.transitions EXCEPT ![slot][1] = ts]
  BY <1>2 DEF MigratedState, IsStorage, Fields
<1>. HIDE DEF t, blk, ts, slot
<1>8. IsStorage(t)
  BY <1>1, <1>2, <1>5, <1>6, <1>7 DEF IsStorage
<1>9. RingOK(t)
  <2>1. t.lastVerifiedBlockId .. t.numBlocks - 1 = {MigratedId}
    BY <1>1, <1>7
  <2>2. t.blocks[Slot(MigratedId)] = blk
    BY <1>1, <1>2, <1>7 DEF IsStorage, slot
  <2>. QED
    BY <1>1, <1>5, <1>7, <2>1, <2>2, ConfigAssumption DEF RingOK
<1>. QED
  BY <1>8, <1>9 DEF StorageInv, t

\* Every initial state, with or without migration, satisfies the invariant.
THEOREM InitInv == Init => IInv
<1>. SUFFICES ASSUME Init PROVE IInv
  OBVIOUS
<1>1. ClockTypeOK
  BY DomainAssumption DEF Init, ClockTypeOK
<1>2. StorageInv(state)
  <2>1. CASE MigratedId = 0
    BY <2>1, InitStateInv DEF Init
  <2>2. CASE MigratedId # 0
    <3>1. InitMigrate
      BY <2>2 DEF Init
    <3>2. PICK u \in Users, minTier \in MinTiers :
            \E s \in Proposed(MigratedState, u, BlockNumber - 1, now, minTier) :
              state \in AfterVerification(s, MigratedId + 1, FALSE)
      BY <3>1 DEF InitMigrate
    <3>3. u \in Accounts /\ minTier \in Tiers /\ BlockNumber - 1 \in Int /\ now \in Int
      BY <1>1, DomainAssumption, ConfigAssumption DEF Accounts, ClockTypeOK, BlockNumber
    <3>. QED
      BY <1>1, <3>2, <3>3, MigratedStateInv, ProposedInv, AfterVerificationInv
  <2>. QED
    BY <2>1, <2>2
<1>. QED
  BY <1>1, <1>2 DEF IInv

---------------------------------------------------------------------------
(* The actions. *)

\* Every proposing transaction preserves the storage invariant.
LEMMA ProposeInv ==
  ASSUME IInv, NEW u \in Users, NEW minTier \in MinTiers,
         ProposeBlock(u, minTier) \/ ProposeBlockV2(u, minTier) \/ ProposeBlocksV2(u, minTier)
  PROVE  StorageInv(state')
<1>1. u \in Accounts /\ minTier \in Tiers /\ BlockNumber \in Int /\ now \in Int
  BY DomainAssumption, ConfigAssumption DEF Accounts, IInv, ClockTypeOK, BlockNumber
<1>2. ASSUME NEW s, StorageInv(s), NEW anchorBlockId \in Int, NEW timestamp \in Int,
             NEW t \in Proposed(s, u, anchorBlockId, timestamp, minTier)
      PROVE  StorageInv(t)
  BY <1>1, <1>2, ProposedInv DEF IInv
<1>3. CASE ProposeBlock(u, minTier)
  <2>1. PICK s \in Proposed(state, u, BlockNumber - 1, now, minTier) :
          state' \in AfterVerification(s, state.numBlocks, FALSE)
    BY <1>3 DEF ProposeBlock
  <2>2. StorageInv(s)
    BY <1>1, <1>2, <2>1 DEF IInv
  <2>. QED
    BY <2>1, <2>2, AfterVerificationInv
<1>4. CASE ProposeBlockV2(u, minTier)
  <2>1. PICK anchorBlockId \in Anchors, timestamp \in Timestamps :
          \E s \in Proposed(state, u, anchorBlockId, timestamp, minTier) :
            state' \in AfterVerification(s, state.numBlocks, FALSE)
    BY <1>4 DEF ProposeBlockV2
  <2>2. anchorBlockId \in Int /\ timestamp \in Int
    BY <1>1, ConfigAssumption DEF Anchors, Timestamps
  <2>3. PICK s \in Proposed(state, u, anchorBlockId, timestamp, minTier) :
          state' \in AfterVerification(s, state.numBlocks, FALSE)
    BY <2>1
  <2>4. StorageInv(s)
    BY <1>2, <2>2, <2>3 DEF IInv
  <2>. QED
    BY <2>3, <2>4, AfterVerificationInv
<1>5. CASE ProposeBlocksV2(u, minTier)
  <2>1. PICK first \in Proposed(state, u, BlockNumber - 1, now, minTier) :
          \E second \in Proposed(first, u, BlockNumber - 1, now, minTier) :
            \E s \in AfterVerification(second, state.numBlocks, FALSE) :
              state' \in AfterVerification(s, state.numBlocks + 1, FALSE)
    BY <1>5 DEF ProposeBlocksV2
  <2>2. PICK second \in Proposed(first, u, BlockNumber - 1, now, minTier) :
          \E s \in AfterVerification(second, state.numBlocks, FALSE) :
            state' \in AfterVerification(s, state.numBlocks + 1, FALSE)
    BY <2>1
  <2>3. StorageInv(first)
    BY <1>1, <1>2, <2>1 DEF IInv
  <2>4. StorageInv(second)
    BY <1>1, <1>2, <2>2, <2>3
  <2>. QED
    BY <2>2, <2>4, AfterVerificationInv
<1>. QED
  BY <1>3, <1>4, <1>5

\* Every proving transaction preserves the storage invariant.
LEMMA ProveInv ==
  ASSUME IInv, NEW u \in Accounts, NEW id \in Provable, NEW parentHash \in Hash,
         NEW blockHash \in Hash, NEW stateRoot \in Nat, NEW tierId \in Tiers, NEW flag,
         ProveBlock(u, id, parentHash, blockHash, stateRoot, tierId, flag)
  PROVE  StorageInv(state')
<1>1. PICK p \in ProofLocals(state, u, id, parentHash, blockHash, stateRoot, tierId, flag) :
        \E s \in Settled(p.fetched, p) : state' \in AfterVerification(s, id, TRUE)
  BY DEF ProveBlock
<1>2. ProofRecord(p) /\ StorageInv(p.fetched)
  BY <1>1, ProofLocalsInv DEF IInv, Provable
<1>3. PICK s \in Settled(p.fetched, p) : state' \in AfterVerification(s, id, TRUE)
  BY <1>1
<1>4. StorageInv(s)
  BY <1>2, <1>3, SettledInv DEF IInv
<1>. QED
  BY <1>3, <1>4, AfterVerificationInv

\* What Prove chooses is in the types ProveInv asks for.
LEMMA ProofInputs ==
  ASSUME IInv, NEW id \in Provable
  PROVE  /\ \A v \in Variants : BlockHash(id, v) \in Hash
         /\ ParentHashes(id) \subseteq Hash
         /\ ClaimedRoots(id) \subseteq Nat
<1>1. id \in Nat /\ id - 1 \in Nat
  BY DEF IInv, StorageInv, IsStorage, Provable
<1>2. Variants \subseteq Nat /\ StateRoots \subseteq Nat
  BY DomainAssumption
<1>. QED
  BY <1>1, <1>2 DEF BlockHash, ParentHashes, OneHash, MetaHash, ClaimedRoots, Hash

\* Every transaction preserves the invariant.
LEMMA NextInv == IInv /\ [Next]_vars => IInv'
<1>. SUFFICES ASSUME IInv, [Next]_vars PROVE IInv'
  OBVIOUS
<1>1. CASE Propose
  <2>1. PICK u \in Users, minTier \in MinTiers :
          ProposeBlock(u, minTier) \/ ProposeBlockV2(u, minTier) \/ ProposeBlocksV2(u, minTier)
    BY <1>1 DEF Propose
  <2>2. StorageInv(state')
    BY <2>1, ProposeInv
  <2>3. UNCHANGED <<paused, now, openSince>>
    BY <2>1 DEF ProposeBlock, ProposeBlockV2, ProposeBlocksV2
  <2>. QED
    BY <2>2, <2>3 DEF IInv, ClockTypeOK, StorageInv, IsStorage, RingOK
<1>2. CASE Prove
  <2>1. PICK id \in Provable, tierId \in Tiers :
          \E u \in ProversOf(tierId), flag \in ReturnFlags(tierId),
             parentHash \in ParentHashes(id), v \in Variants, stateRoot \in ClaimedRoots(id) :
            ProveBlock(u, id, parentHash, BlockHash(id, v), stateRoot, tierId, flag)
    BY <1>2 DEF Prove
  <2>2. PICK u \in ProversOf(tierId), flag \in ReturnFlags(tierId),
             parentHash \in ParentHashes(id), v \in Variants, stateRoot \in ClaimedRoots(id) :
          ProveBlock(u, id, parentHash, BlockHash(id, v), stateRoot, tierId, flag)
    BY <2>1
  <2>3. u \in Accounts
    BY DEF ProversOf, Accounts
  <2>4. parentHash \in Hash /\ BlockHash(id, v) \in Hash /\ stateRoot \in Nat
    BY ProofInputs
  <2>5. StorageInv(state')
    BY <2>2, <2>3, <2>4, ProveInv
  <2>6. UNCHANGED <<paused, now, openSince>>
    BY <2>2 DEF ProveBlock
  <2>. QED
    BY <2>5, <2>6 DEF IInv, ClockTypeOK, StorageInv, IsStorage, RingOK
<1>3. ASSUME NEW max \in 0 .. MaxBlockId, VerifyBlocks(max) PROVE IInv'
  <2>1. max \in Nat
    BY ConfigAssumption
  <2>2. StorageInv(state')
    BY <1>3, <2>1, VerifyInv DEF VerifyBlocks, IInv
  <2>. QED
    BY <1>3, <2>2 DEF VerifyBlocks, IInv, ClockTypeOK, StorageInv, IsStorage, RingOK
<1>4. ASSUME NEW pause \in BOOLEAN, PauseProving(pause) PROVE IInv'
  <2>1. /\ DOMAIN state' = Fields
        /\ \A f \in Fields \ {"provingPaused", "lastUnpausedAt"} : state'[f] = state[f]
        /\ state'.provingPaused \in BOOLEAN /\ state'.lastUnpausedAt \in Nat
    BY <1>4 DEF PauseProving, IInv, StorageInv, IsStorage, ClockTypeOK, Fields
  <2>2. ClockTypeOK'
    BY <1>4 DEF PauseProving, IInv, ClockTypeOK
  <2>3. IsStorage(state')
    BY <2>1 DEF IInv, StorageInv, IsStorage, Fields
  <2>4. RingOK(state')
    BY <2>1 DEF IInv, StorageInv, RingOK, Fields
  <2>. QED
    BY <2>2, <2>3, <2>4 DEF IInv, StorageInv, IsStorage, RingOK
<1>5. CASE Pause
  BY <1>5 DEF Pause, IInv, ClockTypeOK, StorageInv, IsStorage, RingOK
<1>6. CASE Unpause
  <2>1. /\ DOMAIN state' = Fields
        /\ \A f \in Fields \ {"lastUnpausedAt"} : state'[f] = state[f]
        /\ state'.lastUnpausedAt \in Nat
    BY <1>6 DEF Unpause, IInv, StorageInv, IsStorage, ClockTypeOK, Fields
  <2>2. ClockTypeOK'
    BY <1>6 DEF Unpause, IInv, ClockTypeOK
  <2>3. IsStorage(state')
    BY <2>1 DEF IInv, StorageInv, IsStorage, Fields
  <2>4. RingOK(state')
    BY <2>1 DEF IInv, StorageInv, RingOK, Fields
  <2>. QED
    BY <2>2, <2>3, <2>4 DEF IInv, StorageInv, IsStorage, RingOK
<1>7. ASSUME NEW u \in Users, NEW amount \in BondAmounts,
             DepositBond(u, amount) \/ WithdrawBond(u, amount)
      PROVE  IInv'
  <2>1. SameRing(state, state')
    BY <1>7 DEF DepositBond, WithdrawBond, SameRing, IInv, StorageInv, IsStorage, Fields
  <2>2. StorageInv(state')
    BY <2>1, SameRingInv DEF IInv
  <2>3. UNCHANGED <<paused, now, openSince>>
    BY <1>7 DEF DepositBond, WithdrawBond
  <2>. QED
    BY <2>2, <2>3 DEF IInv, ClockTypeOK, StorageInv, IsStorage, RingOK
<1>8. CASE Tick
  BY <1>8 DEF Tick, IInv, ClockTypeOK, StorageInv, IsStorage, RingOK
<1>9. CASE UNCHANGED vars
  BY <1>9 DEF vars, IInv, ClockTypeOK, StorageInv, IsStorage, RingOK
<1>. QED
  BY <1>1, <1>2, <1>3, <1>4, <1>5, <1>6, <1>7, <1>8, <1>9 DEF Next

\* The inductive invariant holds in every reachable state.
LEMMA IInvHolds == Spec => []IInv
BY InitInv, NextInv, PTL DEF Spec

\* The storage of TaikoL1 keeps its type.
THEOREM StorageTypeCorrect == Spec => []StorageTypeOK
<1>1. IInv => StorageTypeOK
  BY DEF IInv, StorageInv, StorageTypeOK
<1>. QED
  BY <1>1, IInvHolds, PTL

\* The ring holds the last verified block, with the transition that verified
\* it, and every block after it: no proposal overwrites a block in use.
THEOREM RingStaysIntact == Spec => []RingIntact
<1>1. IInv => RingIntact
  BY DEF IInv, StorageInv, RingIntact
<1>. QED
  BY <1>1, IInvHolds, PTL

---------------------------------------------------------------------------
(* Hashes, transitions, contests and verified blocks: what the storage     *)
(* holds beside an intact ring.                                            *)

\* The ring holds the metadata hash 1 for the migrated block only.
MetaOK(s) ==
  \A id \in s.lastVerifiedBlockId .. s.numBlocks - 1 :
    s.blocks[Slot(id)].metaHash = OneHash => id = MigratedId

\* A transition is found by the parent it was created for: the first of a block by its
\* key, the others by transitionIds.  Every one has been proven.
LinkOK(s) ==
  /\ \A slot \in Slots : s.transitions[slot][1].key = s.transitions[slot][1].parentHash
  /\ \A k \in DOMAIN s.transitionIds :
       /\ k[1] < s.numBlocks
       /\ k[1] > s.lastVerifiedBlockId =>
            /\ s.transitionIds[k] < s.blocks[Slot(k[1])].nextTransitionId
            /\ s.transitions[Slot(k[1])][s.transitionIds[k]].parentHash = k[2]
  /\ \A id \in s.lastVerifiedBlockId + 1 .. s.numBlocks - 1, tid \in Tids :
       tid < s.blocks[Slot(id)].nextTransitionId => s.transitions[Slot(id)][tid].tier \in Tiers

\* A transition of an unverified block is of a higher tier than the contests it was
\* settled from, or is still contested.
ContestOK(s) ==
  /\ s.contests \subseteq Nat \X Tids \X Tiers
  /\ \A c \in s.contests :
       /\ c[1] < s.numBlocks
       /\ c[1] > s.lastVerifiedBlockId =>
            LET ts == s.transitions[Slot(c[1])][c[2]]
            IN  /\ c[2] < s.blocks[Slot(c[1])].nextTransitionId
                /\ c[3] < ts.tier \/ (c[3] = ts.tier /\ ts.contester # NoAddr)

\* The verified blocks, the last of them as verification finds it in the ring.
ChainOK(s) ==
  /\ MigratedId <= s.lastVerifiedBlockId
  /\ s.chain \in [MigratedId .. s.lastVerifiedBlockId -> ChainRecord]
  /\ s.chain[s.lastVerifiedBlockId].blockHash = VerifiedHash(s)
  /\ s.chain[MigratedId].proofless
  /\ \A id \in MigratedId .. s.lastVerifiedBlockId : s.chain[id].proofless => id <= MigratedId + 1
  /\ \A id \in (MigratedId .. s.lastVerifiedBlockId) \ {MigratedId, OntakeForkHeight + 2} :
       ~s.chain[id - 1].proofless => s.chain[id].parentHash = s.chain[id - 1].blockHash
  /\ \A id \in MigratedId .. s.lastVerifiedBlockId : ~s.chain[id].proofless =>
       \A c \in s.contests : c[1] = id /\ c[2] = s.chain[id].tid => c[3] < s.chain[id].tier

\* The state roots sent so far are those of verified blocks.
SyncOK(s) ==
  /\ s.lastSyncedBlockId <= s.lastVerifiedBlockId
  /\ DOMAIN s.syncedRoots \subseteq MigratedId .. s.lastVerifiedBlockId
  /\ \A id \in DOMAIN s.syncedRoots :
       /\ s.syncedRoots[id] = s.chain[id].stateRoot
       /\ ShouldSyncStateRoot(id) /\ id <= s.lastSyncedBlockId
  /\ DOMAIN s.syncedRoots # {} => s.lastSyncedBlockId \in DOMAIN s.syncedRoots

HistoryInv(s) == MetaOK(s) /\ LinkOK(s) /\ ContestOK(s) /\ ChainOK(s) /\ SyncOK(s)

\* Two storages that differ at most in tokens and in bonds of blocks.
SameHistory(s, t) ==
  /\ \A f \in {"numBlocks", "lastVerifiedBlockId", "lastSyncedBlockId", "provingPaused",
               "lastUnpausedAt", "transitions", "transitionIds", "syncedRoots", "chain",
               "contests"} : t[f] = s[f]
  /\ \A slot \in Slots :
       \A f \in {"metaHash", "blockId", "nextTransitionId", "verifiedTransitionId"} :
         t.blocks[slot][f] = s.blocks[slot][f]

\* The blocks in use have slots of their own.
LEMMA RingSlots ==
  ASSUME NEW s, StorageInv(s),
         NEW a \in s.lastVerifiedBlockId .. s.numBlocks - 1,
         NEW b \in s.lastVerifiedBlockId .. s.numBlocks - 1
  PROVE  /\ a \in Nat /\ Slot(a) \in Slots
         /\ Slot(a) = Slot(b) => a = b
<1>1. /\ s.lastVerifiedBlockId \in Nat /\ s.numBlocks \in Nat
      /\ s.numBlocks <= s.lastVerifiedBlockId + BlockRingBufferSize
  BY ConfigAssumption DEF StorageInv, IsStorage, RingOK
<1>2. a \in Nat /\ b \in Nat /\ a < b + BlockRingBufferSize /\ b < a + BlockRingBufferSize
  BY <1>1, ConfigAssumption
<1>3. Slot(a) \in Slots
  BY <1>2, SlotInRing
<1>4. CASE a < b
  BY <1>2, <1>3, <1>4, SlotsDiffer
<1>5. CASE b < a
  BY <1>2, <1>3, <1>5, SlotsDiffer
<1>. QED
  BY <1>2, <1>3, <1>4, <1>5

\* What leaves the history alone preserves what is said about it.
LEMMA SameHistoryInv ==
  ASSUME NEW s, NEW t, StorageInv(s), HistoryInv(s), SameHistory(s, t)
  PROVE  HistoryInv(t)
<1>1. /\ t.numBlocks = s.numBlocks /\ t.lastVerifiedBlockId = s.lastVerifiedBlockId
      /\ t.lastSyncedBlockId = s.lastSyncedBlockId /\ t.transitions = s.transitions
      /\ t.transitionIds = s.transitionIds /\ t.syncedRoots = s.syncedRoots
      /\ t.chain = s.chain /\ t.contests = s.contests
  BY DEF SameHistory
<1>2. ASSUME NEW slot \in Slots
      PROVE  /\ t.blocks[slot].metaHash = s.blocks[slot].metaHash
             /\ t.blocks[slot].nextTransitionId = s.blocks[slot].nextTransitionId
             /\ t.blocks[slot].verifiedTransitionId = s.blocks[slot].verifiedTransitionId
  BY DEF SameHistory
<1>3. s.lastVerifiedBlockId \in Nat /\ s.numBlocks \in Nat
      /\ DOMAIN s.transitionIds \subseteq Nat \X Hash
  BY DEF StorageInv, IsStorage
<1>4. MetaOK(t)
  BY <1>1, <1>2, <1>3, SlotInRing DEF HistoryInv, MetaOK
<1>5. LinkOK(t)
  BY <1>1, <1>2, <1>3, SlotInRing DEF HistoryInv, LinkOK
<1>6. ContestOK(t)
  BY <1>1, <1>2, <1>3, SlotInRing DEF HistoryInv, ContestOK
<1>7. ChainOK(t)
  <2>1. VerifiedHash(t) = VerifiedHash(s)
    BY <1>1, <1>2, <1>3, SlotInRing DEF VerifiedHash
  <2>. QED
    BY <1>1, <2>1 DEF HistoryInv, ChainOK
<1>8. SyncOK(t)
  BY <1>1 DEF HistoryInv, SyncOK
<1>. QED
  BY <1>4, <1>5, <1>6, <1>7, <1>8 DEF HistoryInv

\* debitBond leaves the history alone.
LEMMA DebitHistory ==
  ASSUME NEW s, NEW u, NEW amount, DOMAIN s = Fields
  PROVE  SameHistory(s, DebitBond(s, u, amount))
BY DEF SameHistory, DebitBond, Fields

\* So does creditBond.
LEMMA CreditHistory ==
  ASSUME NEW s, NEW u, NEW amount, DOMAIN s = Fields
  PROVE  SameHistory(s, CreditBond(s, u, amount))
BY DEF SameHistory, CreditBond, Fields

\* Handling a liveness bond touches nothing of the past.
LEMMA LivenessBondHistory ==
  ASSUME NEW s, StorageInv(s), NEW p, p.slot \in Slots
  PROVE  SameHistory(s, LivenessBondHandled(s, p))
<1>. DEFINE t == LivenessBondHandled(s, p)
            slot == p.slot
<1>1. s.blocks \in [Slots -> BlockRecord]
  BY DEF StorageInv, IsStorage
<1>2. /\ \A f \in Fields \ {"blocks"} : t[f] = s[f]
      /\ t.blocks = [s.blocks EXCEPT ![slot] =
                       [@ EXCEPT !.livenessBond = 0, !.livenessBondReturned = TRUE]]
  BY <1>1 DEF LivenessBondHandled, StorageInv, IsStorage, Fields
<1>. HIDE DEF t
<1>3. ASSUME NEW i \in Slots, NEW f \in {"metaHash", "blockId", "nextTransitionId",
                                         "verifiedTransitionId"}
      PROVE  t.blocks[i][f] = s.blocks[i][f]
  <2>1. s.blocks[i] \in BlockRecord
    BY <1>1
  <2>2. t.blocks[i] \in {s.blocks[i], [s.blocks[i] EXCEPT !.livenessBond = 0,
                                                         !.livenessBondReturned = TRUE]}
    BY <1>1, <1>2
  <2>3. \A blk \in BlockRecord :
          [blk EXCEPT !.livenessBond = 0, !.livenessBondReturned = TRUE][f] = blk[f]
    BY DEF BlockRecord
  <2>. QED
    BY <2>1, <2>2, <2>3
<1>4. SameHistory(s, t)
  BY <1>2, <1>3 DEF SameHistory, Fields
<1>. QED
  BY <1>4 DEF t

\* One bond move after another leaves the history alone.
LEMMA SameHistoryTwice ==
  ASSUME NEW r, NEW s, NEW t, SameHistory(r, s), SameHistory(s, t)
  PROVE  SameHistory(r, t)
BY DEF SameHistory

\* The bond moves of _overrideWithHigherProof leave the history alone.
LEMMA OverriddenHistory ==
  ASSUME NEW s, StorageInv(s), NEW p, p.slot \in Slots
  PROVE  SameHistory(s, Overridden(s, p).s)
<1>0. DOMAIN s = Fields /\ SameHistory(s, s)
  BY DEF StorageInv, IsStorage, SameHistory
<1>1. SameHistory(s, ContestResolved(s, p).s)
  BY <1>0, CreditHistory DEF ContestResolved
<1>2. SameHistory(s, ProvedUncontested(s, p).s)
  <2>. DEFINE handled == IF p.livenessBond = 0 THEN s ELSE LivenessBondHandled(s, p)
  <2>1. SameHistory(s, handled) /\ DOMAIN handled = Fields
    BY <1>0, LivenessBondHistory, LivenessBondHandledInv DEF StorageInv, IsStorage
  <2>. HIDE DEF handled
  <2>2. SameHistory(s, CreditBond(handled, p.assignedProver, p.livenessBond))
    BY <2>1, CreditHistory, SameHistoryTwice
  <2>3. ProvedUncontested(s, p).s
          \in {handled, CreditBond(handled, p.assignedProver, p.livenessBond)}
    BY DEF ProvedUncontested, handled
  <2>. QED
    BY <2>1, <2>2, <2>3
<1>. QED
  BY <1>1, <1>2 DEF Overridden

---------------------------------------------------------------------------
(* A proof writes one transition. *)

\* A proof writes the transition `tid` of the block `id`: one that exists, with a tier
\* that rises or the contester that it gets, or the next one.
Written(s, t, id, tid, ts) ==
  LET slot == Slot(id)
      next == s.blocks[slot].nextTransitionId
      old == s.transitions[slot][tid]
      key == <<id, ts.parentHash>>
  IN  /\ \A f \in {"numBlocks", "lastVerifiedBlockId", "lastSyncedBlockId", "provingPaused",
                   "lastUnpausedAt", "syncedRoots", "chain"} : t[f] = s[f]
      /\ \A i \in Slots : \A f \in {"metaHash", "verifiedTransitionId"} :
           t.blocks[i][f] = s.blocks[i][f]
      /\ \A i \in Slots \ {slot} :
           t.blocks[i].nextTransitionId = s.blocks[i].nextTransitionId
      /\ t.blocks[slot].nextTransitionId = IF tid = next THEN next + 1 ELSE next
      /\ t.transitions = [s.transitions EXCEPT ![slot][tid] = ts]
      /\ t.contests = s.contests \cup (IF ts.contester = NoAddr THEN {} ELSE {<<id, tid, ts.tier>>})
      /\ tid <= next /\ ts.tier \in Tiers
      /\ tid = next =>
           /\ tid = 1 => ts.key = ts.parentHash
           /\ t.transitionIds = IF tid = 1 THEN s.transitionIds
                ELSE [k \in DOMAIN s.transitionIds \cup {key} |->
                        IF k = key THEN tid ELSE s.transitionIds[k]]
      /\ tid # next =>
           /\ ts.key = old.key /\ ts.parentHash = old.parentHash
           /\ t.transitionIds = s.transitionIds
           /\ old.tier < ts.tier \/ (old.tier = ts.tier /\ old.contester = NoAddr)

\* What a proof writes preserves the history.
LEMMA WrittenInv ==
  ASSUME NEW s, StorageInv(s), HistoryInv(s), NEW t,
         NEW id \in s.lastVerifiedBlockId + 1 .. s.numBlocks - 1, NEW tid \in Tids,
         NEW ts \in TransitionRecord, Written(s, t, id, tid, ts)
  PROVE  HistoryInv(t)
<1>. DEFINE slot == Slot(id)
            next == s.blocks[slot].nextTransitionId
            old == s.transitions[slot][tid]
            key == <<id, ts.parentHash>>
            used == s.lastVerifiedBlockId .. s.numBlocks - 1
<1>1. /\ s.lastVerifiedBlockId \in Nat /\ s.numBlocks \in Nat /\ id \in Nat
      /\ id > s.lastVerifiedBlockId /\ id < s.numBlocks
      /\ s.lastVerifiedBlockId \in used /\ id \in used /\ used \subseteq Nat
      /\ s.transitions \in [Slots -> [Tids -> TransitionRecord]]
      /\ DOMAIN s.transitionIds \subseteq Nat \X Hash
      /\ \A k \in DOMAIN s.transitionIds : s.transitionIds[k] \in Tids
      /\ Tids \subseteq Nat /\ Tiers \subseteq Nat
  BY DomainAssumption DEF StorageInv, IsStorage, RingOK, Tids
<1>2. slot \in Slots /\ next \in Nat
  BY <1>1, SlotInRing DEF StorageInv, IsStorage, BlockRecord
<1>3. \A i \in used : Slot(i) \in Slots /\ (i # id => Slot(i) # slot)
  BY <1>1, RingSlots
<1>4. /\ t.numBlocks = s.numBlocks /\ t.lastVerifiedBlockId = s.lastVerifiedBlockId
      /\ t.lastSyncedBlockId = s.lastSyncedBlockId /\ t.syncedRoots = s.syncedRoots
      /\ t.chain = s.chain
      /\ t.blocks[slot].nextTransitionId = IF tid = next THEN next + 1 ELSE next
      /\ t.transitions = [s.transitions EXCEPT ![slot][tid] = ts]
      /\ t.contests = s.contests \cup (IF ts.contester = NoAddr THEN {} ELSE {<<id, tid, ts.tier>>})
      /\ tid <= next /\ ts.tier \in Tiers
  BY DEF Written
<1>5. /\ tid = next =>
           /\ tid = 1 => ts.key = ts.parentHash
           /\ t.transitionIds = IF tid = 1 THEN s.transitionIds
                ELSE [k \in DOMAIN s.transitionIds \cup {key} |->
                        IF k = key THEN tid ELSE s.transitionIds[k]]
      /\ tid # next =>
           /\ ts.key = old.key /\ ts.parentHash = old.parentHash
           /\ t.transitionIds = s.transitionIds
           /\ old.tier < ts.tier \/ (old.tier = ts.tier /\ old.contester = NoAddr)
  BY DEF Written
<1>6. \A i \in Slots : /\ t.blocks[i].metaHash = s.blocks[i].metaHash
                       /\ t.blocks[i].verifiedTransitionId = s.blocks[i].verifiedTransitionId
  BY DEF Written
<1>7. \A i \in Slots \ {slot} : /\ t.blocks[i].nextTransitionId = s.blocks[i].nextTransitionId
                                /\ t.transitions[i] = s.transitions[i]
  BY <1>1, <1>4 DEF Written
<1>8. /\ t.transitions[slot][tid] = ts
      /\ \A j \in Tids \ {tid} : t.transitions[slot][j] = s.transitions[slot][j]
  BY <1>1, <1>2, <1>4
<1>9. \A i \in used : /\ i # id => t.blocks[Slot(i)].nextTransitionId = s.blocks[Slot(i)].nextTransitionId
                      /\ i # id => t.transitions[Slot(i)] = s.transitions[Slot(i)]
  BY <1>3, <1>7
<1>10. key \in Nat \X Hash /\ key[1] = id /\ key[2] = ts.parentHash
  BY <1>1 DEF TransitionRecord
<1>. HIDE DEF slot, next, old, key, used
<1>11. /\ tid < t.blocks[slot].nextTransitionId
       /\ \A j \in Nat : j < next => j < t.blocks[slot].nextTransitionId
  <2>1. tid \in Nat /\ next \in Nat /\ tid <= next
    BY <1>1, <1>2, <1>4
  <2>2. t.blocks[slot].nextTransitionId = IF tid = next THEN next + 1 ELSE next
    BY <1>4
  <2>. QED
    BY <2>1, <2>2
<1>12. MetaOK(t)
  BY <1>3, <1>4, <1>6 DEF HistoryInv, MetaOK, used
<1>13. LinkOK(t)
  <2>1. \A i \in Slots : t.transitions[i][1].key = t.transitions[i][1].parentHash
    <3>. TAKE i \in Slots
    <3>1. s.transitions[i][1].key = s.transitions[i][1].parentHash
      BY DEF HistoryInv, LinkOK
    <3>2. CASE i # slot
      BY <1>7, <3>1, <3>2
    <3>3. CASE i = slot /\ tid # 1
      <4>1. 1 \in Tids
        BY ConfigAssumption DEF Tids
      <4>. QED
        BY <1>8, <3>1, <3>3, <4>1
    <3>4. CASE i = slot /\ tid = 1
      BY <1>5, <1>8, <3>1, <3>4 DEF old
    <3>. QED
      BY <3>2, <3>3, <3>4
  <2>2. ASSUME NEW k \in DOMAIN t.transitionIds
        PROVE  /\ k[1] < t.numBlocks
               /\ k[1] > t.lastVerifiedBlockId =>
                    /\ t.transitionIds[k] < t.blocks[Slot(k[1])].nextTransitionId
                    /\ t.transitions[Slot(k[1])][t.transitionIds[k]].parentHash = k[2]
    <3>1. CASE k \in DOMAIN s.transitionIds /\ t.transitionIds[k] = s.transitionIds[k]
      <4>. DEFINE j == s.transitionIds[k]
      <4>1. j \in Tids /\ k[1] \in Nat
        BY <1>1, <3>1
      <4>2. /\ k[1] < s.numBlocks
            /\ k[1] > s.lastVerifiedBlockId =>
                 /\ j < s.blocks[Slot(k[1])].nextTransitionId
                 /\ s.transitions[Slot(k[1])][j].parentHash = k[2]
        BY <3>1 DEF HistoryInv, LinkOK
      <4>. HIDE DEF j
      <4>3. k[1] < t.numBlocks
        BY <1>4, <4>2
      <4>4. ASSUME k[1] > s.lastVerifiedBlockId
            PROVE  /\ j < t.blocks[Slot(k[1])].nextTransitionId
                   /\ t.transitions[Slot(k[1])][j].parentHash = k[2]
        <5>1. k[1] \in used
          BY <1>1, <4>1, <4>2, <4>4 DEF used
        <5>2. CASE k[1] # id
          BY <1>9, <4>2, <4>4, <5>1, <5>2
        <5>3. CASE k[1] = id
          <6>1. j < next /\ s.transitions[slot][j].parentHash = k[2]
            BY <4>2, <4>4, <5>3 DEF next, slot
          <6>2. j < t.blocks[slot].nextTransitionId
            BY <1>1, <1>2, <1>4, <4>1, <6>1
          <6>3. t.transitions[slot][j].parentHash = k[2]
            <7>1. CASE j # tid
              BY <1>8, <4>1, <6>1, <7>1
            <7>2. CASE j = tid
              <8>1. tid # next
                BY <1>1, <1>2, <6>1, <7>2
              <8>. QED
                BY <1>5, <1>8, <6>1, <7>2, <8>1 DEF old
            <7>. QED
              BY <7>1, <7>2
          <6>. QED
            BY <5>3, <6>2, <6>3 DEF slot
        <5>. QED
          BY <5>2, <5>3
      <4>. QED
        BY <1>4, <3>1, <4>3, <4>4 DEF j
    <3>2. CASE tid = next /\ k = key /\ t.transitionIds[k] = tid
      <4>1. k[1] = id /\ k[2] = ts.parentHash
        BY <1>10, <3>2
      <4>2. tid < t.blocks[slot].nextTransitionId
        BY <1>2, <1>4, <3>2
      <4>3. t.transitions[slot][tid].parentHash = ts.parentHash
        BY <1>8
      <4>. QED
        BY <1>1, <1>4, <3>2, <4>1, <4>2, <4>3 DEF slot
    <3>3. \/ k \in DOMAIN s.transitionIds /\ t.transitionIds[k] = s.transitionIds[k]
          \/ tid = next /\ k = key /\ t.transitionIds[k] = tid
      <4>1. CASE tid = next /\ tid # 1
        BY <1>5, <4>1
      <4>2. CASE ~(tid = next /\ tid # 1)
        BY <1>5, <4>2
      <4>. QED
        BY <4>1, <4>2
    <3>. QED
      BY <3>1, <3>2, <3>3
  <2>3. ASSUME NEW i \in t.lastVerifiedBlockId + 1 .. t.numBlocks - 1, NEW j \in Tids,
               j < t.blocks[Slot(i)].nextTransitionId
        PROVE  t.transitions[Slot(i)][j].tier \in Tiers
    <3>1. i \in used /\ i \in s.lastVerifiedBlockId + 1 .. s.numBlocks - 1
      BY <1>1, <1>4 DEF used
    <3>2. j < s.blocks[Slot(i)].nextTransitionId => s.transitions[Slot(i)][j].tier \in Tiers
      BY <3>1 DEF HistoryInv, LinkOK
    <3>3. CASE i # id
      BY <1>9, <2>3, <3>1, <3>2, <3>3
    <3>4. CASE i = id /\ j = tid
      BY <1>4, <1>8, <3>4 DEF slot
    <3>5. CASE i = id /\ j # tid
      <4>1. j < next
        BY <1>1, <1>2, <1>4, <2>3, <3>5 DEF slot
      <4>. QED
        BY <1>8, <3>2, <3>5, <4>1 DEF slot, next
    <3>. QED
      BY <3>3, <3>4, <3>5
  <2>. QED
    BY <2>1, <2>2, <2>3 DEF LinkOK
<1>14. ContestOK(t)
  <2>0. s.contests \subseteq Nat \X Tids \X Tiers
    BY DEF HistoryInv, ContestOK
  <2>1. t.contests \subseteq Nat \X Tids \X Tiers
    BY <1>1, <1>4, <2>0
  <2>2. ASSUME NEW c \in t.contests
        PROVE  /\ c[1] < t.numBlocks
               /\ c[1] > t.lastVerifiedBlockId =>
                    LET ts1 == t.transitions[Slot(c[1])][c[2]]
                    IN  /\ c[2] < t.blocks[Slot(c[1])].nextTransitionId
                        /\ c[3] < ts1.tier \/ (c[3] = ts1.tier /\ ts1.contester # NoAddr)
    <3>1. CASE c \in s.contests
      <4>1. /\ c[1] < s.numBlocks
            /\ c[1] > s.lastVerifiedBlockId =>
                 /\ c[2] < s.blocks[Slot(c[1])].nextTransitionId
                 /\ \/ c[3] < s.transitions[Slot(c[1])][c[2]].tier
                    \/ /\ c[3] = s.transitions[Slot(c[1])][c[2]].tier
                       /\ s.transitions[Slot(c[1])][c[2]].contester # NoAddr
        BY <3>1 DEF HistoryInv, ContestOK
      <4>2. c[1] \in Nat /\ c[2] \in Tids /\ c[3] \in Tiers
        BY <2>0, <3>1
      <4>3. ASSUME c[1] > s.lastVerifiedBlockId
            PROVE  /\ c[2] < t.blocks[Slot(c[1])].nextTransitionId
                   /\ \/ c[3] < t.transitions[Slot(c[1])][c[2]].tier
                      \/ /\ c[3] = t.transitions[Slot(c[1])][c[2]].tier
                         /\ t.transitions[Slot(c[1])][c[2]].contester # NoAddr
        <5>1. c[1] \in used
          BY <1>1, <4>1, <4>2, <4>3 DEF used
        <5>2. CASE c[1] # id
          BY <1>9, <4>1, <4>3, <5>1, <5>2
        <5>3. CASE c[1] = id
          <6>1. /\ c[2] < next
                /\ \/ c[3] < s.transitions[slot][c[2]].tier
                   \/ /\ c[3] = s.transitions[slot][c[2]].tier
                      /\ s.transitions[slot][c[2]].contester # NoAddr
            BY <4>1, <4>3, <5>3 DEF next, slot
          <6>2. c[2] < t.blocks[slot].nextTransitionId
            <7>1. \A j \in Nat : j < next => j < t.blocks[slot].nextTransitionId
              BY <1>11
            <7>2. c[2] \in Nat
              BY <1>1, <4>2
            <7>. QED
              BY <6>1, <7>1, <7>2
          <6>3. CASE c[2] # tid
            BY <1>8, <4>2, <5>3, <6>1, <6>2, <6>3 DEF slot
          <6>4. CASE c[2] = tid
            <7>1. /\ tid # next
                  /\ old.tier < ts.tier \/ (old.tier = ts.tier /\ old.contester = NoAddr)
              BY <1>1, <1>2, <1>5, <6>1, <6>4
            <7>2. c[3] < old.tier \/ (c[3] = old.tier /\ old.contester # NoAddr)
              BY <6>1, <6>4 DEF old
            <7>3. old.tier \in Nat /\ ts.tier \in Nat /\ c[3] \in Nat
              <8>1. old \in TransitionRecord
                BY <1>1, <1>2 DEF old
              <8>2. c[3] \in Nat
                BY <1>1, <4>2
              <8>3. old.tier \in Tiers \cup {0} /\ ts.tier \in Tiers \cup {0}
                BY <8>1 DEF TransitionRecord
              <8>4. old.tier \in Nat /\ ts.tier \in Nat
                <9>1. Tiers \cup {0} \subseteq Nat
                  BY <1>1
                <9>. QED
                  BY <8>3, <9>1
              <8>. QED
                BY <8>2, <8>4
            <7>4. c[3] < ts.tier
              BY <7>1, <7>2, <7>3
            <7>. QED
              BY <1>8, <5>3, <6>2, <6>4, <7>4 DEF slot
          <6>. QED
            BY <6>3, <6>4
        <5>. QED
          BY <5>2, <5>3
      <4>. QED
        BY <1>4, <4>1, <4>3
    <3>2. CASE c = <<id, tid, ts.tier>> /\ ts.contester # NoAddr
      <4>1. tid < t.blocks[slot].nextTransitionId
        BY <1>11
      <4>. QED
        BY <1>1, <1>4, <1>8, <3>2, <4>1 DEF slot
    <3>. QED
      BY <1>4, <3>1, <3>2
  <2>. QED
    BY <2>1, <2>2 DEF ContestOK
<1>15. ChainOK(t)
  <2>1. VerifiedHash(t) = VerifiedHash(s)
    <3>1. s.lastVerifiedBlockId \in used /\ s.lastVerifiedBlockId # id
      BY <1>1
    <3>. QED
      BY <1>3, <1>4, <1>6, <1>9, <3>1 DEF VerifiedHash
  <2>2. ChainOK(s)
    BY DEF HistoryInv
  <2>3. \A c \in t.contests : c \in s.contests \/ c[1] = id
    BY <1>4
  <2>4. \A i \in MigratedId .. s.lastVerifiedBlockId : i # id
    BY <1>1, ConfigAssumption
  <2>5. \A i \in MigratedId .. s.lastVerifiedBlockId : ~s.chain[i].proofless =>
          \A c \in t.contests : c[1] = i /\ c[2] = s.chain[i].tid => c[3] < s.chain[i].tier
    BY <2>2, <2>3, <2>4 DEF ChainOK
  <2>. QED
    BY <1>4, <2>1, <2>2, <2>5 DEF ChainOK
<1>16. SyncOK(t)
  BY <1>4 DEF HistoryInv, SyncOK
<1>. QED
  BY <1>12, <1>13, <1>14, <1>15, <1>16 DEF HistoryInv

\* The locals p of a proof, with the storage that _fetchOrCreateTransition leaves: the
\* transition it finds, or an empty next one for the parent.
Fetched(s, id, p) ==
  LET slot == Slot(id)
      next == s.blocks[slot].nextTransitionId
      key == <<id, p.ts.parentHash>>
  IN  /\ p.id = id /\ p.slot = slot /\ p.tid <= next
      /\ \A f \in Fields \ {"blocks", "transitionIds"} : p.fetched[f] = s[f]
      /\ \A i \in Slots : \A f \in {"metaHash", "verifiedTransitionId"} :
           p.fetched.blocks[i][f] = s.blocks[i][f]
      /\ \A i \in Slots \ {slot} : p.fetched.blocks[i] = s.blocks[i]
      /\ p.fetched.blocks[slot].nextTransitionId = IF p.tid = next THEN next + 1 ELSE next
      /\ p.tid = next =>
           /\ p.tid = 1 => p.ts.key = p.ts.parentHash
           /\ p.fetched.transitionIds = IF p.tid = 1 THEN s.transitionIds
                ELSE [k \in DOMAIN s.transitionIds \cup {key} |->
                        IF k = key THEN p.tid ELSE s.transitionIds[k]]
      /\ p.tid # next =>
           /\ p.ts = s.transitions[slot][p.tid]
           /\ p.fetched.transitionIds = s.transitionIds

\* _fetchOrCreateTransition does so.
LEMMA ProofLocalsFetched ==
  ASSUME NEW s, StorageInv(s), NEW u \in Accounts, NEW parentHash \in Hash,
         NEW id \in s.lastVerifiedBlockId + 1 .. s.numBlocks - 1,
         NEW blockHash \in Hash, NEW stateRoot \in Nat, NEW tierId \in Tiers, NEW flag,
         NEW p \in ProofLocals(s, u, id, parentHash, blockHash, stateRoot, tierId, flag)
  PROVE  Fetched(s, id, p)
<1>. DEFINE slot == Slot(id)
            next == s.blocks[slot].nextTransitionId
            found == GetTransitionId(s, slot, parentHash)
            tid == IF found = 0 THEN next ELSE found
            new == NewTransition(s, id, tid, parentHash)
            ts == IF found = 0 THEN new ELSE s.transitions[slot][tid]
            with == WithNewTransition(s, id, tid, parentHash)
            fetched == IF found = 0 THEN with ELSE s
            key == <<id, parentHash>>
<1>1. id \in Nat /\ slot \in Slots /\ s.blocks \in [Slots -> BlockRecord] /\ next \in Nat
  <2>1. id \in Nat /\ s.blocks \in [Slots -> BlockRecord]
    BY DEF StorageInv, IsStorage
  <2>2. slot \in Slots /\ s.blocks[slot] \in BlockRecord
    BY <2>1, SlotInRing
  <2>. QED
    BY <2>1, <2>2 DEF BlockRecord
<1>2. found \in Nat
  <2>1. Tids \subseteq Nat
    BY DEF Tids
  <2>. QED
    BY <2>1 DEF GetTransitionId, StorageInv, IsStorage
<1>3. /\ p.id = id /\ p.slot = slot /\ p.tid = tid /\ p.ts = ts /\ p.fetched = fetched
      /\ ~UnexpectedTransitionId(s, slot, parentHash)
  BY DEF ProofLocals
<1>4. found # 0 => tid < next
  BY <1>1, <1>2, <1>3 DEF UnexpectedTransitionId
<1>5. new.parentHash = parentHash /\ (tid = 1 => new.key = parentHash)
  BY DEF NewTransition, EmptyTransition
<1>6. /\ \A f \in Fields \ {"blocks", "transitionIds"} : with[f] = s[f]
      /\ with.blocks = [s.blocks EXCEPT ![slot] = [@ EXCEPT !.nextTransitionId = next + 1]]
      /\ with.transitionIds = IF tid = 1 THEN s.transitionIds
           ELSE [k \in DOMAIN s.transitionIds \cup {key} |->
                   IF k = key THEN tid ELSE s.transitionIds[k]]
  BY <1>1 DEF WithNewTransition, StorageInv, IsStorage, Fields
<1>. HIDE DEF new, with, found
<1>7. /\ \A i \in Slots \ {slot} : with.blocks[i] = s.blocks[i]
      /\ with.blocks[slot].nextTransitionId = next + 1
      /\ with.blocks[slot].metaHash = s.blocks[slot].metaHash
      /\ with.blocks[slot].verifiedTransitionId = s.blocks[slot].verifiedTransitionId
  <2>1. s.blocks[slot] \in BlockRecord
    BY <1>1
  <2>. HIDE DEF slot, next
  <2>2. with.blocks[slot] = [s.blocks[slot] EXCEPT !.nextTransitionId = next + 1]
    BY <1>1, <1>6
  <2>. QED
    BY <1>1, <1>6, <2>1, <2>2 DEF BlockRecord
<1>8. \A i \in Slots : \A f \in {"metaHash", "verifiedTransitionId"} :
        fetched.blocks[i][f] = s.blocks[i][f]
  BY <1>1, <1>7
<1>. HIDE DEF slot
<1>9. CASE found = 0
  <2>1. p.tid = next /\ p.ts = new /\ p.fetched = with /\ tid = next /\ fetched = with
    BY <1>3, <1>9
  <2>2. p.ts.parentHash = parentHash /\ (p.tid = 1 => p.ts.key = p.ts.parentHash)
    BY <1>5, <2>1
  <2>3. /\ \A f \in Fields \ {"blocks", "transitionIds"} : p.fetched[f] = s[f]
        /\ p.fetched.transitionIds = IF p.tid = 1 THEN s.transitionIds
             ELSE [k \in DOMAIN s.transitionIds \cup {key} |->
                     IF k = key THEN p.tid ELSE s.transitionIds[k]]
    BY <1>6, <2>1
  <2>4. /\ \A i \in Slots : \A f \in {"metaHash", "verifiedTransitionId"} :
             p.fetched.blocks[i][f] = s.blocks[i][f]
        /\ \A i \in Slots \ {slot} : p.fetched.blocks[i] = s.blocks[i]
        /\ p.fetched.blocks[slot].nextTransitionId = next + 1
    BY <1>7, <1>8, <2>1
  <2>5. p.id = id /\ p.slot = slot /\ p.tid <= next
    BY <1>1, <1>3, <2>1
  <2>. QED
    BY <2>1, <2>2, <2>3, <2>4, <2>5 DEF Fetched, slot
<1>10. CASE found # 0
  BY <1>1, <1>2, <1>3, <1>4, <1>8, <1>10 DEF Fetched, slot
<1>. QED
  BY <1>9, <1>10

\* Moves of bonds and a write of the transition turn the fetched storage into a written one.
LEMMA FetchedWritten ==
  ASSUME NEW s, NEW id \in Nat, NEW p, Fetched(s, id, p), NEW r, SameHistory(p.fetched, r),
         NEW ts, ts.key = p.ts.key, ts.parentHash = p.ts.parentHash, ts.tier \in Tiers,
         p.ts.tier < ts.tier \/ (p.ts.tier = ts.tier /\ p.ts.contester = NoAddr),
         NEW t, \A f \in Fields \ {"transitions", "contests"} : t[f] = r[f],
         t.transitions = [r.transitions EXCEPT ![p.slot][p.tid] = ts],
         t.contests = r.contests
           \cup (IF ts.contester = NoAddr THEN {} ELSE {<<p.id, p.tid, ts.tier>>})
  PROVE  Written(s, t, id, p.tid, ts)
<1>. DEFINE slot == Slot(id)
            next == s.blocks[slot].nextTransitionId
<1>1. /\ \A f \in {"numBlocks", "lastVerifiedBlockId", "lastSyncedBlockId", "provingPaused",
                   "lastUnpausedAt", "syncedRoots", "chain"} : t[f] = s[f]
      /\ r.transitions = s.transitions /\ r.contests = s.contests
      /\ t.blocks = r.blocks /\ t.transitionIds = p.fetched.transitionIds
  BY DEF Fetched, SameHistory, Fields
<1>2. /\ \A i \in Slots : \A f \in {"metaHash", "verifiedTransitionId"} :
           t.blocks[i][f] = s.blocks[i][f]
      /\ \A i \in Slots \ {slot} : t.blocks[i].nextTransitionId = s.blocks[i].nextTransitionId
  BY <1>1 DEF Fetched, SameHistory
<1>3. t.blocks[slot].nextTransitionId = IF p.tid = next THEN next + 1 ELSE next
  BY <1>1, SlotInRing DEF Fetched, SameHistory
<1>4. /\ t.transitions = [s.transitions EXCEPT ![slot][p.tid] = ts]
      /\ t.contests = s.contests
           \cup (IF ts.contester = NoAddr THEN {} ELSE {<<id, p.tid, ts.tier>>})
      /\ p.tid <= next
  BY <1>1 DEF Fetched
<1>5. /\ p.tid = next =>
           /\ p.tid = 1 => ts.key = ts.parentHash
           /\ t.transitionIds = IF p.tid = 1 THEN s.transitionIds
                ELSE [k \in DOMAIN s.transitionIds \cup {<<id, ts.parentHash>>} |->
                        IF k = <<id, ts.parentHash>> THEN p.tid ELSE s.transitionIds[k]]
      /\ p.tid # next =>
           /\ ts.key = s.transitions[slot][p.tid].key
           /\ ts.parentHash = s.transitions[slot][p.tid].parentHash
           /\ t.transitionIds = s.transitionIds
           /\ \/ s.transitions[slot][p.tid].tier < ts.tier
              \/ /\ s.transitions[slot][p.tid].tier = ts.tier
                 /\ s.transitions[slot][p.tid].contester = NoAddr
  BY <1>1 DEF Fetched
<1>. QED
  BY <1>1, <1>2, <1>3, <1>4, <1>5 DEF Written

\* Whatever a proof turns out to be, it writes one transition.
LEMMA SettledWritten ==
  ASSUME NEW s, NEW id \in Nat, NEW p, Fetched(s, id, p), ProofRecord(p), StorageInv(p.fetched),
         ClockTypeOK, NEW t \in Settled(p.fetched, p)
  PROVE  \E ts \in TransitionRecord : Written(s, t, id, p.tid, ts)
<1>. DEFINE fetched == p.fetched
<1>1. DOMAIN fetched = Fields /\ p.slot \in Slots /\ p.ts \in TransitionRecord /\ p.tierId \in Tiers
      /\ p.tid \in Tids
  BY DEF StorageInv, IsStorage, ProofRecord
<1>2. CASE CanOverride(fetched, p) /\ t = OverrideWithHigherProof(fetched, p)
  <2>. DEFINE moved == Overridden(fetched, p)
              bond == p.tier.validityBond
              settled == IF moved.reward > bond
                         THEN CreditBond(moved.s, p.sender, moved.reward - bond)
                         ELSE DebitBond(moved.s, p.sender, bond - moved.reward)
              ts == [p.ts EXCEPT !.validityBond = bond, !.contester = NoAddr,
                                 !.prover = p.sender, !.tier = p.tierId, !.timestamp = now,
                                 !.blockHash = p.blockHash, !.stateRoot = p.stateRoot]
  <2>1. StorageInv(moved.s) /\ SameHistory(fetched, moved.s)
    BY <1>1, OverriddenInv, OverriddenHistory
  <2>2. SameHistory(fetched, settled) /\ DOMAIN settled = Fields
    <3>1. DOMAIN moved.s = Fields
      BY <2>1 DEF StorageInv, IsStorage
    <3>2. SameHistory(moved.s, settled)
      BY <3>1, DebitHistory, CreditHistory
    <3>3. DOMAIN settled = Fields
      BY <3>1 DEF DebitBond, CreditBond
    <3>. QED
      BY <2>1, <3>2, <3>3, SameHistoryTwice
  <2>3. bond \in Nat /\ now \in Nat
    BY DomainAssumption DEF ProofRecord, TierRecord, ClockTypeOK
  <2>. HIDE DEF bond
  <2>4. ts \in TransitionRecord
    BY <2>3 DEF ProofRecord, TransitionRecord
  <2>5. /\ ts.key = p.ts.key /\ ts.parentHash = p.ts.parentHash /\ ts.tier = p.tierId
        /\ ts.contester = NoAddr
    BY <1>1 DEF TransitionRecord
  <2>6. t = [settled EXCEPT !.transitions[p.slot][p.tid] = ts]
    BY <1>2, Zenon DEF OverrideWithHigherProof, bond
  <2>. HIDE DEF settled, ts
  <2>7. /\ \A f \in Fields \ {"transitions", "contests"} : t[f] = settled[f]
        /\ t.transitions = [settled.transitions EXCEPT ![p.slot][p.tid] = ts]
        /\ t.contests = settled.contests
    BY <2>2, <2>6 DEF Fields
  <2>8. p.ts.tier < p.tierId
    <3>1. p.tierId > p.ts.tier
      BY <1>2 DEF CanOverride
    <3>. QED
      BY <3>1
  <2>9. Written(s, t, id, p.tid, ts)
    BY <1>1, <2>2, <2>5, <2>7, <2>8, FetchedWritten
  <2>. QED
    BY <2>4, <2>9
<1>3. CASE CanReprove(p) /\ t = Reproved(fetched, p)
  <2>. DEFINE ts == [p.ts EXCEPT !.prover = p.sender, !.timestamp = now,
                                 !.blockHash = p.blockHash, !.stateRoot = p.stateRoot]
  <2>1. ts \in TransitionRecord
    BY DEF ClockTypeOK, ProofRecord, TransitionRecord
  <2>2. /\ ts.key = p.ts.key /\ ts.parentHash = p.ts.parentHash /\ ts.tier = p.ts.tier
        /\ ts.contester = p.ts.contester
    BY <1>1 DEF TransitionRecord
  <2>3. t = [fetched EXCEPT !.transitions[p.slot][p.tid] = ts]
    BY <1>3, Zenon DEF Reproved
  <2>4. p.ts.tier = p.tierId /\ p.ts.contester = NoAddr
    BY <1>3 DEF CanReprove
  <2>. HIDE DEF ts
  <2>5. /\ \A f \in Fields \ {"transitions", "contests"} : t[f] = fetched[f]
        /\ t.transitions = [fetched.transitions EXCEPT ![p.slot][p.tid] = ts]
        /\ t.contests = fetched.contests
    BY <1>1, <2>3 DEF Fields
  <2>6. SameHistory(fetched, fetched)
    BY DEF SameHistory
  <2>7. Written(s, t, id, p.tid, ts)
    BY <1>1, <2>2, <2>4, <2>5, <2>6, FetchedWritten
  <2>. QED
    BY <2>1, <2>7
<1>4. CASE CanContest(fetched, p) /\ t = Contested(fetched, p)
  <2>. DEFINE debited == DebitBond(fetched, p.sender, p.tier.contestBond)
              bond == p.tier.contestBond
              ts == [p.ts EXCEPT !.contestBond = bond, !.contester = p.sender,
                                 !.timestamp = now]
  <2>1. bond \in Nat
    BY DomainAssumption DEF ProofRecord, TierRecord
  <2>2. SameHistory(fetched, debited) /\ DOMAIN debited = Fields
    <3>1. DOMAIN debited = Fields
      BY <1>1 DEF DebitBond
    <3>. QED
      BY <1>1, <3>1, DebitHistory
  <2>. HIDE DEF bond
  <2>3. ts \in TransitionRecord
    BY <2>1 DEF ClockTypeOK, ProofRecord, TransitionRecord
  <2>4. /\ ts.key = p.ts.key /\ ts.parentHash = p.ts.parentHash /\ ts.tier = p.ts.tier
        /\ ts.contester = p.sender
    BY <1>1 DEF TransitionRecord
  <2>. HIDE DEF debited, ts
  <2>5. t = [debited EXCEPT !.transitions[p.slot][p.tid] = ts,
                            !.contests = @ \cup {<<p.id, p.tid, p.tierId>>}]
    BY <1>4, Zenon DEF Contested, debited, ts, bond
  <2>6. p.ts.tier = p.tierId /\ p.ts.contester = NoAddr /\ p.sender # NoAddr
    BY <1>4, AddressAssumption DEF CanContest, ProofRecord, Accounts
  <2>7. /\ \A f \in Fields \ {"transitions", "contests"} : t[f] = debited[f]
        /\ t.transitions = [debited.transitions EXCEPT ![p.slot][p.tid] = ts]
        /\ t.contests = debited.contests \cup {<<p.id, p.tid, p.tierId>>}
    BY <2>2, <2>5 DEF Fields
  <2>8. Written(s, t, id, p.tid, ts)
    BY <1>1, <2>2, <2>4, <2>6, <2>7, FetchedWritten
  <2>. QED
    BY <2>3, <2>8
<1>. QED
  BY <1>2, <1>3, <1>4 DEF Settled

\* A new block takes the slot of a verified one, and says nothing of the others.
LEMMA AppendedHistory ==
  ASSUME NEW s, StorageInv(s), HistoryInv(s), NEW blk \in BlockRecord,
         blk.blockId = s.numBlocks, blk.nextTransitionId = 1, blk.metaHash = MetaHash(s.numBlocks),
         HasRoom(s)
  PROVE  HistoryInv(Appended(s, blk))
<1>. DEFINE t == Appended(s, blk)
            used == s.lastVerifiedBlockId .. s.numBlocks - 1
            slot == Slot(s.numBlocks)
<1>1. /\ t.blocks = [s.blocks EXCEPT ![slot] = blk]
      /\ t.numBlocks = s.numBlocks + 1
      /\ \A f \in Fields \ {"blocks", "numBlocks"} : t[f] = s[f]
  BY DEF Appended, StorageInv, IsStorage, Fields
<1>2. /\ s.lastVerifiedBlockId \in Nat /\ s.numBlocks \in Nat
      /\ s.blocks \in [Slots -> BlockRecord]
      /\ s.lastVerifiedBlockId < s.numBlocks
      /\ s.numBlocks <= s.lastVerifiedBlockId + BlockMaxProposals
      /\ DOMAIN s.transitionIds \subseteq Nat \X Hash
  BY ConfigAssumption DEF StorageInv, IsStorage, RingOK, HasRoom
<1>3. /\ t.lastVerifiedBlockId = s.lastVerifiedBlockId /\ t.transitions = s.transitions
      /\ t.transitionIds = s.transitionIds /\ t.contests = s.contests /\ t.chain = s.chain
      /\ t.lastSyncedBlockId = s.lastSyncedBlockId /\ t.syncedRoots = s.syncedRoots
  BY <1>1 DEF Fields
<1>. HIDE DEF t
<1>4. \A id \in used : t.blocks[Slot(id)] = s.blocks[Slot(id)]
  <2>. TAKE id \in used
  <2>1. id \in Nat /\ id < s.numBlocks /\ s.numBlocks < id + BlockRingBufferSize
    BY <1>2, ConfigAssumption
  <2>2. Slot(id) # slot /\ Slot(id) \in Slots
    BY <2>1, <1>2, SlotsDiffer, SlotInRing
  <2>. QED
    BY <1>1, <1>2, <2>2
<1>5. t.blocks[slot] = blk
  BY <1>1, <1>2, SlotInRing
<1>6. MetaOK(t)
  <2>1. MetaHash(s.numBlocks) # OneHash
    BY DEF MetaHash, OneHash
  <2>2. MetaOK(s)
    BY DEF HistoryInv
  <2>3. \A id \in t.lastVerifiedBlockId .. t.numBlocks - 1 : id \in used \/ id = s.numBlocks
    BY <1>1, <1>2, <1>3
  <2>. QED
    BY <1>4, <1>5, <2>1, <2>2, <2>3 DEF MetaOK
<1>7. LinkOK(t)
  <2>1. LinkOK(s)
    BY DEF HistoryInv
  <2>2. ASSUME NEW k \in DOMAIN s.transitionIds
        PROVE  /\ k[1] < s.numBlocks + 1
               /\ k[1] > s.lastVerifiedBlockId => k[1] \in used
    <3>1. k[1] < s.numBlocks /\ k[1] \in Nat
      BY <1>2, <2>1 DEF LinkOK
    <3>. QED
      BY <1>2, <3>1
  <2>3. \A id \in t.lastVerifiedBlockId + 1 .. t.numBlocks - 1 :
          (id \in used /\ id \in s.lastVerifiedBlockId + 1 .. s.numBlocks - 1) \/ id = s.numBlocks
    BY <1>1, <1>2, <1>3
  <2>4. \A tid \in Tids : ~(tid < 1)
    BY DEF Tids
  <2>5. \A id \in t.lastVerifiedBlockId + 1 .. t.numBlocks - 1, tid \in Tids :
          tid < t.blocks[Slot(id)].nextTransitionId => t.transitions[Slot(id)][tid].tier \in Tiers
    BY <1>3, <1>4, <1>5, <2>1, <2>3, <2>4 DEF LinkOK
  <2>6. \A k \in DOMAIN t.transitionIds :
          /\ k[1] < t.numBlocks
          /\ k[1] > t.lastVerifiedBlockId =>
               /\ t.transitionIds[k] < t.blocks[Slot(k[1])].nextTransitionId
               /\ t.transitions[Slot(k[1])][t.transitionIds[k]].parentHash = k[2]
    BY <1>1, <1>3, <1>4, <2>1, <2>2 DEF LinkOK
  <2>. QED
    BY <1>3, <2>1, <2>5, <2>6 DEF LinkOK
<1>8. ContestOK(t)
  <2>1. ContestOK(s)
    BY DEF HistoryInv
  <2>2. ASSUME NEW c \in s.contests
        PROVE  /\ c[1] < s.numBlocks + 1
               /\ c[1] > s.lastVerifiedBlockId => c[1] \in used
    <3>1. c[1] < s.numBlocks /\ c[1] \in Nat
      BY <2>1 DEF ContestOK
    <3>. QED
      BY <1>2, <3>1
  <2>. QED
    BY <1>1, <1>3, <1>4, <2>1, <2>2 DEF ContestOK
<1>9. ChainOK(t)
  <2>1. s.lastVerifiedBlockId \in used
    BY <1>2
  <2>2. VerifiedHash(t) = VerifiedHash(s)
    BY <1>3, <1>4, <2>1 DEF VerifiedHash
  <2>. QED
    BY <1>3, <2>2 DEF HistoryInv, ChainOK
<1>10. SyncOK(t)
  BY <1>3 DEF HistoryInv, SyncOK
<1>11. HistoryInv(t)
  BY <1>6, <1>7, <1>8, <1>9, <1>10 DEF HistoryInv
<1>. QED
  BY <1>11 DEF t

---------------------------------------------------------------------------
(* A run of verifyBlocks. *)

\* What a run leaves of a block and of a transition.
KeptOfBlock == {"metaHash", "blockId", "livenessBond", "proposedAt", "proposedIn",
                "nextTransitionId", "livenessBondReturned", "meta"}
KeptOfTransition == {"key", "stateRoot", "prover", "validityBond", "contester", "contestBond",
                     "timestamp", "tier", "parentHash"}

IsVerified(s, last, tids, sync, t) == t = Verified(s, last, tids, sync)

\* What a run writes into the ring.
RingAfter(s, last, tids, t) ==
  /\ \A f \in {"numBlocks", "provingPaused", "lastUnpausedAt", "transitionIds", "contests",
               "tkoOf", "tkoHeld"} : t[f] = s[f]
  /\ t.lastVerifiedBlockId = last
  /\ \A slot \in Slots : \A f \in KeptOfBlock : t.blocks[slot][f] = s.blocks[slot][f]
  /\ \A slot \in Slots, tid \in Tids : \A f \in KeptOfTransition :
       t.transitions[slot][tid][f] = s.transitions[slot][tid][f]
  /\ \A id \in s.lastVerifiedBlockId + 1 .. last :
       t.transitions[Slot(id)][tids[id]].blockHash = VerifiedRecord(s, id, tids[id]).blockHash
  /\ last # s.lastVerifiedBlockId => t.blocks[Slot(last)].verifiedTransitionId = tids[last]
  /\ last = s.lastVerifiedBlockId => t.blocks = s.blocks /\ t.transitions = s.transitions

\* What a run adds to the history.
ChainAfter(s, last, tids, sync, t) ==
  /\ t.chain = [id \in MigratedId .. last |->
       IF id \in s.lastVerifiedBlockId + 1 .. last
       THEN VerifiedRecord(s, id, tids[id]) ELSE s.chain[id]]
  /\ sync = 0 => t.syncedRoots = s.syncedRoots /\ t.lastSyncedBlockId = s.lastSyncedBlockId
  /\ sync # 0 =>
       /\ t.syncedRoots = [id \in DOMAIN s.syncedRoots \cup {sync} |->
            IF id = sync THEN SyncedRoot(s, tids, sync) ELSE s.syncedRoots[id]]
       /\ t.lastSyncedBlockId = sync

\* The remainder is the only number below n that differs by a multiple of n.
LEMMA ModUnique ==
  ASSUME NEW n \in Nat \ {0}, NEW q \in Int, NEW r \in 0 .. n - 1
  PROVE  (n * q + r) % n = r
<1>. DEFINE a == n * q + r
            e == (a \div n) - q
<1>1. a = n * (a \div n) + (a % n) /\ a % n \in 0 .. n - 1 /\ a \div n \in Int /\ a \in Int
  <2>1. a \in Int
    OBVIOUS
  <2>. HIDE DEF a
  <2>. QED
    BY <2>1
<1>2. e \in Int /\ n * e = n * (a \div n) - n * q
  <2>. DEFINE d == a \div n
  <2>1. d \in Int
    BY <1>1
  <2>. HIDE DEF d
  <2>2. d - q \in Int /\ n * (d - q) = n * d - n * q
    BY <2>1
  <2>. QED
    BY <2>2 DEF d
<1>3. n * e = r - (a % n)
  <2>. DEFINE d == n * (a \div n)
              m == a % n
              c == n * q
  <2>1. d \in Int /\ m \in Int /\ c \in Int /\ a = d + m /\ a = c + r /\ n * e = d - c
    BY <1>1, <1>2
  <2>. HIDE DEF d, m, c, a, e
  <2>2. n * e = r - m
    BY <2>1
  <2>. QED
    BY <2>2 DEF m
<1>4. r - (a % n) < n /\ r - (a % n) > -n /\ a % n \in Int
  BY <1>1
<1>. HIDE DEF a, e
<1>5. e = 0
  <2>1. ASSUME e >= 1 PROVE FALSE
    <3>1. n * e >= n
      BY <1>2, <2>1
    <3>. QED
      BY <1>3, <1>4, <3>1
  <2>2. ASSUME e <= -1 PROVE FALSE
    <3>1. n * e <= -n
      BY <1>2, <2>2
    <3>. QED
      BY <1>3, <1>4, <3>1
  <2>. QED
    BY <1>2, <2>1, <2>2
<1>6. r = a % n
  BY <1>3, <1>4, <1>5
<1>. QED
  BY <1>6 DEF a

\* But for slot 0, the slot before that of a block is the slot of the block before it.
LEMMA SlotBefore ==
  ASSUME NEW id \in Nat, Slot(id) # 0
  PROVE  Slot(id - 1) = Slot(id) - 1
<1>. DEFINE n == BlockRingBufferSize
            q == id \div n
            r == id % n
<1>1. n \in Nat \ {0}
  BY ConfigAssumption
<1>2. id = n * q + r /\ q \in Int /\ r \in 0 .. n - 1 /\ r # 0
  BY <1>1 DEF Slot
<1>3. id - 1 = n * q + (r - 1) /\ r - 1 \in 0 .. n - 1
  BY <1>1, <1>2
<1>. HIDE DEF q, r
<1>4. (n * q + (r - 1)) % n = r - 1
  BY <1>1, <1>2, <1>3, ModUnique
<1>. QED
  BY <1>3, <1>4 DEF Slot, r

\* Only the block after the migrated one follows it.
LEMMA OnlyOneFollows ==
  ASSUME NEW s, StorageInv(s), HistoryInv(s),
         NEW id \in s.lastVerifiedBlockId + 1 .. s.numBlocks - 1, FollowsMigrated(s, id)
  PROVE  id = MigratedId + 1
<1>1. id \in Nat /\ id - 1 \in s.lastVerifiedBlockId .. s.numBlocks - 1
  BY DEF StorageInv, IsStorage
<1>2. Slot(id - 1) = Slot(id) - 1
  BY <1>1, SlotBefore DEF FollowsMigrated
<1>3. s.blocks[Slot(id - 1)].metaHash = OneHash
  BY <1>2 DEF FollowsMigrated
<1>4. id - 1 = MigratedId
  BY <1>1, <1>3 DEF HistoryInv, MetaOK
<1>. QED
  BY <1>1, <1>4, ConfigAssumption

\* A block verified by a proof is verified by a transition of the trusted parent that is
\* past its cooldown and not contested.
LEMMA RunTransition ==
  ASSUME NEW s, StorageInv(s), HistoryInv(s), NEW max,
         NEW last \in s.lastVerifiedBlockId .. s.numBlocks - 1,
         NEW tids \in [s.lastVerifiedBlockId + 1 .. last -> Tids], IsRun(s, max, last, tids),
         NEW id \in s.lastVerifiedBlockId + 1 .. last, ~FollowsMigrated(s, id)
  PROVE  LET ts == s.transitions[Slot(id)][tids[id]]
         IN  /\ tids[id] < s.blocks[Slot(id)].nextTransitionId
             /\ ts.parentHash = TrustedHash(s, tids, id)
             /\ ts.contester = NoAddr /\ ts.tier \in Tiers
             /\ IsPostDeadline(s, ts.timestamp, TierConfig[ts.tier].cooldownWindow)
<1>. DEFINE slot == Slot(id)
            hash == TrustedHash(s, tids, id)
            tid == GetTransitionId(s, slot, hash)
            next == s.blocks[slot].nextTransitionId
            ts == s.transitions[slot][tid]
<1>1. /\ ~IterationReverts(s, tids, id) /\ CanVerify(s, tids, id)
      /\ tids[id] = TidToVerify(s, tids, id)
  BY DEF IsRun
<1>2. /\ id \in s.lastVerifiedBlockId + 1 .. s.numBlocks - 1 /\ id \in Nat
      /\ s.lastVerifiedBlockId \in Nat /\ id > s.lastVerifiedBlockId /\ slot \in Slots
  BY SlotInRing DEF StorageInv, IsStorage
<1>3. tids[id] = tid /\ tid \in Tids
  BY <1>1 DEF TidToVerify
<1>4. tid # 0 /\ ts.contester = NoAddr
      /\ IsPostDeadline(s, ts.timestamp, TierConfig[ts.tier].cooldownWindow)
  BY <1>1 DEF CanVerify, TidToVerify
<1>5. ~UnexpectedTransitionId(s, slot, hash) /\ s.blocks[slot].blockId = id
  BY <1>1 DEF IterationReverts
<1>6. tid < next
  <2>1. ~(tid >= next)
    BY <1>4, <1>5 DEF UnexpectedTransitionId
  <2>2. tid \in Nat /\ next \in Nat
    <3>1. s.blocks[slot] \in BlockRecord
      BY <1>2 DEF StorageInv, IsStorage
    <3>. QED
      BY <1>3, <3>1 DEF Tids, BlockRecord
  <2>. HIDE DEF tid, next
  <2>. QED
    BY <2>1, <2>2
<1>7. ts.parentHash = hash
  <2>0. s.transitions[slot][1].key = s.transitions[slot][1].parentHash
    BY <1>2 DEF HistoryInv, LinkOK
  <2>. HIDE DEF hash, slot
  <2>1. CASE s.transitions[slot][1].key = hash
    <3>1. tid = 1
      BY <1>4, <2>1 DEF GetTransitionId
    <3>. QED
      BY <2>0, <2>1, <3>1
  <2>2. CASE s.transitions[slot][1].key # hash
    <3>1. <<id, hash>> \in DOMAIN s.transitionIds /\ tid = s.transitionIds[<<id, hash>>]
      BY <1>4, <1>5, <2>2 DEF GetTransitionId
    <3>2. s.transitions[Slot(id)][tid].parentHash = hash
      BY <1>2, <3>1 DEF HistoryInv, LinkOK
    <3>. QED
      BY <3>2 DEF slot
  <2>. QED
    BY <2>1, <2>2
<1>8. ts.tier \in Tiers
  BY <1>2, <1>3, <1>6 DEF HistoryInv, LinkOK
<1>. HIDE DEF tid
<1>. QED
  BY <1>3, <1>4, <1>6, <1>7, <1>8

\* What a run writes into the ring.
LEMMA VerifiedFields ==
  ASSUME NEW s, StorageInv(s), NEW max,
         NEW last \in s.lastVerifiedBlockId .. s.numBlocks - 1,
         NEW tids \in [s.lastVerifiedBlockId + 1 .. last -> Tids], IsRun(s, max, last, tids),
         NEW sync \in SyncPoints(s, last, tids),
         NEW t, IsVerified(s, last, tids, sync, t)
  PROVE  RingAfter(s, last, tids, t)
<1>. DEFINE fresh == s.lastVerifiedBlockId + 1 .. last
<1>1. /\ s.lastVerifiedBlockId \in Nat /\ s.numBlocks \in Nat /\ last \in Nat
      /\ s.blocks \in [Slots -> BlockRecord]
      /\ s.transitions \in [Slots -> [Tids -> TransitionRecord]]
      /\ fresh \subseteq Nat /\ fresh \subseteq s.lastVerifiedBlockId .. s.numBlocks - 1
  BY DEF StorageInv, IsStorage
<1>2. \A id \in fresh : s.blocks[Slot(id)].blockId = id /\ Slot(id) \in Slots
  BY <1>1, SlotInRing DEF IsRun, IterationReverts
<1>3. Proofless(s, last) \subseteq fresh /\ Marked(s, last, sync) \subseteq fresh
  BY DEF Proofless, Marked
<1>4. /\ \A f \in {"numBlocks", "provingPaused", "lastUnpausedAt", "transitionIds", "contests",
                      "tkoOf", "tkoHeld"} : t[f] = s[f]
      /\ t.lastVerifiedBlockId = last
  BY DEF IsVerified, Verified, StorageInv, IsStorage, Fields
<1>5. t.blocks = [slot \in Slots |->
          IF \E id \in Marked(s, last, sync) : Slot(id) = slot
          THEN [s.blocks[slot] EXCEPT !.verifiedTransitionId = tids[s.blocks[slot].blockId]]
          ELSE s.blocks[slot]]
  BY DEF IsVerified, Verified, StorageInv, IsStorage, Fields
<1>6. t.transitions = [slot \in Slots |->
          IF \E id \in Proofless(s, last) : Slot(id) = slot
          THEN [s.transitions[slot] EXCEPT
                 ![tids[s.blocks[slot].blockId]].blockHash = s.blocks[slot].metaHash]
          ELSE s.transitions[slot]]
  BY DEF IsVerified, Verified, StorageInv, IsStorage, Fields
<1>7. ASSUME NEW slot \in Slots, NEW f \in KeptOfBlock
      PROVE  t.blocks[slot][f] = s.blocks[slot][f]
  <2>1. t.blocks[slot] \in {s.blocks[slot],
          [s.blocks[slot] EXCEPT !.verifiedTransitionId = tids[s.blocks[slot].blockId]]}
    BY <1>5
  <2>2. s.blocks[slot] \in BlockRecord
    BY <1>1
  <2>3. \A blk \in BlockRecord : \A tid : [blk EXCEPT !.verifiedTransitionId = tid][f] = blk[f]
    BY DEF KeptOfBlock, BlockRecord
  <2>. QED
    BY <2>1, <2>2, <2>3
<1>8. ASSUME NEW slot \in Slots, NEW tid \in Tids, NEW f \in KeptOfTransition
      PROVE  t.transitions[slot][tid][f] = s.transitions[slot][tid][f]
  <2>1. s.transitions[slot] \in [Tids -> TransitionRecord]
    BY <1>1
  <2>2. \A ts \in TransitionRecord : \A hash : [ts EXCEPT !.blockHash = hash][f] = ts[f]
    BY DEF KeptOfTransition, TransitionRecord
  <2>3. t.transitions[slot][tid] \in {s.transitions[slot][tid],
          [s.transitions[slot][tid] EXCEPT !.blockHash = s.blocks[slot].metaHash]}
    <3>1. \A x, hash : [s.transitions[slot] EXCEPT ![x].blockHash = hash][tid]
            \in {s.transitions[slot][tid], [s.transitions[slot][tid] EXCEPT !.blockHash = hash]}
      BY <2>1
    <3>2. t.transitions[slot] \in {s.transitions[slot], [s.transitions[slot] EXCEPT
            ![tids[s.blocks[slot].blockId]].blockHash = s.blocks[slot].metaHash]}
      BY <1>6
    <3>. QED
      BY <3>1, <3>2
  <2>. QED
    BY <2>1, <2>2, <2>3
<1>9. ASSUME NEW id \in fresh
      PROVE  t.transitions[Slot(id)][tids[id]].blockHash = VerifiedRecord(s, id, tids[id]).blockHash
  <2>1. /\ Slot(id) \in Slots /\ tids[id] \in Tids /\ s.blocks[Slot(id)].blockId = id
        /\ s.transitions[Slot(id)] \in [Tids -> TransitionRecord]
    BY <1>1, <1>2
  <2>2. CASE FollowsMigrated(s, id)
    <3>1. id \in Proofless(s, last)
      BY <2>2 DEF Proofless
    <3>2. t.transitions[Slot(id)] = [s.transitions[Slot(id)] EXCEPT
                                       ![tids[id]].blockHash = s.blocks[Slot(id)].metaHash]
      BY <1>6, <2>1, <3>1
    <3>3. s.transitions[Slot(id)][tids[id]] \in TransitionRecord
      BY <2>1
    <3>. QED
      BY <2>1, <2>2, <3>2, <3>3 DEF VerifiedRecord, TransitionRecord
  <2>3. CASE ~FollowsMigrated(s, id)
    <3>1. ~ \E i \in Proofless(s, last) : Slot(i) = Slot(id)
      <4>. SUFFICES ASSUME NEW i \in Proofless(s, last), Slot(i) = Slot(id) PROVE FALSE
        OBVIOUS
      <4>1. i = id
        BY <1>1, <1>3, RingSlots
      <4>. QED
        BY <2>3, <4>1 DEF Proofless
    <3>2. t.transitions[Slot(id)] = s.transitions[Slot(id)]
      BY <1>6, <2>1, <3>1
    <3>. QED
      BY <2>3, <3>2 DEF VerifiedRecord
  <2>. QED
    BY <2>2, <2>3
<1>10. ASSUME last # s.lastVerifiedBlockId
       PROVE  t.blocks[Slot(last)].verifiedTransitionId = tids[last]
  <2>1. last \in fresh /\ last \in Marked(s, last, sync)
    BY <1>1, <1>10 DEF Marked
  <2>2. s.blocks[Slot(last)].blockId = last /\ Slot(last) \in Slots
        /\ s.blocks[Slot(last)] \in BlockRecord
    BY <1>1, <1>2, <2>1
  <2>3. t.blocks[Slot(last)] = [s.blocks[Slot(last)] EXCEPT !.verifiedTransitionId = tids[last]]
    BY <1>5, <2>1, <2>2
  <2>. QED
    BY <2>2, <2>3 DEF BlockRecord
<1>11. ASSUME last = s.lastVerifiedBlockId
       PROVE  t.blocks = s.blocks /\ t.transitions = s.transitions
  <2>1. fresh = {}
    BY <1>1, <1>11
  <2>2. Proofless(s, last) = {} /\ Marked(s, last, sync) = {}
    BY <1>3, <2>1
  <2>. QED
    BY <1>1, <1>5, <1>6, <2>2
<1>. QED
  BY <1>4, <1>7, <1>8, <1>9, <1>10, <1>11 DEF RingAfter

\* The chain and the roots that a run adds to the history.
LEMMA VerifiedChain ==
  ASSUME NEW s, StorageInv(s), NEW last, NEW tids, NEW sync,
         NEW t, IsVerified(s, last, tids, sync, t)
  PROVE  ChainAfter(s, last, tids, sync, t)
BY DEF ChainAfter, IsVerified, Verified, StorageInv, IsStorage, Fields

\* The trusted hash is that of the block before, if a proof verified that one.
LEMMA TrustedIsParent ==
  ASSUME NEW s, StorageInv(s), HistoryInv(s), NEW max,
         NEW last \in s.lastVerifiedBlockId .. s.numBlocks - 1,
         NEW tids \in [s.lastVerifiedBlockId + 1 .. last -> Tids],
         NEW sync \in SyncPoints(s, last, tids),
         NEW t, IsVerified(s, last, tids, sync, t),
         NEW id \in s.lastVerifiedBlockId + 1 .. last, id # OntakeForkHeight + 2,
         ~t.chain[id - 1].proofless
  PROVE  TrustedHash(s, tids, id) = t.chain[id - 1].blockHash
<1>. DEFINE proven == {i \in s.lastVerifiedBlockId + 1 .. id - 1 : ~FollowsMigrated(s, i)}
<1>0. ChainAfter(s, last, tids, sync, t)
  BY VerifiedChain
<1>1. /\ s.lastVerifiedBlockId \in Nat /\ id \in Nat /\ MigratedId \in Nat /\ last \in Nat
      /\ MigratedId <= s.lastVerifiedBlockId /\ id - 1 \in MigratedId .. last
  BY ConfigAssumption DEF StorageInv, IsStorage, HistoryInv, ChainOK
<1>2. t.chain[id - 1] = IF id - 1 \in s.lastVerifiedBlockId + 1 .. last
                        THEN VerifiedRecord(s, id - 1, tids[id - 1]) ELSE s.chain[id - 1]
  BY <1>0, <1>1 DEF ChainAfter
<1>3. CASE id - 1 = s.lastVerifiedBlockId
  <2>1. proven = {}
    BY <1>1, <1>3
  <2>2. TrustedHash(s, tids, id) = VerifiedHash(s)
    BY <2>1 DEF TrustedHash
  <2>3. t.chain[id - 1] = s.chain[s.lastVerifiedBlockId]
    BY <1>1, <1>2, <1>3
  <2>. QED
    BY <2>2, <2>3 DEF HistoryInv, ChainOK
<1>4. CASE id - 1 # s.lastVerifiedBlockId
  <2>1. id - 1 \in s.lastVerifiedBlockId + 1 .. last
    BY <1>1, <1>4
  <2>2. t.chain[id - 1] = VerifiedRecord(s, id - 1, tids[id - 1])
    BY <1>2, <2>1
  <2>3. ~FollowsMigrated(s, id - 1)
    BY <2>2 DEF VerifiedRecord
  <2>4. id - 1 \in proven /\ \A j \in proven : j <= id - 1 /\ j \in Int
    BY <1>1, <2>1, <2>3
  <2>. DEFINE greatest == CHOOSE i \in proven : \A j \in proven : j <= i
  <2>5. greatest \in proven /\ \A j \in proven : j <= greatest
    BY <2>4
  <2>6. greatest = id - 1
    <3>1. greatest <= id - 1 /\ id - 1 <= greatest /\ greatest \in Int
      BY <2>4, <2>5
    <3>. HIDE DEF greatest
    <3>. QED
      BY <1>1, <3>1
  <2>7. TrustedHash(s, tids, id) = s.transitions[Slot(greatest)][tids[greatest]].blockHash
    BY <2>4 DEF TrustedHash
  <2>. HIDE DEF greatest
  <2>. QED
    BY <2>2, <2>3, <2>6, <2>7 DEF VerifiedRecord
<1>. QED
  BY <1>3, <1>4

\* What a record of the history says.
LEMMA RecordFields ==
  ASSUME NEW s, NEW id, NEW tid
  PROVE  LET r == VerifiedRecord(s, id, tid)
             ts == s.transitions[Slot(id)][tid]
         IN  /\ r.tid = tid /\ r.parentHash = ts.parentHash /\ r.tier = ts.tier
             /\ r.stateRoot = ts.stateRoot /\ (r.proofless <=> FollowsMigrated(s, id))
BY DEF VerifiedRecord

\* A record of the history is well formed.
LEMMA VerifiedRecordType ==
  ASSUME NEW s, StorageInv(s), NEW id \in Nat, NEW tid \in Tids
  PROVE  VerifiedRecord(s, id, tid) \in ChainRecord
<1>. DEFINE ts == s.transitions[Slot(id)][tid]
            blk == s.blocks[Slot(id)]
            proofless == FollowsMigrated(s, id)
            hash == IF proofless THEN blk.metaHash ELSE ts.blockHash
<1>1. ts \in TransitionRecord /\ blk \in BlockRecord
  BY SlotInRing DEF StorageInv, IsStorage
<1>2. hash \in Hash
  BY <1>1 DEF TransitionRecord, BlockRecord
<1>3. proofless \in BOOLEAN
  BY DEF FollowsMigrated
<1>4. ts.parentHash \in Hash /\ ts.tier \in Tiers \cup {0} /\ ts.stateRoot \in Nat
  BY <1>1 DEF TransitionRecord
<1>5. VerifiedRecord(s, id, tid)
        = [tid |-> tid, proofless |-> proofless, parentHash |-> ts.parentHash,
           tier |-> ts.tier, stateRoot |-> ts.stateRoot, blockHash |-> hash]
  BY Zenon DEF VerifiedRecord
<1>. HIDE DEF ts, hash, proofless
<1>. QED
  BY <1>2, <1>3, <1>4, <1>5 DEF ChainRecord

\* A run extends the verified chain by the transitions it chose.
LEMMA VerifiedChainOK ==
  ASSUME NEW s, StorageInv(s), HistoryInv(s), NEW max,
         NEW last \in s.lastVerifiedBlockId .. s.numBlocks - 1,
         NEW tids \in [s.lastVerifiedBlockId + 1 .. last -> Tids], IsRun(s, max, last, tids),
         NEW sync \in SyncPoints(s, last, tids),
         NEW t, IsVerified(s, last, tids, sync, t)
  PROVE  ChainOK(t)
<1>. DEFINE fresh == s.lastVerifiedBlockId + 1 .. last
<1>0. RingAfter(s, last, tids, t) /\ ChainAfter(s, last, tids, sync, t)
  BY VerifiedFields, VerifiedChain
<1>1. /\ s.lastVerifiedBlockId \in Nat /\ MigratedId \in Nat /\ last \in Nat
      /\ MigratedId <= s.lastVerifiedBlockId /\ s.lastVerifiedBlockId <= last
      /\ t.lastVerifiedBlockId = last /\ t.contests = s.contests
      /\ fresh \subseteq Nat /\ fresh \subseteq s.lastVerifiedBlockId + 1 .. s.numBlocks - 1
      /\ s.numBlocks \in Nat
  <2>1. /\ s.lastVerifiedBlockId \in Nat /\ MigratedId \in Nat /\ s.numBlocks \in Nat
        /\ MigratedId <= s.lastVerifiedBlockId
    BY ConfigAssumption DEF StorageInv, IsStorage, HistoryInv, ChainOK
  <2>2. t.lastVerifiedBlockId = last /\ t.contests = s.contests
    BY <1>0 DEF RingAfter
  <2>. QED
    BY <2>1, <2>2
<1>2. t.chain = [id \in MigratedId .. last |->
        IF id \in fresh THEN VerifiedRecord(s, id, tids[id]) ELSE s.chain[id]]
  BY <1>0 DEF ChainAfter
<1>3. \A id \in fresh : /\ id \in MigratedId .. last
                        /\ t.chain[id] = VerifiedRecord(s, id, tids[id])
  BY <1>1, <1>2
<1>4. \A id \in MigratedId .. last :
        id \notin fresh => id \in MigratedId .. s.lastVerifiedBlockId /\ t.chain[id] = s.chain[id]
  BY <1>1, <1>2
<1>5. t.chain \in [MigratedId .. last -> ChainRecord]
  <2>1. s.chain \in [MigratedId .. s.lastVerifiedBlockId -> ChainRecord]
    BY DEF HistoryInv, ChainOK
  <2>2. \A id \in fresh : VerifiedRecord(s, id, tids[id]) \in ChainRecord
    BY <1>1, VerifiedRecordType
  <2>3. \A id \in MigratedId .. last : t.chain[id] \in ChainRecord
    BY <1>3, <1>4, <2>1, <2>2
  <2>. QED
    BY <1>2, <2>3
<1>6. t.chain[last].blockHash = VerifiedHash(t)
  <2>1. CASE last = s.lastVerifiedBlockId
    <3>1. t.blocks = s.blocks /\ t.transitions = s.transitions
      BY <1>0, <2>1 DEF RingAfter
    <3>2. last \in MigratedId .. last /\ last \notin fresh
      BY <1>1, <2>1
    <3>3. t.chain[last] = s.chain[last]
      BY <1>4, <3>2
    <3>. QED
      BY <1>1, <2>1, <3>1, <3>3 DEF HistoryInv, ChainOK, VerifiedHash
  <2>2. CASE last # s.lastVerifiedBlockId
    <3>1. last \in fresh
      BY <1>1, <2>2
    <3>2. t.blocks[Slot(last)].verifiedTransitionId = tids[last]
          /\ t.transitions[Slot(last)][tids[last]].blockHash
               = VerifiedRecord(s, last, tids[last]).blockHash
      BY <1>0, <2>2, <3>1 DEF RingAfter
    <3>. QED
      BY <1>1, <1>3, <3>1, <3>2 DEF VerifiedHash
  <2>. QED
    BY <2>1, <2>2
<1>7. t.chain[MigratedId].proofless
  <2>1. MigratedId \in MigratedId .. last /\ MigratedId \notin fresh
    BY <1>1
  <2>. QED
    BY <1>4, <2>1 DEF HistoryInv, ChainOK
<1>8. \A id \in fresh : t.chain[id].proofless => id = MigratedId + 1
  <2>. TAKE id \in fresh
  <2>1. t.chain[id].proofless => FollowsMigrated(s, id)
    BY <1>3, RecordFields
  <2>. QED
    BY <1>1, <2>1, OnlyOneFollows
<1>9. \A id \in MigratedId .. last : t.chain[id].proofless => id <= MigratedId + 1
  <2>. TAKE id \in MigratedId .. last
  <2>1. CASE id \in fresh
    BY <1>1, <1>8, <2>1
  <2>2. CASE id \notin fresh
    BY <1>4, <2>2 DEF HistoryInv, ChainOK
  <2>. QED
    BY <2>1, <2>2
<1>10. ASSUME NEW id \in (MigratedId .. last) \ {MigratedId, OntakeForkHeight + 2},
              ~t.chain[id - 1].proofless
       PROVE  t.chain[id].parentHash = t.chain[id - 1].blockHash
  <2>1. id - 1 \in MigratedId .. last /\ id \in Nat
    BY <1>1, <1>10
  <2>2. CASE id \notin fresh
    <3>1. id - 1 \notin fresh /\ id \in MigratedId .. s.lastVerifiedBlockId
      BY <1>1, <1>4, <2>1, <2>2
    <3>2. t.chain[id] = s.chain[id] /\ t.chain[id - 1] = s.chain[id - 1]
      BY <1>4, <2>1, <2>2, <3>1
    <3>3. ~s.chain[id - 1].proofless => s.chain[id].parentHash = s.chain[id - 1].blockHash
      BY <1>10, <3>1 DEF HistoryInv, ChainOK
    <3>. QED
      BY <1>10, <3>2, <3>3
  <2>3. CASE id \in fresh
    <3>1. id - 1 # MigratedId
      BY <1>7, <1>10
    <3>2. ~FollowsMigrated(s, id)
      BY <1>1, <2>1, <2>3, <3>1, OnlyOneFollows
    <3>3. s.transitions[Slot(id)][tids[id]].parentHash = TrustedHash(s, tids, id)
      BY <2>3, <3>2, RunTransition
    <3>4. TrustedHash(s, tids, id) = t.chain[id - 1].blockHash
      BY <1>10, <2>3, TrustedIsParent
    <3>. QED
      BY <1>3, <2>3, <3>3, <3>4, RecordFields
  <2>. QED
    BY <2>2, <2>3
<1>11. ASSUME NEW id \in MigratedId .. last, ~t.chain[id].proofless,
              NEW c \in t.contests, c[1] = id, c[2] = t.chain[id].tid
       PROVE  c[3] < t.chain[id].tier
  <2>1. CASE id \notin fresh
    <3>1. t.chain[id] = s.chain[id] /\ id \in MigratedId .. s.lastVerifiedBlockId
          /\ c \in s.contests
      BY <1>1, <1>4, <2>1
    <3>. QED
      BY <1>11, <3>1 DEF HistoryInv, ChainOK
  <2>2. CASE id \in fresh
    <3>. DEFINE ts == s.transitions[Slot(id)][tids[id]]
    <3>1. ~FollowsMigrated(s, id) /\ t.chain[id].tid = tids[id] /\ t.chain[id].tier = ts.tier
      BY <1>3, <1>11, <2>2, RecordFields
    <3>2. ts.contester = NoAddr
      BY <2>2, <3>1, RunTransition
    <3>3. c \in s.contests /\ c[1] > s.lastVerifiedBlockId
      BY <1>1, <1>11, <2>2
    <3>4. c[3] < ts.tier \/ (c[3] = ts.tier /\ ts.contester # NoAddr)
      BY <1>11, <3>1, <3>3 DEF HistoryInv, ContestOK
    <3>. QED
      BY <3>1, <3>2, <3>4
  <2>. QED
    BY <2>1, <2>2
<1>. QED
  <2>1. \A id \in MigratedId .. last : ~t.chain[id].proofless =>
          \A c \in t.contests : c[1] = id /\ c[2] = t.chain[id].tid => c[3] < t.chain[id].tier
    BY <1>11
  <2>2. MigratedId <= last
    BY <1>1
  <2>. QED
    BY <1>1, <1>5, <1>6, <1>7, <1>9, <1>10, <2>1, <2>2 DEF ChainOK

\* A run preserves what is said about hashes, transitions, contests and roots.
LEMMA VerifiedHistory ==
  ASSUME NEW s, StorageInv(s), HistoryInv(s), NEW max,
         NEW last \in s.lastVerifiedBlockId .. s.numBlocks - 1,
         NEW tids \in [s.lastVerifiedBlockId + 1 .. last -> Tids], IsRun(s, max, last, tids),
         NEW sync \in SyncPoints(s, last, tids),
         NEW t, IsVerified(s, last, tids, sync, t)
  PROVE  HistoryInv(t)
<1>. DEFINE fresh == s.lastVerifiedBlockId + 1 .. last
            used == s.lastVerifiedBlockId .. s.numBlocks - 1
<1>0. RingAfter(s, last, tids, t) /\ ChainAfter(s, last, tids, sync, t)
  BY VerifiedFields, VerifiedChain
<1>1. /\ s.lastVerifiedBlockId \in Nat /\ s.numBlocks \in Nat /\ last \in Nat
      /\ s.lastVerifiedBlockId <= last
      /\ DOMAIN s.transitionIds \subseteq Nat \X Hash
      /\ \A k \in DOMAIN s.transitionIds : s.transitionIds[k] \in Tids
      /\ Tids \subseteq Nat /\ 1 \in Tids
  BY ConfigAssumption DEF StorageInv, IsStorage, Tids
<1>2. /\ t.numBlocks = s.numBlocks /\ t.lastVerifiedBlockId = last
      /\ t.transitionIds = s.transitionIds /\ t.contests = s.contests
  BY <1>0 DEF RingAfter
<1>3. \A slot \in Slots : /\ t.blocks[slot].metaHash = s.blocks[slot].metaHash
                          /\ t.blocks[slot].nextTransitionId = s.blocks[slot].nextTransitionId
  BY <1>0 DEF RingAfter, KeptOfBlock
<1>4. \A slot \in Slots, tid \in Tids :
        /\ t.transitions[slot][tid].key = s.transitions[slot][tid].key
        /\ t.transitions[slot][tid].parentHash = s.transitions[slot][tid].parentHash
        /\ t.transitions[slot][tid].tier = s.transitions[slot][tid].tier
        /\ t.transitions[slot][tid].contester = s.transitions[slot][tid].contester
  BY <1>0 DEF RingAfter, KeptOfTransition
<1>5. MetaOK(t)
  <2>1. \A id \in last .. s.numBlocks - 1 : id \in used /\ Slot(id) \in Slots
    BY <1>1, SlotInRing
  <2>. QED
    BY <1>2, <1>3, <2>1 DEF HistoryInv, MetaOK
<1>6. LinkOK(t)
  <2>1. LinkOK(s)
    BY DEF HistoryInv
  <2>2. \A slot \in Slots : t.transitions[slot][1].key = t.transitions[slot][1].parentHash
    BY <1>1, <1>4, <2>1 DEF LinkOK
  <2>3. ASSUME NEW k \in DOMAIN s.transitionIds
        PROVE  /\ k[1] < s.numBlocks
               /\ k[1] > last =>
                    /\ s.transitionIds[k] < t.blocks[Slot(k[1])].nextTransitionId
                    /\ t.transitions[Slot(k[1])][s.transitionIds[k]].parentHash = k[2]
    <3>1. k[1] \in Nat /\ Slot(k[1]) \in Slots /\ s.transitionIds[k] \in Tids
      BY <1>1, SlotInRing
    <3>2. k[1] > last => k[1] > s.lastVerifiedBlockId
      BY <1>1, <3>1
    <3>3. /\ k[1] < s.numBlocks
          /\ k[1] > s.lastVerifiedBlockId =>
               /\ s.transitionIds[k] < s.blocks[Slot(k[1])].nextTransitionId
               /\ s.transitions[Slot(k[1])][s.transitionIds[k]].parentHash = k[2]
      BY <2>1 DEF LinkOK
    <3>. QED
      BY <1>3, <1>4, <3>1, <3>2, <3>3
  <2>4. ASSUME NEW id \in last + 1 .. s.numBlocks - 1, NEW tid \in Tids,
               tid < t.blocks[Slot(id)].nextTransitionId
        PROVE  t.transitions[Slot(id)][tid].tier \in Tiers
    <3>1. id \in s.lastVerifiedBlockId + 1 .. s.numBlocks - 1 /\ Slot(id) \in Slots
      BY <1>1, SlotInRing
    <3>. QED
      BY <1>3, <1>4, <2>1, <2>4, <3>1 DEF LinkOK
  <2>. QED
    BY <1>2, <2>2, <2>3, <2>4 DEF LinkOK
<1>7. ContestOK(t)
  <2>1. ContestOK(s)
    BY DEF HistoryInv
  <2>2. ASSUME NEW c \in s.contests
        PROVE  /\ c[1] < s.numBlocks
               /\ c[1] > last =>
                    LET ts == t.transitions[Slot(c[1])][c[2]]
                    IN  /\ c[2] < t.blocks[Slot(c[1])].nextTransitionId
                        /\ c[3] < ts.tier \/ (c[3] = ts.tier /\ ts.contester # NoAddr)
    <3>1. c[1] \in Nat /\ Slot(c[1]) \in Slots /\ c[2] \in Tids
      BY <2>1, SlotInRing DEF ContestOK
    <3>2. c[1] > last => c[1] > s.lastVerifiedBlockId
      BY <1>1, <3>1
    <3>3. c[1] < s.numBlocks
      BY <2>1 DEF ContestOK
    <3>4. ASSUME c[1] > last
          PROVE  LET ts == s.transitions[Slot(c[1])][c[2]]
                 IN  /\ c[2] < s.blocks[Slot(c[1])].nextTransitionId
                     /\ c[3] < ts.tier \/ (c[3] = ts.tier /\ ts.contester # NoAddr)
      BY <2>1, <3>2, <3>4 DEF ContestOK
    <3>. QED
      BY <1>3, <1>4, <3>1, <3>3, <3>4
  <2>3. s.contests \subseteq Nat \X Tids \X Tiers
    BY <2>1 DEF ContestOK
  <2>. QED
    BY <1>2, <2>2, <2>3 DEF ContestOK
<1>8. ChainOK(t)
  BY VerifiedChainOK
<1>9. SyncOK(t)
  <2>0. /\ SyncOK(s) /\ MigratedId \in Nat /\ MigratedId <= s.lastVerifiedBlockId
        /\ DOMAIN s.syncedRoots \subseteq MigratedId .. s.lastVerifiedBlockId
        /\ s.lastSyncedBlockId \in Nat /\ s.lastSyncedBlockId <= s.lastVerifiedBlockId
    BY ConfigAssumption DEF HistoryInv, SyncOK, ChainOK, StorageInv, IsStorage
  <2>1. \A id \in DOMAIN s.syncedRoots : id \notin fresh /\ id \in MigratedId .. last
    BY <1>1, <2>0
  <2>2. \A id \in DOMAIN s.syncedRoots : t.chain[id] = s.chain[id]
    BY <1>0, <2>1 DEF ChainAfter
  <2>3. CASE sync = 0
    <3>1. t.syncedRoots = s.syncedRoots /\ t.lastSyncedBlockId = s.lastSyncedBlockId
      BY <1>0, <2>3 DEF ChainAfter
    <3>2. DOMAIN s.syncedRoots \subseteq MigratedId .. last /\ s.lastSyncedBlockId <= last
      BY <1>1, <2>0, <2>1
    <3>3. \A id \in DOMAIN s.syncedRoots :
            /\ s.syncedRoots[id] = t.chain[id].stateRoot
            /\ ShouldSyncStateRoot(id) /\ id <= s.lastSyncedBlockId
      BY <2>0, <2>2 DEF SyncOK
    <3>. QED
      BY <1>2, <2>0, <3>1, <3>2, <3>3 DEF SyncOK
  <2>4. CASE sync # 0
    <3>1. sync \in fresh /\ ShouldSyncStateRoot(sync)
      BY <2>4 DEF SyncPoints
    <3>2. /\ t.syncedRoots = [id \in DOMAIN s.syncedRoots \cup {sync} |->
                IF id = sync THEN SyncedRoot(s, tids, sync) ELSE s.syncedRoots[id]]
          /\ t.lastSyncedBlockId = sync
      BY <1>0, <2>4 DEF ChainAfter
    <3>3. sync \in MigratedId .. last /\ sync \in Nat /\ s.lastVerifiedBlockId < sync
          /\ sync <= last
      BY <1>1, <2>0, <3>1
    <3>4. t.chain[sync] = VerifiedRecord(s, sync, tids[sync])
      BY <1>0, <3>1, <3>3 DEF ChainAfter
    <3>5. SyncedRoot(s, tids, sync) = t.chain[sync].stateRoot
      BY <3>4, RecordFields DEF SyncedRoot
    <3>6. DOMAIN t.syncedRoots = DOMAIN s.syncedRoots \cup {sync}
      BY <3>2
    <3>7. DOMAIN t.syncedRoots \subseteq MigratedId .. last
      BY <2>1, <3>3, <3>6
    <3>8. ASSUME NEW id \in DOMAIN t.syncedRoots
          PROVE  /\ t.syncedRoots[id] = t.chain[id].stateRoot
                 /\ ShouldSyncStateRoot(id) /\ id <= sync
      <4>1. CASE id = sync
        BY <3>1, <3>2, <3>3, <3>5, <3>6, <4>1
      <4>2. CASE id # sync
        <5>1. id \in DOMAIN s.syncedRoots /\ t.syncedRoots[id] = s.syncedRoots[id]
          BY <3>2, <3>6, <4>2
        <5>2. id \in Nat /\ id <= s.lastVerifiedBlockId
          BY <2>0, <5>1
        <5>3. id <= sync
          BY <1>1, <3>3, <5>2
        <5>. QED
          BY <2>0, <2>2, <5>1, <5>3 DEF SyncOK
      <4>. QED
        BY <4>1, <4>2
    <3>. QED
      BY <1>2, <3>2, <3>3, <3>6, <3>7, <3>8 DEF SyncOK
  <2>. QED
    BY <2>3, <2>4
<1>. QED
  BY <1>5, <1>6, <1>7, <1>8, <1>9 DEF HistoryInv

\* So does every outcome of verifyBlocks.
LEMMA VerifyOutcome ==
  ASSUME NEW s, NEW max, NEW t \in VerifyOutcomes(s, max), t # s
  PROVE  \E last \in s.lastVerifiedBlockId .. s.numBlocks - 1 :
           \E tids \in [s.lastVerifiedBlockId + 1 .. last -> Tids] :
             /\ IsRun(s, max, last, tids)
             /\ \E sync \in SyncPoints(s, last, tids) : IsVerified(s, last, tids, sync, t)
BY DEF VerifyOutcomes, IsVerified

\* Every outcome of verifyBlocks preserves the history.
LEMMA VerifyHistory ==
  ASSUME NEW s, StorageInv(s), HistoryInv(s), NEW max, NEW t \in VerifyOutcomes(s, max)
  PROVE  HistoryInv(t)
<1>1. CASE t # s
  <2>1. PICK last \in s.lastVerifiedBlockId .. s.numBlocks - 1 :
          \E tids \in [s.lastVerifiedBlockId + 1 .. last -> Tids] :
             /\ IsRun(s, max, last, tids)
             /\ \E sync \in SyncPoints(s, last, tids) : IsVerified(s, last, tids, sync, t)
    BY <1>1, VerifyOutcome
  <2>2. PICK tids \in [s.lastVerifiedBlockId + 1 .. last -> Tids] :
             /\ IsRun(s, max, last, tids)
             /\ \E sync \in SyncPoints(s, last, tids) : IsVerified(s, last, tids, sync, t)
    BY <2>1
  <2>3. PICK sync \in SyncPoints(s, last, tids) : IsVerified(s, last, tids, sync, t)
    BY <2>2
  <2>. QED
    BY <2>2, <2>3, VerifiedHistory
<1>. QED
  BY <1>1

\* So does the verification at the end of a transaction.
LEMMA AfterVerificationHistory ==
  ASSUME NEW s, StorageInv(s), HistoryInv(s), NEW id, NEW isProposed,
         NEW t \in AfterVerification(s, id, isProposed)
  PROVE  HistoryInv(t)
BY VerifyHistory DEF AfterVerification

\* _proposeBlock preserves the history.
LEMMA ProposedHistory ==
  ASSUME NEW s, StorageInv(s), HistoryInv(s), ClockTypeOK, NEW u \in Accounts,
         NEW minTier \in Tiers, NEW anchorBlockId \in Int, NEW timestamp \in Int,
         NEW t \in Proposed(s, u, anchorBlockId, timestamp, minTier)
  PROVE  HistoryInv(t)
<1>. DEFINE blk == NewBlock(s, u, anchorBlockId, timestamp, minTier)
            r == Appended(s, blk)
<1>1. CanPropose(s, u, anchorBlockId, timestamp) /\ t = DebitBond(r, u, LivenessBond)
  BY DEF Proposed
<1>2. /\ blk \in BlockRecord /\ blk.blockId = s.numBlocks /\ blk.nextTransitionId # 0
      /\ HasRoom(s)
  BY <1>1, NewBlockType DEF CanPropose
<1>3. blk.nextTransitionId = 1 /\ blk.metaHash = MetaHash(s.numBlocks)
  BY DEF NewBlock, EmptyBlock
<1>. HIDE DEF blk
<1>4. StorageInv(r) /\ HistoryInv(r)
  BY <1>2, <1>3, AppendedInv, AppendedHistory
<1>. HIDE DEF r
<1>5. SameHistory(r, t)
  BY <1>1, <1>4, DebitHistory DEF StorageInv, IsStorage
<1>. QED
  BY <1>4, <1>5, SameHistoryInv

---------------------------------------------------------------------------
(* Cooldowns. *)

\* The blocks above `from` were verified, with proving open, past their cooldown.
Cooled(from, t) ==
  \A id \in from + 1 .. t.lastVerifiedBlockId :
    ~t.chain[id].proofless =>
      LET ts == t.transitions[Slot(id)][t.chain[id].tid]
      IN  /\ ~t.provingPaused /\ ts \in TransitionRecord /\ ts.tier \in Tiers
          /\ IsPostDeadline(t, ts.timestamp, TierConfig[ts.tier].cooldownWindow)

\* Two storages that agree on the pause of proving and on what is verified.
SameClock(s, t) ==
  /\ t.lastVerifiedBlockId = s.lastVerifiedBlockId
  /\ t.provingPaused = s.provingPaused /\ t.lastUnpausedAt = s.lastUnpausedAt

\* A run observes the cooldowns of the blocks it verifies, and keeps those of the others.
LEMMA VerifiedCooled ==
  ASSUME NEW s, StorageInv(s), HistoryInv(s), ~s.provingPaused, NEW from \in Nat,
         MigratedId <= from, Cooled(from, s), NEW max,
         NEW last \in s.lastVerifiedBlockId .. s.numBlocks - 1,
         NEW tids \in [s.lastVerifiedBlockId + 1 .. last -> Tids], IsRun(s, max, last, tids),
         NEW sync \in SyncPoints(s, last, tids),
         NEW t, IsVerified(s, last, tids, sync, t), StorageInv(t)
  PROVE  Cooled(from, t) /\ t.provingPaused = s.provingPaused /\ t.lastUnpausedAt = s.lastUnpausedAt
<1>. DEFINE fresh == s.lastVerifiedBlockId + 1 .. last
<1>0. RingAfter(s, last, tids, t) /\ ChainAfter(s, last, tids, sync, t)
  BY VerifiedFields, VerifiedChain
<1>1. /\ t.lastVerifiedBlockId = last /\ t.provingPaused = s.provingPaused
      /\ t.lastUnpausedAt = s.lastUnpausedAt
  BY <1>0 DEF RingAfter
<1>2. \A slot \in Slots, tid \in Tids :
        /\ t.transitions[slot][tid].timestamp = s.transitions[slot][tid].timestamp
        /\ t.transitions[slot][tid].tier = s.transitions[slot][tid].tier
        /\ t.transitions[slot][tid] \in TransitionRecord
  <2>1. t.transitions \in [Slots -> [Tids -> TransitionRecord]]
    BY DEF StorageInv, IsStorage
  <2>. QED
    BY <1>0, <2>1 DEF RingAfter, KeptOfTransition
<1>3. /\ s.lastVerifiedBlockId \in Nat /\ last \in Nat /\ MigratedId \in Nat
      /\ MigratedId <= s.lastVerifiedBlockId /\ s.lastVerifiedBlockId <= last
      /\ s.chain \in [MigratedId .. s.lastVerifiedBlockId -> ChainRecord]
  <2>1. s.lastVerifiedBlockId \in Nat /\ s.numBlocks \in Nat
    BY DEF StorageInv, IsStorage
  <2>2. last \in Nat /\ s.lastVerifiedBlockId <= last
    BY <2>1
  <2>3. /\ MigratedId <= s.lastVerifiedBlockId
        /\ s.chain \in [MigratedId .. s.lastVerifiedBlockId -> ChainRecord]
    BY DEF HistoryInv, ChainOK
  <2>. QED
    BY <2>1, <2>2, <2>3, ConfigAssumption
<1>4. ASSUME NEW id \in from + 1 .. last, ~t.chain[id].proofless
      PROVE  LET ts == t.transitions[Slot(id)][t.chain[id].tid]
             IN  /\ ts \in TransitionRecord /\ ts.tier \in Tiers
                 /\ IsPostDeadline(t, ts.timestamp, TierConfig[ts.tier].cooldownWindow)
  <2>1. id \in Nat /\ Slot(id) \in Slots /\ id \in MigratedId .. last
    BY <1>3, SlotInRing
  <2>2. CASE id \in fresh
    <3>1. t.chain[id] = VerifiedRecord(s, id, tids[id])
      BY <1>0, <2>1, <2>2 DEF ChainAfter
    <3>2. t.chain[id].tid = tids[id] /\ ~FollowsMigrated(s, id)
      BY <1>4, <3>1, RecordFields
    <3>. DEFINE ts == s.transitions[Slot(id)][tids[id]]
                us == t.transitions[Slot(id)][tids[id]]
    <3>3. ts.tier \in Tiers /\ IsPostDeadline(s, ts.timestamp, TierConfig[ts.tier].cooldownWindow)
      BY <2>2, <3>2, RunTransition
    <3>4. us \in TransitionRecord /\ us.timestamp = ts.timestamp /\ us.tier = ts.tier
      BY <1>2, <2>1, <2>2
    <3>5. IsPostDeadline(t, us.timestamp, TierConfig[us.tier].cooldownWindow)
      BY <1>1, <3>3, <3>4 DEF IsPostDeadline
    <3>. QED
      BY <3>2, <3>3, <3>4, <3>5
  <2>3. CASE id \notin fresh
    <3>1. t.chain[id] = s.chain[id]
      BY <1>0, <2>1, <2>3 DEF ChainAfter
    <3>2. id \in from + 1 .. s.lastVerifiedBlockId /\ id \in MigratedId .. s.lastVerifiedBlockId
      BY <1>3, <1>4, <2>1, <2>3
    <3>3. s.chain[id].tid \in Tids
      BY <1>3, <3>2 DEF ChainRecord
    <3>. DEFINE ts == s.transitions[Slot(id)][s.chain[id].tid]
                us == t.transitions[Slot(id)][s.chain[id].tid]
    <3>4. ts.tier \in Tiers /\ IsPostDeadline(s, ts.timestamp, TierConfig[ts.tier].cooldownWindow)
      BY <1>4, <3>1, <3>2 DEF Cooled
    <3>5. us \in TransitionRecord /\ us.timestamp = ts.timestamp /\ us.tier = ts.tier
      BY <1>2, <2>1, <3>3
    <3>6. IsPostDeadline(t, us.timestamp, TierConfig[us.tier].cooldownWindow)
      BY <1>1, <3>4, <3>5 DEF IsPostDeadline
    <3>. QED
      BY <3>1, <3>4, <3>5, <3>6
  <2>. QED
    BY <2>2, <2>3
<1>5. ~t.provingPaused
  BY <1>1
<1>6. Cooled(from, t)
  BY <1>1, <1>4, <1>5 DEF Cooled
<1>. QED
  BY <1>1, <1>6

\* So does every outcome of verifyBlocks while proving is open, and the verification at
\* the end of a transaction.
LEMMA VerifyCooled ==
  ASSUME NEW s, StorageInv(s), HistoryInv(s), ~s.provingPaused, NEW from \in Nat,
         MigratedId <= from, Cooled(from, s), NEW max \in Nat, NEW t \in VerifyOutcomes(s, max)
  PROVE  Cooled(from, t) /\ t.provingPaused = s.provingPaused /\ t.lastUnpausedAt = s.lastUnpausedAt
<1>1. CASE t # s
  <2>0. StorageInv(t)
    BY VerifyInv
  <2>1. PICK last \in s.lastVerifiedBlockId .. s.numBlocks - 1 :
          \E tids \in [s.lastVerifiedBlockId + 1 .. last -> Tids] :
             /\ IsRun(s, max, last, tids)
             /\ \E sync \in SyncPoints(s, last, tids) : IsVerified(s, last, tids, sync, t)
    BY <1>1, VerifyOutcome
  <2>2. PICK tids \in [s.lastVerifiedBlockId + 1 .. last -> Tids] :
             /\ IsRun(s, max, last, tids)
             /\ \E sync \in SyncPoints(s, last, tids) : IsVerified(s, last, tids, sync, t)
    BY <2>1
  <2>3. PICK sync \in SyncPoints(s, last, tids) : IsVerified(s, last, tids, sync, t)
    BY <2>2
  <2>. QED
    BY <2>0, <2>2, <2>3, VerifiedCooled
<1>. QED
  BY <1>1

\* The same holds of the verification at the end of a transaction.
LEMMA AfterVerificationCooled ==
  ASSUME NEW s, StorageInv(s), HistoryInv(s), NEW from \in Nat, MigratedId <= from,
         Cooled(from, s), NEW id, NEW isProposed, NEW t \in AfterVerification(s, id, isProposed)
  PROVE  Cooled(from, t) /\ t.provingPaused = s.provingPaused /\ t.lastUnpausedAt = s.lastUnpausedAt
BY VerifyCooled, ConfigAssumption DEF AfterVerification

\* Nothing is verified yet when a transaction comes to its verification.
LEMMA NothingVerified ==
  ASSUME NEW s, StorageInv(s)
  PROVE  Cooled(s.lastVerifiedBlockId, s)
<1>1. s.lastVerifiedBlockId + 1 .. s.lastVerifiedBlockId = {}
  BY DEF StorageInv, IsStorage
<1>. QED
  BY <1>1 DEF Cooled

\* _proposeBlock does not verify.
LEMMA ProposedClock ==
  ASSUME NEW s, StorageInv(s), NEW u, NEW anchorBlockId, NEW timestamp, NEW minTier,
         NEW t \in Proposed(s, u, anchorBlockId, timestamp, minTier)
  PROVE  SameClock(s, t)
<1>. DEFINE blk == NewBlock(s, u, anchorBlockId, timestamp, minTier)
            r == Appended(s, blk)
<1>1. t = DebitBond(r, u, LivenessBond)
  BY DEF Proposed
<1>2. SameClock(s, r) /\ DOMAIN r = Fields
  BY DEF SameClock, Appended, StorageInv, IsStorage, Fields
<1>. HIDE DEF r
<1>3. SameHistory(r, t)
  BY <1>1, <1>2, DebitHistory
<1>. QED
  BY <1>2, <1>3 DEF SameClock, SameHistory

---------------------------------------------------------------------------
(* The history of the initial states. *)

\* LibUtils.init has verified the genesis block only.
LEMMA InitStateHistory ==
  ASSUME MigratedId = 0
  PROVE  HistoryInv(InitState)
<1>. DEFINE t == InitState
<1>1. Slot(0) = 0 /\ 0 \in Slots /\ 1 \in Tids
  BY ConfigAssumption DEF Slot, Slots, Tids
<1>2. /\ t.numBlocks = 1 /\ t.lastVerifiedBlockId = 0 /\ t.lastSyncedBlockId = 0
      /\ t.blocks = [slot \in Slots |-> IF slot = 0 THEN GenesisBlock ELSE EmptyBlock]
      /\ t.transitions = [slot \in Slots |-> [tid \in Tids |->
            IF slot = 0 /\ tid = 1 THEN GenesisTransition ELSE EmptyTransition]]
      /\ t.transitionIds = [k \in {} |-> 0] /\ t.syncedRoots = [id \in {} |-> 0]
      /\ t.chain = [id \in {0} |-> TrustedRecord(BlockHash(0, 0), 0)] /\ t.contests = {}
  BY DEF InitState
<1>. HIDE DEF t
<1>3. t.lastVerifiedBlockId .. t.numBlocks - 1 = {0} /\ t.lastVerifiedBlockId + 1 .. t.numBlocks - 1 = {}
      /\ MigratedId .. t.lastVerifiedBlockId = {0}
  BY <1>2
<1>4. MetaOK(t)
  BY <1>3 DEF MetaOK
<1>5. LinkOK(t)
  <2>1. \A slot \in Slots : t.transitions[slot][1].key = t.transitions[slot][1].parentHash
    <3>1. GenesisTransition.key = GenesisTransition.parentHash
          /\ EmptyTransition.key = EmptyTransition.parentHash
      BY DEF GenesisTransition, EmptyTransition
    <3>. QED
      BY <1>1, <1>2, <3>1
  <2>2. DOMAIN t.transitionIds = {}
    BY <1>2
  <2>. QED
    BY <1>3, <2>1, <2>2 DEF LinkOK
<1>6. ContestOK(t)
  BY <1>2 DEF ContestOK
<1>7. ChainOK(t)
  <2>1. t.chain[0] = TrustedRecord(BlockHash(0, 0), 0)
    BY <1>2
  <2>2. TrustedRecord(BlockHash(0, 0), 0) \in ChainRecord
        /\ TrustedRecord(BlockHash(0, 0), 0).proofless
        /\ TrustedRecord(BlockHash(0, 0), 0).blockHash = BlockHash(0, 0)
    BY <1>1 DEF TrustedRecord, ChainRecord, BlockHash, ZeroHash, Hash
  <2>3. VerifiedHash(t) = BlockHash(0, 0)
    <3>1. t.blocks[0] = GenesisBlock /\ t.transitions[0][1] = GenesisTransition
      BY <1>1, <1>2
    <3>2. GenesisBlock.verifiedTransitionId = 1 /\ GenesisTransition.blockHash = BlockHash(0, 0)
      BY DEF GenesisBlock, GenesisTransition, EmptyBlock, EmptyTransition
    <3>. QED
      BY <1>1, <1>2, <3>1, <3>2 DEF VerifiedHash
  <2>. HIDE DEF TrustedRecord
  <2>4. t.chain \in [MigratedId .. t.lastVerifiedBlockId -> ChainRecord]
    BY <1>2, <1>3, <2>2
  <2>5. MigratedId <= t.lastVerifiedBlockId /\ MigratedId = 0 /\ t.lastVerifiedBlockId = 0
    BY <1>2
  <2>6. \A id \in MigratedId .. t.lastVerifiedBlockId : id = 0
    BY <1>3
  <2>. QED
    BY <1>2, <2>1, <2>2, <2>3, <2>4, <2>5, <2>6 DEF ChainOK
<1>8. SyncOK(t)
  <2>1. DOMAIN t.syncedRoots = {}
    BY <1>2
  <2>. QED
    BY <1>2, <2>1 DEF SyncOK
<1>. QED
  BY <1>4, <1>5, <1>6, <1>7, <1>8 DEF HistoryInv, t

\* doMigrate has verified the migrated block only, and trusts its hash.
LEMMA MigratedStateHistory == HistoryInv(MigratedState)
<1>. DEFINE t == MigratedState
            slot == Slot(MigratedId)
            ts == [InitState.transitions[slot][1] EXCEPT !.blockHash = OneHash, !.stateRoot = 1]
            r == TrustedRecord(OneHash, 1)
<1>1. MigratedId \in Nat /\ slot \in Slots /\ 1 \in Tids
  BY SlotInRing, ConfigAssumption DEF Tids
<1>2. IsStorage(InitState)
  BY InitStateInv DEF StorageInv
<1>3. /\ InitState.transitions = [i \in Slots |-> [tid \in Tids |->
            IF i = 0 /\ tid = 1 THEN GenesisTransition ELSE EmptyTransition]]
      /\ InitState.transitionIds = [k \in {} |-> 0] /\ InitState.syncedRoots = [id \in {} |-> 0]
      /\ InitState.contests = {} /\ InitState.lastSyncedBlockId = 0
  BY DEF InitState
<1>4. /\ t.numBlocks = MigratedId + 1 /\ t.lastVerifiedBlockId = MigratedId
      /\ t.lastSyncedBlockId = 0 /\ t.contests = {}
      /\ t.transitionIds = [k \in {} |-> 0] /\ t.syncedRoots = [id \in {} |-> 0]
      /\ t.transitions = [InitState.transitions EXCEPT ![slot][1] = ts]
      /\ t.chain = [id \in {MigratedId} |-> r]
  BY <1>2, <1>3 DEF MigratedState, IsStorage, Fields
<1>5. t.blocks[slot].verifiedTransitionId = 1
  <2>1. InitState.blocks[slot] \in BlockRecord /\ InitState.blocks \in [Slots -> BlockRecord]
    BY <1>1, <1>2 DEF IsStorage
  <2>. DEFINE blk == [InitState.blocks[slot] EXCEPT !.metaHash = OneHash, !.blockId = MigratedId,
                        !.proposedIn = MigratedId, !.verifiedTransitionId = 1,
                        !.nextTransitionId = 2]
  <2>2. t.blocks = [InitState.blocks EXCEPT ![slot] = blk]
    BY <1>2 DEF MigratedState, IsStorage, Fields
  <2>3. blk.verifiedTransitionId = 1
    BY <2>1 DEF BlockRecord
  <2>. HIDE DEF blk
  <2>. QED
    BY <1>1, <2>1, <2>2, <2>3
<1>6. ts.key = ts.parentHash /\ ts.blockHash = OneHash
  <2>1. InitState.transitions[slot][1] \in {GenesisTransition, EmptyTransition}
    BY <1>1, <1>3
  <2>. QED
    BY <2>1 DEF GenesisTransition, EmptyTransition
<1>7. /\ t.transitions[slot][1] = ts
      /\ \A i \in Slots \ {slot} : t.transitions[i][1] \in {GenesisTransition, EmptyTransition}
  BY <1>1, <1>3, <1>4
<1>8. r \in ChainRecord /\ r.proofless /\ r.blockHash = OneHash
  BY <1>1 DEF TrustedRecord, ChainRecord, OneHash, ZeroHash, Hash
<1>. HIDE DEF t, ts, r
<1>9. t.lastVerifiedBlockId .. t.numBlocks - 1 = {MigratedId}
      /\ t.lastVerifiedBlockId + 1 .. t.numBlocks - 1 = {}
      /\ MigratedId .. t.lastVerifiedBlockId = {MigratedId}
  BY <1>1, <1>4
<1>10. MetaOK(t)
  BY <1>9 DEF MetaOK
<1>11. LinkOK(t)
  <2>1. GenesisTransition.key = GenesisTransition.parentHash
        /\ EmptyTransition.key = EmptyTransition.parentHash
    BY DEF GenesisTransition, EmptyTransition
  <2>2. \A i \in Slots : t.transitions[i][1].key = t.transitions[i][1].parentHash
    BY <1>6, <1>7, <2>1
  <2>3. DOMAIN t.transitionIds = {}
    BY <1>4
  <2>. QED
    BY <1>9, <2>2, <2>3 DEF LinkOK
<1>12. ContestOK(t)
  BY <1>4 DEF ContestOK
<1>13. ChainOK(t)
  <2>1. t.chain[MigratedId] = r
    BY <1>4
  <2>2. VerifiedHash(t) = OneHash
    BY <1>4, <1>5, <1>6, <1>7 DEF VerifiedHash, slot
  <2>3. t.chain \in [MigratedId .. t.lastVerifiedBlockId -> ChainRecord]
    BY <1>4, <1>8, <1>9
  <2>4. \A id \in MigratedId .. t.lastVerifiedBlockId : id = MigratedId
    BY <1>9
  <2>5. MigratedId <= t.lastVerifiedBlockId /\ t.lastVerifiedBlockId = MigratedId
        /\ MigratedId <= MigratedId + 1
    BY <1>1, <1>4
  <2>. QED
    BY <1>8, <2>1, <2>2, <2>3, <2>4, <2>5 DEF ChainOK
<1>14. SyncOK(t)
  <2>1. DOMAIN t.syncedRoots = {}
    BY <1>4
  <2>. QED
    BY <1>1, <1>4, <2>1 DEF SyncOK
<1>. QED
  BY <1>10, <1>11, <1>12, <1>13, <1>14 DEF HistoryInv, t

---------------------------------------------------------------------------
(* The history of the actions. *)

\* What a transaction that may verify blocks does to the history.
Extended(s, t) ==
  /\ HistoryInv(t)
  /\ Cooled(s.lastVerifiedBlockId, t)
  /\ t.provingPaused = s.provingPaused /\ t.lastUnpausedAt = s.lastUnpausedAt

\* The verification that ends a transaction extends the history.
LEMMA VerificationExtends ==
  ASSUME NEW s, NEW r, StorageInv(r), HistoryInv(r), SameClock(s, r), NEW id, NEW isProposed,
         NEW t \in AfterVerification(r, id, isProposed)
  PROVE  StorageInv(t) /\ Extended(s, t)
<1>1. /\ r.lastVerifiedBlockId \in Nat /\ MigratedId <= r.lastVerifiedBlockId
      /\ Cooled(r.lastVerifiedBlockId, r)
  BY NothingVerified DEF StorageInv, IsStorage, HistoryInv, ChainOK
<1>2. Cooled(r.lastVerifiedBlockId, t) /\ t.provingPaused = r.provingPaused
      /\ t.lastUnpausedAt = r.lastUnpausedAt
  BY <1>1, AfterVerificationCooled
<1>3. HistoryInv(t) /\ StorageInv(t)
  BY AfterVerificationHistory, AfterVerificationInv
<1>. QED
  BY <1>2, <1>3 DEF Extended, SameClock

\* So does a second one in the same transaction.
LEMMA VerificationExtendsAgain ==
  ASSUME NEW s, StorageInv(s), HistoryInv(s), NEW r, StorageInv(r), Extended(s, r),
         NEW id, NEW isProposed, NEW t \in AfterVerification(r, id, isProposed)
  PROVE  Extended(s, t)
<1>1. s.lastVerifiedBlockId \in Nat /\ MigratedId <= s.lastVerifiedBlockId
  BY DEF StorageInv, IsStorage, HistoryInv, ChainOK
<1>2. Cooled(s.lastVerifiedBlockId, t) /\ t.provingPaused = r.provingPaused
      /\ t.lastUnpausedAt = r.lastUnpausedAt
  BY <1>1, AfterVerificationCooled DEF Extended
<1>3. HistoryInv(t)
  BY AfterVerificationHistory DEF Extended
<1>. QED
  BY <1>2, <1>3 DEF Extended

\* A proposing transaction extends the history.
LEMMA ProposeHistory ==
  ASSUME IInv, HistoryInv(state), NEW u \in Users, NEW minTier \in MinTiers,
         ProposeBlock(u, minTier) \/ ProposeBlockV2(u, minTier) \/ ProposeBlocksV2(u, minTier)
  PROVE  Extended(state, state')
<1>1. /\ u \in Accounts /\ minTier \in Tiers /\ BlockNumber \in Int /\ now \in Int
      /\ ClockTypeOK /\ StorageInv(state)
  BY DomainAssumption, ConfigAssumption DEF Accounts, IInv, ClockTypeOK, BlockNumber
<1>2. ASSUME NEW s, StorageInv(s), HistoryInv(s), NEW anchorBlockId \in Int, NEW timestamp \in Int,
             NEW t \in Proposed(s, u, anchorBlockId, timestamp, minTier)
      PROVE  StorageInv(t) /\ HistoryInv(t) /\ SameClock(s, t)
  BY <1>1, <1>2, ProposedInv, ProposedHistory, ProposedClock
<1>3. CASE ProposeBlock(u, minTier)
  <2>1. PICK s \in Proposed(state, u, BlockNumber - 1, now, minTier) :
          state' \in AfterVerification(s, state.numBlocks, FALSE)
    BY <1>3 DEF ProposeBlock
  <2>2. StorageInv(s) /\ HistoryInv(s) /\ SameClock(state, s)
    BY <1>1, <1>2, <2>1
  <2>. QED
    BY <2>1, <2>2, VerificationExtends
<1>4. CASE ProposeBlockV2(u, minTier)
  <2>1. PICK anchorBlockId \in Anchors, timestamp \in Timestamps :
          \E s \in Proposed(state, u, anchorBlockId, timestamp, minTier) :
            state' \in AfterVerification(s, state.numBlocks, FALSE)
    BY <1>4 DEF ProposeBlockV2
  <2>2. anchorBlockId \in Int /\ timestamp \in Int
    BY <1>1, ConfigAssumption DEF Anchors, Timestamps
  <2>3. PICK s \in Proposed(state, u, anchorBlockId, timestamp, minTier) :
          state' \in AfterVerification(s, state.numBlocks, FALSE)
    BY <2>1
  <2>4. StorageInv(s) /\ HistoryInv(s) /\ SameClock(state, s)
    BY <1>1, <1>2, <2>2, <2>3
  <2>. QED
    BY <2>3, <2>4, VerificationExtends
<1>5. CASE ProposeBlocksV2(u, minTier)
  <2>1. PICK first \in Proposed(state, u, BlockNumber - 1, now, minTier) :
          \E second \in Proposed(first, u, BlockNumber - 1, now, minTier) :
            \E s \in AfterVerification(second, state.numBlocks, FALSE) :
              state' \in AfterVerification(s, state.numBlocks + 1, FALSE)
    BY <1>5 DEF ProposeBlocksV2
  <2>2. PICK second \in Proposed(first, u, BlockNumber - 1, now, minTier) :
          \E s \in AfterVerification(second, state.numBlocks, FALSE) :
            state' \in AfterVerification(s, state.numBlocks + 1, FALSE)
    BY <2>1
  <2>3. PICK s \in AfterVerification(second, state.numBlocks, FALSE) :
            state' \in AfterVerification(s, state.numBlocks + 1, FALSE)
    BY <2>2
  <2>4. StorageInv(first) /\ HistoryInv(first) /\ SameClock(state, first)
    BY <1>1, <1>2, <2>1
  <2>5. StorageInv(second) /\ HistoryInv(second) /\ SameClock(first, second)
    BY <1>1, <1>2, <2>2, <2>4
  <2>6. SameClock(state, second)
    BY <2>4, <2>5 DEF SameClock
  <2>7. StorageInv(s) /\ Extended(state, s)
    BY <2>3, <2>5, <2>6, VerificationExtends
  <2>. QED
    BY <1>1, <2>3, <2>7, VerificationExtendsAgain
<1>. QED
  BY <1>3, <1>4, <1>5

\* A proving transaction extends the history.
LEMMA ProveHistory ==
  ASSUME IInv, HistoryInv(state), NEW u \in Accounts, NEW id \in Provable, NEW parentHash \in Hash,
         NEW blockHash \in Hash, NEW stateRoot \in Nat, NEW tierId \in Tiers, NEW flag,
         ProveBlock(u, id, parentHash, blockHash, stateRoot, tierId, flag)
  PROVE  Extended(state, state')
<1>0. StorageInv(state) /\ ClockTypeOK /\ id \in state.lastVerifiedBlockId + 1 .. state.numBlocks - 1
  BY DEF IInv, Provable
<1>1. PICK p \in ProofLocals(state, u, id, parentHash, blockHash, stateRoot, tierId, flag) :
        \E s \in Settled(p.fetched, p) : state' \in AfterVerification(s, id, TRUE)
  BY DEF ProveBlock
<1>2. ProofRecord(p) /\ StorageInv(p.fetched) /\ Fetched(state, id, p)
  BY <1>0, <1>1, ProofLocalsInv, ProofLocalsFetched
<1>3. PICK s \in Settled(p.fetched, p) : state' \in AfterVerification(s, id, TRUE)
  BY <1>1
<1>4. StorageInv(s)
  BY <1>0, <1>2, <1>3, SettledInv
<1>5. id \in Nat /\ p.tid \in Tids
  BY <1>0, <1>2 DEF StorageInv, IsStorage, ProofRecord
<1>6. PICK ts \in TransitionRecord : Written(state, s, id, p.tid, ts)
  BY <1>0, <1>2, <1>3, <1>5, SettledWritten
<1>7. HistoryInv(s)
  BY <1>0, <1>5, <1>6, WrittenInv
<1>8. SameClock(state, s)
  BY <1>6 DEF Written, SameClock
<1>. QED
  BY <1>3, <1>4, <1>7, <1>8, VerificationExtends

\* verifyBlocks extends the history.
LEMMA VerifyBlocksHistory ==
  ASSUME IInv, HistoryInv(state), NEW max \in Nat, VerifyBlocks(max)
  PROVE  Extended(state, state')
<1>1. /\ StorageInv(state) /\ ~state.provingPaused /\ state' \in VerifyOutcomes(state, max)
      /\ state.lastVerifiedBlockId \in Nat /\ MigratedId <= state.lastVerifiedBlockId
  BY DEF IInv, VerifyBlocks, StorageInv, IsStorage, HistoryInv, ChainOK
<1>2. Cooled(state.lastVerifiedBlockId, state) /\ HistoryInv(state')
  BY <1>1, NothingVerified, VerifyHistory
<1>3. Cooled(state.lastVerifiedBlockId, state') /\ state'.lastUnpausedAt = state.lastUnpausedAt
      /\ state'.provingPaused = state.provingPaused
  BY <1>1, <1>2, VerifyCooled
<1>. QED
  BY <1>2, <1>3 DEF Extended

---------------------------------------------------------------------------
(* The invariant. *)

\* The history, and the clock that lastUnpausedAt keeps of the pauses.
HInv ==
  /\ HistoryInv(state)
  /\ openSince <= state.lastUnpausedAt
  /\ state.lastUnpausedAt <= now

\* Every initial state satisfies it.
LEMMA InitHistory == Init => HInv
<1>. SUFFICES ASSUME Init PROVE HInv
  OBVIOUS
<1>0. ClockTypeOK /\ now = 0 /\ openSince = 0
  BY DomainAssumption DEF Init, ClockTypeOK
<1>1. CASE MigratedId = 0
  <2>1. state = InitState
    BY <1>1 DEF Init
  <2>2. state.lastUnpausedAt = 0
    BY <2>1 DEF InitState
  <2>. QED
    BY <1>0, <1>1, <2>1, <2>2, InitStateHistory DEF HInv
<1>2. CASE MigratedId # 0
  <2>0. InitMigrate
    BY <1>2 DEF Init
  <2>1. PICK u \in Users, minTier \in MinTiers :
          \E s \in Proposed(MigratedState, u, BlockNumber - 1, now, minTier) :
            state \in AfterVerification(s, MigratedId + 1, FALSE)
    BY <2>0 DEF InitMigrate
  <2>2. PICK s \in Proposed(MigratedState, u, BlockNumber - 1, now, minTier) :
            state \in AfterVerification(s, MigratedId + 1, FALSE)
    BY <2>1
  <2>3. u \in Accounts /\ minTier \in Tiers /\ BlockNumber - 1 \in Int /\ now \in Int
    BY <1>0, DomainAssumption, ConfigAssumption DEF Accounts, BlockNumber
  <2>4. StorageInv(s) /\ HistoryInv(s)
    BY <1>0, <2>2, <2>3, MigratedStateInv, MigratedStateHistory, ProposedInv, ProposedHistory
  <2>5. SameClock(MigratedState, s)
    BY <2>2, MigratedStateInv, ProposedClock
  <2>6. Extended(MigratedState, state)
    BY <2>2, <2>4, <2>5, VerificationExtends
  <2>7. MigratedState.lastUnpausedAt = 0
    <3>1. IsStorage(InitState)
      BY InitStateInv DEF StorageInv
    <3>2. MigratedState.lastUnpausedAt = InitState.lastUnpausedAt
      BY <3>1 DEF MigratedState, IsStorage, Fields
    <3>. QED
      BY <3>2 DEF InitState
  <2>. QED
    BY <1>0, <2>6, <2>7 DEF HInv, Extended
<1>. QED
  BY <1>1, <1>2

\* Pausing and unpausing leave the history alone.
LEMMA RecordedHistory ==
  ASSUME NEW s, HistoryInv(s), NEW t,
         \A f \in Fields \ {"provingPaused", "lastUnpausedAt"} : t[f] = s[f]
  PROVE  HistoryInv(t)
<1>1. /\ t.numBlocks = s.numBlocks /\ t.lastVerifiedBlockId = s.lastVerifiedBlockId
      /\ t.lastSyncedBlockId = s.lastSyncedBlockId /\ t.transitions = s.transitions
      /\ t.transitionIds = s.transitionIds /\ t.syncedRoots = s.syncedRoots
      /\ t.chain = s.chain /\ t.contests = s.contests /\ t.blocks = s.blocks
  BY DEF Fields
<1>2. MetaOK(t) /\ LinkOK(t) /\ ContestOK(t) /\ SyncOK(t)
  BY <1>1 DEF HistoryInv, MetaOK, LinkOK, ContestOK, SyncOK
<1>3. ChainOK(t)
  BY <1>1 DEF HistoryInv, ChainOK, VerifiedHash
<1>. QED
  BY <1>2, <1>3 DEF HistoryInv

\* Every transaction preserves the history, and verifies no block before its cooldown.
LEMMA NextHistory ==
  ASSUME IInv, HInv, [Next]_vars
  PROVE  /\ HistoryInv(state')
         /\ openSince' <= state'.lastUnpausedAt /\ state'.lastUnpausedAt <= now'
         /\ state'.lastVerifiedBlockId # state.lastVerifiedBlockId =>
              Extended(state, state') /\ UNCHANGED <<now, openSince>> /\ ~paused
<1>0. /\ StorageInv(state) /\ HistoryInv(state) /\ now \in Nat /\ openSince \in Nat
      /\ state.lastUnpausedAt \in Nat /\ DOMAIN state = Fields
      /\ openSince <= state.lastUnpausedAt /\ state.lastUnpausedAt <= now
  BY DEF IInv, HInv, StorageInv, IsStorage, ClockTypeOK
<1>1. CASE Propose
  <2>1. PICK u \in Users, minTier \in MinTiers :
          ProposeBlock(u, minTier) \/ ProposeBlockV2(u, minTier) \/ ProposeBlocksV2(u, minTier)
    BY <1>1 DEF Propose
  <2>2. Extended(state, state')
    BY <1>0, <2>1, ProposeHistory
  <2>3. UNCHANGED <<paused, now, openSince>> /\ ~paused
    BY <2>1 DEF ProposeBlock, ProposeBlockV2, ProposeBlocksV2
  <2>. QED
    BY <1>0, <2>2, <2>3 DEF Extended
<1>2. CASE Prove
  <2>1. PICK id \in Provable, tierId \in Tiers :
          \E u \in ProversOf(tierId), flag \in ReturnFlags(tierId),
             parentHash \in ParentHashes(id), v \in Variants, stateRoot \in ClaimedRoots(id) :
            ProveBlock(u, id, parentHash, BlockHash(id, v), stateRoot, tierId, flag)
    BY <1>2 DEF Prove
  <2>2. PICK u \in ProversOf(tierId), flag \in ReturnFlags(tierId),
             parentHash \in ParentHashes(id), v \in Variants, stateRoot \in ClaimedRoots(id) :
          ProveBlock(u, id, parentHash, BlockHash(id, v), stateRoot, tierId, flag)
    BY <2>1
  <2>3. u \in Accounts
    BY DEF ProversOf, Accounts
  <2>4. parentHash \in Hash /\ BlockHash(id, v) \in Hash /\ stateRoot \in Nat
    BY ProofInputs
  <2>5. Extended(state, state')
    BY <1>0, <2>2, <2>3, <2>4, ProveHistory
  <2>6. UNCHANGED <<paused, now, openSince>> /\ ~paused
    BY <2>2 DEF ProveBlock
  <2>. QED
    BY <1>0, <2>5, <2>6 DEF Extended
<1>3. CASE \E max \in 0 .. MaxBlockId : VerifyBlocks(max)
  <2>1. PICK max \in 0 .. MaxBlockId : VerifyBlocks(max)
    BY <1>3
  <2>2. max \in Nat
    BY ConfigAssumption
  <2>3. Extended(state, state')
    BY <1>0, <2>1, <2>2, VerifyBlocksHistory
  <2>4. UNCHANGED <<paused, now, openSince>> /\ ~paused
    BY <2>1 DEF VerifyBlocks
  <2>. QED
    BY <1>0, <2>3, <2>4 DEF Extended
<1>4. CASE \E pause \in BOOLEAN : PauseProving(pause)
  <2>1. PICK pause \in BOOLEAN : PauseProving(pause)
    BY <1>4
  <2>2. /\ \A f \in Fields \ {"provingPaused", "lastUnpausedAt"} : state'[f] = state[f]
        /\ state'.lastUnpausedAt = IF pause THEN state.lastUnpausedAt ELSE now
        /\ openSince' \in {openSince, now} /\ (pause => openSince' = openSince) /\ now' = now
    BY <1>0, <2>1 DEF PauseProving, Fields
  <2>3. /\ openSince' <= state'.lastUnpausedAt /\ state'.lastUnpausedAt <= now'
    BY <1>0, <2>2
  <2>5. HistoryInv(state')
    BY <1>0, <2>2, RecordedHistory
  <2>. QED
    BY <2>2, <2>3, <2>5 DEF Fields
<1>5. CASE Unpause
  <2>2. /\ \A f \in Fields \ {"provingPaused", "lastUnpausedAt"} : state'[f] = state[f]
        /\ state'.lastUnpausedAt = now
        /\ openSince' \in {openSince, now} /\ now' = now
    BY <1>0, <1>5 DEF Unpause, Fields
  <2>3. /\ openSince' <= state'.lastUnpausedAt /\ state'.lastUnpausedAt <= now'
    BY <1>0, <2>2
  <2>5. HistoryInv(state')
    BY <1>0, <2>2, RecordedHistory
  <2>. QED
    BY <2>2, <2>3, <2>5 DEF Fields
<1>6. CASE \E u \in Users, amount \in BondAmounts : DepositBond(u, amount) \/ WithdrawBond(u, amount)
  <2>1. PICK u \in Users, amount \in BondAmounts : DepositBond(u, amount) \/ WithdrawBond(u, amount)
    BY <1>6
  <2>2. /\ SameHistory(state, state') /\ UNCHANGED <<now, openSince>>
    BY <1>0, <2>1 DEF DepositBond, WithdrawBond, SameHistory, Fields
  <2>3. HistoryInv(state')
    BY <1>0, <2>2, SameHistoryInv
  <2>. QED
    BY <1>0, <2>2, <2>3 DEF SameHistory
<1>7. CASE Pause \/ UNCHANGED vars
  BY <1>0, <1>7 DEF Pause, vars
<1>8. CASE Tick
  <2>1. state' = state /\ now' = now + 1 /\ openSince' = openSince
    BY <1>8 DEF Tick
  <2>2. state.lastUnpausedAt <= now'
    BY <1>0, <2>1
  <2>. QED
    BY <1>0, <2>1, <2>2
<1>. QED
  BY <1>1, <1>2, <1>3, <1>4, <1>5, <1>6, <1>7, <1>8 DEF Next

\* Both invariants hold in every reachable state.
LEMMA HInvHolds == Spec => [](IInv /\ HInv)
<1>1. Init => IInv /\ HInv
  BY InitInv, InitHistory
<1>2. IInv /\ HInv /\ [Next]_vars => IInv' /\ HInv'
  <2>. SUFFICES ASSUME IInv, HInv, [Next]_vars PROVE IInv' /\ HInv'
    OBVIOUS
  <2>1. IInv'
    BY NextInv
  <2>2. HInv'
    BY NextHistory DEF HInv
  <2>. QED
    BY <2>1, <2>2
<1>. QED
  BY <1>1, <1>2, PTL DEF Spec

\* Only the block after the migrated one is ever verified without a proof.
THEOREM OnlyMigrationIsProofless == Spec => []OnlyMigrationProofless
<1>1. IInv /\ HInv => OnlyMigrationProofless
  BY DEF HInv, HistoryInv, ChainOK, OnlyMigrationProofless
<1>. QED
  BY <1>1, HInvHolds, PTL

\* A block verified by a proof extends the hash its predecessor was verified with.
THEOREM VerifiedBlocksLinked == Spec => []ChainLinked
<1>1. IInv /\ HInv => ChainLinked
  BY DEF HInv, HistoryInv, ChainOK, ChainLinked
<1>. QED
  BY <1>1, HInvHolds, PTL

\* A contested transition verifies its block only after a proof of a higher tier.
THEOREM ContestsAreSettled == Spec => []ContestSettled
<1>1. IInv /\ HInv => ContestSettled
  <2>. SUFFICES ASSUME HInv, NEW id \in DOMAIN state.chain, ~state.chain[id].proofless,
                       NEW tier \in Tiers, <<id, state.chain[id].tid, tier>> \in state.contests
                PROVE  tier < state.chain[id].tier
    BY DEF ContestSettled
  <2>1. id \in MigratedId .. state.lastVerifiedBlockId
    BY DEF HInv, HistoryInv, ChainOK
  <2>. DEFINE c == <<id, state.chain[id].tid, tier>>
  <2>2. c \in state.contests /\ c[1] = id /\ c[2] = state.chain[id].tid /\ c[3] = tier
    OBVIOUS
  <2>. HIDE DEF c
  <2>. QED
    BY <2>1, <2>2 DEF HInv, HistoryInv, ChainOK
<1>. QED
  BY <1>1, HInvHolds, PTL

\* The state roots sent to the signal service are those of the transitions that verified.
THEOREM SyncedRootsAreVerified == Spec => []SyncedRootsVerified
<1>1. IInv /\ HInv => SyncedRootsVerified
  <2>. SUFFICES ASSUME HInv PROVE SyncedRootsVerified
    OBVIOUS
  <2>1. DOMAIN state.chain = MigratedId .. state.lastVerifiedBlockId
    BY DEF HInv, HistoryInv, ChainOK
  <2>. QED
    BY <2>1 DEF HInv, HistoryInv, SyncOK, SyncedRootsVerified
<1>. QED
  BY <1>1, HInvHolds, PTL

\* No step verifies a block before its transition's cooldown has passed without a pause.
THEOREM CooldownsAreObserved == Spec => CooldownObserved
<1>. DEFINE Step == \A id \in state.lastVerifiedBlockId + 1 .. state'.lastVerifiedBlockId :
       LET ts == state'.transitions[Slot(id)][state'.chain[id].tid]
       IN  ~state'.chain[id].proofless =>
             /\ ~paused /\ ~state.provingPaused
             /\ now >= Later(ts.timestamp, openSince) + TierConfig[ts.tier].cooldownWindow
<1>1. IInv /\ HInv /\ [Next]_vars => [Step]_vars
  <2>. SUFFICES ASSUME IInv, HInv, [Next]_vars PROVE Step
    OBVIOUS
  <2>1. CASE state'.lastVerifiedBlockId # state.lastVerifiedBlockId
    <3>1. /\ Cooled(state.lastVerifiedBlockId, state') /\ ~paused
          /\ state'.lastUnpausedAt = state.lastUnpausedAt
          /\ state'.provingPaused = state.provingPaused
      BY <2>1, NextHistory DEF Extended
    <3>2. /\ openSince <= state.lastUnpausedAt /\ openSince \in Nat
          /\ state.lastUnpausedAt \in Nat /\ now \in Nat
      BY DEF IInv, HInv, StorageInv, IsStorage, ClockTypeOK
    <3>3. ASSUME NEW id \in state.lastVerifiedBlockId + 1 .. state'.lastVerifiedBlockId,
                 ~state'.chain[id].proofless
          PROVE  LET ts == state'.transitions[Slot(id)][state'.chain[id].tid]
                 IN  /\ ~paused /\ ~state.provingPaused
                     /\ now >= Later(ts.timestamp, openSince) + TierConfig[ts.tier].cooldownWindow
      <4>. DEFINE ts == state'.transitions[Slot(id)][state'.chain[id].tid]
                  window == TierConfig[ts.tier].cooldownWindow
      <4>1. /\ ~state'.provingPaused /\ ts \in TransitionRecord /\ ts.tier \in Tiers
            /\ IsPostDeadline(state', ts.timestamp, window)
        BY <3>1, <3>3 DEF Cooled
      <4>2. ts.timestamp \in Nat /\ window \in Nat
        BY <4>1, DomainAssumption DEF TransitionRecord, TierRecord
      <4>3. now >= Later(ts.timestamp, state.lastUnpausedAt) + window
        BY <3>1, <4>1 DEF IsPostDeadline
      <4>. HIDE DEF ts, window
      <4>4. now >= Later(ts.timestamp, openSince) + window
        BY <3>2, <4>2, <4>3 DEF Later
      <4>. QED
        BY <3>1, <4>1, <4>4 DEF ts, window
    <3>. QED
      BY <3>3
  <2>2. CASE state'.lastVerifiedBlockId = state.lastVerifiedBlockId
    <3>1. state.lastVerifiedBlockId + 1 .. state'.lastVerifiedBlockId = {}
      BY <2>2 DEF IInv, StorageInv, IsStorage
    <3>. QED
      BY <3>1
  <2>. QED
    BY <2>1, <2>2
<1>2. Spec => [][Step]_vars
  BY <1>1, HInvHolds, PTL DEF Spec
<1>. QED
  BY <1>2 DEF CooldownObserved

---------------------------------------------------------------------------
(* Bonds: the tokens that the contract holds and what it owes.             *)

LedgerOK(s) ==
  /\ s.bondBalance \in [Accounts -> Nat]
  /\ s.tkoOf \in [Accounts -> Nat]
  /\ s.tkoHeld \in Nat

\* What the contract holds beyond the bond balances.
Margin(s) == s.tkoHeld - Total(s.bondBalance, Accounts)

\* The liveness bond that a block may still return.
LivenessOf(blk) == IF blk.livenessBondReturned THEN 0 ELSE blk.livenessBond + blk.meta.livenessBond

\* What it may still have to pay for the blocks that are not verified.
Pending(s) == s.lastVerifiedBlockId + 1 .. s.numBlocks - 1
Dues(s) == Total([id \in Pending(s) |-> OutstandingBonds(s, id)], Pending(s))

\* No block has more transitions than there is room for.
RoomOK(s) == \A id \in Pending(s) : s.blocks[Slot(id)].nextTransitionId - 1 <= MaxTransitions

SolventInv(s) == LedgerOK(s) /\ RoomOK(s) /\ Dues(s) <= Margin(s)

\* The accounts are finitely many.
LEMMA AccountsFinite == IsFiniteSet(Accounts)
BY AddressAssumption, FS_AddElement DEF Accounts

\* The margin is an integer: only its balances are known to be natural numbers.
LEMMA MarginType ==
  ASSUME NEW s, LedgerOK(s)
  PROVE  Margin(s) \in Int /\ Total(s.bondBalance, Accounts) \in Nat
<1>1. Total(s.bondBalance, Accounts) \in Nat
  BY AccountsFinite, TotalNat DEF LedgerOK
<1>. QED
  BY <1>1 DEF Margin, LedgerOK

\* creditBond lowers the margin by the amount at most: nothing is credited to address(0).
LEMMA CreditMargin ==
  ASSUME NEW s, LedgerOK(s), DOMAIN s = Fields, NEW u, NEW a \in Nat
  PROVE  LET t == CreditBond(s, u, a) IN LedgerOK(t) /\ Margin(t) >= Margin(s) - a
<1>. DEFINE t == CreditBond(s, u, a)
<1>0. Margin(s) \in Int /\ Total(s.bondBalance, Accounts) \in Nat
  BY MarginType
<1>1. t.tkoOf = s.tkoOf /\ t.tkoHeld = s.tkoHeld
  BY DEF CreditBond, Fields
<1>2. t.bondBalance = s.bondBalance
        \/ (u \in Accounts /\ t.bondBalance = [s.bondBalance EXCEPT ![u] = @ + a])
  <2>1. CASE a = 0
    BY <2>1 DEF CreditBond
  <2>2. CASE a # 0
    <3>1. t.bondBalance = [s.bondBalance EXCEPT ![u] = @ + a]
      BY <2>2 DEF CreditBond, Fields
    <3>2. u \notin Accounts => [s.bondBalance EXCEPT ![u] = @ + a] = s.bondBalance
      BY DEF LedgerOK
    <3>. QED
      BY <3>1, <3>2
  <2>. QED
    BY <2>1, <2>2
<1>. HIDE DEF t
<1>3. CASE t.bondBalance = s.bondBalance
  <2>1. LedgerOK(t) /\ Margin(t) >= Margin(s) - a
    BY <1>0, <1>1, <1>3 DEF LedgerOK, Margin
  <2>. QED
    BY <2>1 DEF t
<1>4. CASE u \in Accounts /\ t.bondBalance = [s.bondBalance EXCEPT ![u] = @ + a]
  <2>. DEFINE b == s.bondBalance
              c == t.bondBalance
  <2>1. b \in [Accounts -> Nat]
    BY DEF LedgerOK
  <2>2. c \in [Accounts -> Nat] /\ c[u] = b[u] + a /\ (\A v \in Accounts \ {u} : c[v] = b[v])
        /\ b[u] \in Nat /\ c[u] \in Nat
    BY <1>4, <2>1
  <2>. HIDE DEF b, c
  <2>3. Total(c, Accounts) = Total(b, Accounts) + c[u] - b[u]
    BY <1>4, <2>1, <2>2, AccountsFinite, TotalUpdate
  <2>4. Total(b, Accounts) \in Nat
    BY <1>0 DEF b
  <2>5. Total(c, Accounts) = Total(b, Accounts) + a
    BY <2>2, <2>3, <2>4
  <2>6. s.tkoHeld \in Nat
    BY DEF LedgerOK
  <2>7. Margin(t) = s.tkoHeld - Total(c, Accounts) /\ Margin(s) = s.tkoHeld - Total(b, Accounts)
    BY <1>1 DEF Margin, b, c
  <2>8. Margin(t) >= Margin(s) - a
    BY <2>4, <2>5, <2>6, <2>7
  <2>9. LedgerOK(t)
    BY <1>1, <2>2 DEF LedgerOK, c
  <2>. QED
    BY <2>8, <2>9 DEF t
<1>5. LedgerOK(t) /\ Margin(t) >= Margin(s) - a
  BY <1>2, <1>3, <1>4 DEF t
<1>. QED
  BY <1>5 DEF t

\* debitBond raises the margin by the amount, wherever it takes it from.
LEMMA DebitMargin ==
  ASSUME NEW s, LedgerOK(s), DOMAIN s = Fields, NEW u \in Accounts, NEW a \in Nat, CanDebit(s, u, a)
  PROVE  LET t == DebitBond(s, u, a) IN LedgerOK(t) /\ Margin(t) = Margin(s) + a
<1>. DEFINE t == DebitBond(s, u, a)
            b == s.bondBalance
            c == t.bondBalance
<1>0. Margin(s) \in Int /\ Total(b, Accounts) \in Nat /\ b \in [Accounts -> Nat]
      /\ s.tkoOf \in [Accounts -> Nat] /\ s.tkoHeld \in Nat
  BY MarginType DEF LedgerOK
<1>1. CASE b[u] >= a
  <2>1. t.bondBalance = [b EXCEPT ![u] = @ - a] /\ t.tkoOf = s.tkoOf /\ t.tkoHeld = s.tkoHeld
    BY <1>1 DEF DebitBond, Fields
  <2>. HIDE DEF t
  <2>2. c \in [Accounts -> Nat] /\ c[u] = b[u] - a /\ (\A v \in Accounts \ {u} : c[v] = b[v])
        /\ b[u] \in Nat /\ c[u] \in Nat
    BY <1>0, <1>1, <2>1
  <2>. HIDE DEF b, c
  <2>3. Total(c, Accounts) = Total(b, Accounts) + c[u] - b[u]
    BY <1>0, <2>2, AccountsFinite, TotalUpdate
  <2>4. Total(c, Accounts) = Total(b, Accounts) - a
    BY <1>0, <2>2, <2>3
  <2>5. Margin(t) = s.tkoHeld - Total(c, Accounts) /\ Margin(s) = s.tkoHeld - Total(b, Accounts)
    BY <2>1 DEF Margin, b, c
  <2>6. Margin(t) = Margin(s) + a
    BY <1>0, <2>4, <2>5
  <2>7. LedgerOK(t)
    BY <1>0, <2>1, <2>2 DEF LedgerOK, c
  <2>. QED
    BY <2>6, <2>7 DEF t
<1>2. CASE ~(b[u] >= a)
  <2>1. /\ t.bondBalance = b /\ t.tkoOf = [s.tkoOf EXCEPT ![u] = @ - a]
        /\ t.tkoHeld = s.tkoHeld + a
    BY <1>2 DEF DebitBond, Fields
  <2>2. s.tkoOf[u] >= a
    BY <1>2 DEF CanDebit
  <2>. HIDE DEF t
  <2>3. t.tkoOf \in [Accounts -> Nat] /\ t.tkoHeld \in Nat
    BY <1>0, <2>1, <2>2
  <2>4. Margin(t) = Margin(s) + a
    BY <1>0, <2>1 DEF Margin
  <2>5. LedgerOK(t)
    BY <1>0, <2>1, <2>3 DEF LedgerOK
  <2>. QED
    BY <2>4, <2>5 DEF t
<1>. QED
  BY <1>1, <1>2

\* 12.5% of friction leave no more than the amount, and quarters of it less.
LEMMA FrictionBounds ==
  ASSUME NEW a \in Nat
  PROVE  /\ RewardAfterFriction(a) \in Nat /\ RewardAfterFriction(a) <= a
         /\ RewardAfterFriction(a) \div 4 \in Nat /\ 4 * (RewardAfterFriction(a) \div 4) <= a
<1>1. RewardAfterFriction(a) \in Nat /\ 8 * RewardAfterFriction(a) <= a * 7
  BY DivBounds DEF RewardAfterFriction
<1>. DEFINE r == RewardAfterFriction(a)
<1>2. r \in Nat /\ r <= a
  BY <1>1
<1>. HIDE DEF r
<1>3. r \div 4 \in Nat /\ 4 * (r \div 4) <= r
  BY <1>2, DivBounds
<1>. DEFINE q == r \div 4
<1>4. q \in Nat /\ 4 * q <= a
  <2>. HIDE DEF q
  <2>. QED
    BY <1>2, <1>3 DEF q
<1>. QED
  BY <1>2, <1>4 DEF r

\* The bonds of a record are natural numbers.
LEMMA BondsNat ==
  /\ \A ts \in TransitionRecord :
       /\ ts.validityBond \in Nat /\ ts.contestBond \in Nat /\ BondsOf(ts) \in Nat
       /\ ts.validityBond <= BondsOf(ts)
  /\ \A blk \in BlockRecord : LivenessOf(blk) \in Nat
<1>1. ASSUME NEW ts \in TransitionRecord
      PROVE  /\ ts.validityBond \in Nat /\ ts.contestBond \in Nat /\ BondsOf(ts) \in Nat
             /\ ts.validityBond <= BondsOf(ts)
  <2>1. ts.validityBond \in Nat /\ ts.contestBond \in Nat
    BY DEF TransitionRecord
  <2>. QED
    BY <2>1 DEF BondsOf
<1>2. ASSUME NEW blk \in BlockRecord PROVE LivenessOf(blk) \in Nat
  BY DEF LivenessOf, BlockRecord, MetaRecord
<1>. QED
  BY <1>1, <1>2

\* What the bond moves of a proof, from s to t, leave to the transition it proves: they
\* release `before` and the liveness bond of the block in `slot`, if that was handled.
Released(s, t, slot, before, reward) ==
  /\ LedgerOK(t) /\ DOMAIN t = Fields /\ t.blocks \in [Slots -> BlockRecord]
  /\ \A i \in Slots \ {slot} : LivenessOf(t.blocks[i]) = LivenessOf(s.blocks[i])
  /\ reward \in Int
  /\ Margin(t) - reward >= Margin(s) - before
       + (LivenessOf(t.blocks[slot]) - LivenessOf(s.blocks[slot]))

\* A contest pays no more than the bonds of prover and contester.
LEMMA ContestReleases ==
  ASSUME NEW s, StorageInv(s), LedgerOK(s), NEW p, ProofRecord(p), p.ts.contester # NoAddr
  PROVE  LET moved == ContestResolved(s, p)
         IN  Released(s, moved.s, p.slot, BondsOf(p.ts), moved.reward)
<1>. DEFINE vb == p.ts.validityBond
            cb == p.ts.contestBond
            quarter == RewardAfterFriction(vb) \div 4
            slot == p.slot
<1>1. /\ vb \in Nat /\ cb \in Nat /\ BondsOf(p.ts) = vb + cb /\ slot \in Slots
      /\ DOMAIN s = Fields /\ s.blocks \in [Slots -> BlockRecord]
  BY BondsNat DEF ProofRecord, BondsOf, StorageInv, IsStorage
<1>2. /\ RewardAfterFriction(cb) \in Nat /\ RewardAfterFriction(cb) <= cb
      /\ quarter \in Nat /\ 4 * quarter <= vb
  <2>. HIDE DEF vb, cb
  <2>. QED
    BY <1>1, FrictionBounds DEF quarter
<1>3. Margin(s) \in Int /\ LivenessOf(s.blocks[slot]) \in Nat
  BY <1>1, MarginType, BondsNat
<1>4. CASE p.sameTransition
  <2>. DEFINE t == CreditBond(s, p.ts.prover, vb)
              reward == RewardAfterFriction(cb)
  <2>1. ContestResolved(s, p).s = t /\ ContestResolved(s, p).reward = reward
    BY <1>4 DEF ContestResolved
  <2>2. t.blocks = s.blocks /\ DOMAIN t = Fields
    BY <1>1 DEF CreditBond, Fields
  <2>3. LedgerOK(t) /\ Margin(t) >= Margin(s) - vb
    <3>. HIDE DEF vb
    <3>. QED
      BY <1>1, CreditMargin
  <2>. HIDE DEF t, vb, cb, slot, reward
  <2>4. Margin(t) \in Int
    BY <2>3, MarginType
  <2>5. Margin(t) - reward >= Margin(s) - (vb + cb)
    BY <1>1, <1>2, <1>3, <2>3, <2>4 DEF reward
  <2>6. reward \in Int
    BY <1>2 DEF reward
  <2>7. Released(s, t, slot, vb + cb, reward)
    BY <1>1, <1>3, <2>2, <2>3, <2>4, <2>5, <2>6 DEF Released
  <2>. QED
    BY <1>1, <2>1, <2>7 DEF slot
<1>5. CASE ~p.sameTransition
  <2>. DEFINE paid == cb + quarter * 3
              t == CreditBond(s, p.ts.contester, paid)
  <2>1. ContestResolved(s, p).s = t /\ ContestResolved(s, p).reward = quarter
    BY <1>5 DEF ContestResolved
  <2>2. t.blocks = s.blocks /\ DOMAIN t = Fields
    BY <1>1 DEF CreditBond, Fields
  <2>. HIDE DEF vb, cb, slot, quarter
  <2>3. paid \in Nat /\ paid + quarter <= vb + cb
    BY <1>1, <1>2
  <2>4. LedgerOK(t) /\ Margin(t) >= Margin(s) - paid
    <3>. HIDE DEF paid
    <3>. QED
      BY <1>1, <2>3, CreditMargin
  <2>. HIDE DEF t, paid
  <2>5. Margin(t) \in Int
    BY <2>4, MarginType
  <2>6. Margin(t) - quarter >= Margin(s) - (vb + cb)
    BY <1>1, <1>2, <1>3, <2>3, <2>4, <2>5
  <2>7. Released(s, t, slot, vb + cb, quarter)
    BY <1>1, <1>2, <1>3, <2>2, <2>4, <2>5, <2>6 DEF Released
  <2>. QED
    BY <1>1, <2>1, <2>7 DEF slot
<1>. QED
  BY <1>4, <1>5

\* Handling the liveness bond of a block releases it.
LEMMA HandledReleases ==
  ASSUME NEW s, StorageInv(s), LedgerOK(s), NEW p, ProofRecord(p), NEW bond \in Nat,
         bond <= LivenessOf(s.blocks[p.slot])
  PROVE  Released(s, IF bond = 0 THEN s ELSE LivenessBondHandled(s, p), p.slot, 0, bond)
<1>. DEFINE slot == p.slot
            l == LivenessOf(s.blocks[slot])
<1>1. /\ DOMAIN s = Fields /\ s.blocks \in [Slots -> BlockRecord] /\ slot \in Slots
      /\ s.blocks[slot] \in BlockRecord
  BY DEF StorageInv, IsStorage, ProofRecord
<1>2. l \in Nat /\ Margin(s) \in Int /\ bond <= l
  BY <1>1, BondsNat, MarginType
<1>3. CASE bond = 0
  <2>. HIDE DEF l
  <2>1. Margin(s) - 0 >= Margin(s) - 0 + (l - l)
    BY <1>2
  <2>. QED
    BY <1>1, <1>3, <2>1 DEF Released, l
<1>4. CASE bond # 0
  <2>. DEFINE t == LivenessBondHandled(s, p)
              blk == [s.blocks[slot] EXCEPT !.livenessBond = 0, !.livenessBondReturned = TRUE]
  <2>1. /\ DOMAIN t = Fields /\ \A f \in Fields \ {"blocks"} : t[f] = s[f]
        /\ t.blocks = [s.blocks EXCEPT ![slot] = blk]
    BY <1>1 DEF LivenessBondHandled, Fields
  <2>2. blk \in BlockRecord /\ LivenessOf(blk) = 0
    BY <1>1 DEF BlockRecord, LivenessOf
  <2>. HIDE DEF t, blk
  <2>3. t.blocks \in [Slots -> BlockRecord] /\ t.blocks[slot] = blk
        /\ \A i \in Slots \ {slot} : t.blocks[i] = s.blocks[i]
    BY <1>1, <2>1, <2>2
  <2>4. LedgerOK(t) /\ Margin(t) = Margin(s)
    BY <2>1 DEF LedgerOK, Margin, Fields
  <2>5. Margin(s) - bond >= Margin(s) - 0 + (0 - l)
    <3>. HIDE DEF l
    <3>. QED
      BY <1>2
  <2>6. Margin(t) - bond >= Margin(s) - 0 + (LivenessOf(t.blocks[slot]) - l)
    BY <2>2, <2>3, <2>4, <2>5
  <2>7. Released(s, t, slot, 0, bond)
    BY <2>1, <2>3, <2>4, <2>6 DEF Released
  <2>. QED
    BY <1>4, <2>7 DEF t
<1>. QED
  BY <1>3, <1>4

\* Without a contest the prover's bond and the liveness bond are released.
LEMMA UncontestedReleases ==
  ASSUME NEW s, StorageInv(s), LedgerOK(s), NEW p, ProofRecord(p), p.livenessBond \in Nat,
         p.livenessBond <= LivenessOf(s.blocks[p.slot])
  PROVE  LET moved == ProvedUncontested(s, p)
         IN  Released(s, moved.s, p.slot, BondsOf(p.ts), moved.reward)
<1>. DEFINE handled == IF p.livenessBond = 0 THEN s ELSE LivenessBondHandled(s, p)
            friction == RewardAfterFriction(p.ts.validityBond)
            bond == p.livenessBond
            before == BondsOf(p.ts)
            slot == p.slot
<1>1. /\ Released(s, handled, slot, 0, bond)
      /\ s.blocks \in [Slots -> BlockRecord] /\ slot \in Slots
  BY HandledReleases DEF ProofRecord, StorageInv, IsStorage
<1>2. friction \in Nat /\ friction <= before /\ before \in Nat
  <2>1. p.ts.validityBond \in Nat /\ before \in Nat /\ p.ts.validityBond <= before
    BY BondsNat DEF ProofRecord
  <2>. DEFINE vb == p.ts.validityBond
  <2>2. vb \in Nat /\ vb <= before /\ before \in Nat
    BY <2>1
  <2>. HIDE DEF vb, before
  <2>3. RewardAfterFriction(vb) \in Nat /\ RewardAfterFriction(vb) <= vb
    BY <2>2, FrictionBounds
  <2>. QED
    BY <2>2, <2>3 DEF vb
<1>3. /\ LedgerOK(handled) /\ DOMAIN handled = Fields /\ handled.blocks \in [Slots -> BlockRecord]
      /\ \A i \in Slots \ {slot} : LivenessOf(handled.blocks[i]) = LivenessOf(s.blocks[i])
      /\ Margin(handled) - bond >= Margin(s) - 0
           + (LivenessOf(handled.blocks[slot]) - LivenessOf(s.blocks[slot]))
  BY <1>1 DEF Released
<1>. HIDE DEF handled
<1>4. /\ Margin(s) \in Int /\ Margin(handled) \in Int
      /\ LivenessOf(s.blocks[slot]) \in Nat /\ LivenessOf(handled.blocks[slot]) \in Nat
  BY <1>1, <1>3, MarginType, BondsNat
<1>. DEFINE credited == CreditBond(handled, p.assignedProver, bond)
<1>5. /\ LedgerOK(credited) /\ Margin(credited) >= Margin(handled) - bond
      /\ DOMAIN credited = Fields /\ credited.blocks = handled.blocks
  <2>1. DOMAIN credited = Fields /\ credited.blocks = handled.blocks
    BY <1>3 DEF CreditBond, Fields
  <2>2. LedgerOK(credited) /\ Margin(credited) >= Margin(handled) - bond
    BY <1>3, CreditMargin
  <2>. QED
    BY <2>1, <2>2
<1>6. \/ ProvedUncontested(s, p) = [reward |-> friction, s |-> handled]
      \/ ProvedUncontested(s, p) = [reward |-> friction + bond, s |-> handled]
      \/ ProvedUncontested(s, p) = [reward |-> friction, s |-> credited]
  BY DEF ProvedUncontested, handled
<1>. DEFINE m == Margin(s)
            h == Margin(handled)
            c == Margin(credited)
            l == LivenessOf(s.blocks[slot])
            k == LivenessOf(handled.blocks[slot])
<1>7. c \in Int
  BY <1>5, MarginType
<1>8. h - bond >= m - 0 + (k - l) /\ c >= h - bond /\ m \in Int /\ h \in Int /\ l \in Nat /\ k \in Nat
      /\ bond \in Nat
  BY <1>3, <1>4, <1>5
<1>. HIDE DEF m, h, c, l, k, friction, bond, before, credited
<1>9. /\ h - friction >= m - before + (k - l)
      /\ h - (friction + bond) >= m - before + (k - l)
      /\ c - friction >= m - before + (k - l)
  BY <1>2, <1>7, <1>8
<1>10. /\ Released(s, handled, slot, before, friction)
       /\ Released(s, handled, slot, before, friction + bond)
       /\ Released(s, credited, slot, before, friction)
  BY <1>2, <1>3, <1>5, <1>8, <1>9 DEF Released, m, h, c, l, k
<1>. QED
  BY <1>6, <1>10 DEF slot, before

\* The bond moves of _overrideWithHigherProof release what the transition held.
LEMMA OverriddenReleases ==
  ASSUME NEW s, StorageInv(s), LedgerOK(s), NEW p, ProofRecord(p), p.livenessBond \in Nat,
         p.livenessBond <= LivenessOf(s.blocks[p.slot])
  PROVE  LET moved == Overridden(s, p)
         IN  Released(s, moved.s, p.slot, BondsOf(p.ts), moved.reward)
BY ContestReleases, UncontestedReleases DEF Overridden

\* What a proof does to the bonds: the margin moves with the bonds of the transition it
\* writes, which held `before`, and with the liveness bond of the block.
Paid(s, t, slot, tid, before) ==
  /\ LedgerOK(t)
  /\ \A i \in Slots \ {slot} : LivenessOf(t.blocks[i]) = LivenessOf(s.blocks[i])
  /\ Margin(t) >= Margin(s) + (BondsOf(t.transitions[slot][tid]) - before)
       + (LivenessOf(t.blocks[slot]) - LivenessOf(s.blocks[slot]))

\* A proof of a higher tier pays the new validity bond from the reward and the sender.
LEMMA OverridePaid ==
  ASSUME NEW s, StorageInv(s), LedgerOK(s), NEW p, ProofRecord(p), ClockTypeOK,
         p.livenessBond \in Nat, p.livenessBond <= LivenessOf(s.blocks[p.slot]),
         CanOverride(s, p)
  PROVE  Paid(s, OverrideWithHigherProof(s, p), p.slot, p.tid, BondsOf(p.ts))
<1>. DEFINE moved == Overridden(s, p)
            bond == p.tier.validityBond
            reward == moved.reward
            slot == p.slot
            settled == IF moved.reward > bond
                       THEN CreditBond(moved.s, p.sender, moved.reward - bond)
                       ELSE DebitBond(moved.s, p.sender, bond - moved.reward)
            ts == [p.ts EXCEPT !.validityBond = bond, !.contester = NoAddr,
                               !.prover = p.sender, !.tier = p.tierId, !.timestamp = now,
                               !.blockHash = p.blockHash, !.stateRoot = p.stateRoot]
            t == OverrideWithHigherProof(s, p)
            before == BondsOf(p.ts)
<1>1. /\ slot \in Slots /\ p.tid \in Tids /\ p.sender \in Accounts /\ p.ts \in TransitionRecord
      /\ s.blocks \in [Slots -> BlockRecord]
      /\ s.transitions \in [Slots -> [Tids -> TransitionRecord]]
  BY DEF ProofRecord, StorageInv, IsStorage
<1>2. Released(s, moved.s, slot, before, reward)
  BY OverriddenReleases
<1>3. /\ LedgerOK(moved.s) /\ DOMAIN moved.s = Fields
      /\ moved.s.blocks \in [Slots -> BlockRecord] /\ reward \in Int
      /\ \A i \in Slots \ {slot} : LivenessOf(moved.s.blocks[i]) = LivenessOf(s.blocks[i])
      /\ Margin(moved.s) - reward >= Margin(s) - before
           + (LivenessOf(moved.s.blocks[slot]) - LivenessOf(s.blocks[slot]))
  BY <1>2 DEF Released
<1>4. bond \in Nat
  BY DomainAssumption DEF ProofRecord, TierRecord
<1>5. moved.s.transitions = s.transitions
  BY <1>1, OverriddenHistory DEF SameHistory
<1>6. reward >= bond \/ CanDebit(moved.s, p.sender, bond - reward)
  BY DEF CanOverride
<1>. HIDE DEF moved, before
<1>7. t = [settled EXCEPT !.transitions[slot][p.tid] = ts]
  BY Zenon DEF OverrideWithHigherProof, moved
<1>8. BondsOf(ts) = bond
  <2>. HIDE DEF bond
  <2>1. ts.validityBond = bond /\ ts.contester = NoAddr
    BY <1>1 DEF TransitionRecord
  <2>. HIDE DEF ts
  <2>. QED
    BY <1>4, <2>1 DEF BondsOf
<1>9. /\ LedgerOK(settled) /\ Margin(settled) >= Margin(moved.s) - reward + bond
      /\ settled.blocks = moved.s.blocks /\ settled.transitions = moved.s.transitions
      /\ DOMAIN settled = Fields
  <2>0. Margin(moved.s) \in Int
    BY <1>3, MarginType
  <2>1. CASE reward > bond
    <3>. DEFINE a == reward - bond
                r == CreditBond(moved.s, p.sender, a)
    <3>1. settled = r
      BY <2>1
    <3>2. a \in Nat /\ a = reward - bond
      <4>. HIDE DEF reward, bond
      <4>. QED
        BY <1>3, <1>4, <2>1
    <3>3. r.blocks = moved.s.blocks /\ r.transitions = moved.s.transitions /\ DOMAIN r = Fields
      BY <1>3 DEF CreditBond, Fields
    <3>. HIDE DEF a
    <3>4. LedgerOK(r) /\ Margin(r) >= Margin(moved.s) - a
      BY <1>3, <3>2, CreditMargin
    <3>5. Margin(r) \in Int
      BY <3>4, MarginType
    <3>. HIDE DEF r, settled, reward, bond
    <3>6. Margin(r) >= Margin(moved.s) - reward + bond
      BY <1>3, <1>4, <2>0, <3>2, <3>4, <3>5
    <3>. QED
      BY <3>1, <3>3, <3>4, <3>6
  <2>2. CASE ~(reward > bond)
    <3>. DEFINE a == bond - reward
                r == DebitBond(moved.s, p.sender, a)
    <3>1. settled = r
      BY <2>2
    <3>2. a \in Nat /\ a = bond - reward /\ (reward >= bond => a = 0)
      <4>. HIDE DEF reward, bond
      <4>. QED
        BY <1>3, <1>4, <2>2
    <3>3. r.blocks = moved.s.blocks /\ r.transitions = moved.s.transitions /\ DOMAIN r = Fields
      BY <1>3 DEF DebitBond, Fields
    <3>4. CanDebit(moved.s, p.sender, a)
      <4>1. moved.s.bondBalance[p.sender] \in Nat
        BY <1>1, <1>3 DEF LedgerOK
      <4>2. CASE reward >= bond
        <5>1. a = 0
          BY <3>2, <4>2
        <5>. HIDE DEF a
        <5>. QED
          BY <4>1, <5>1 DEF CanDebit
      <4>3. CASE CanDebit(moved.s, p.sender, bond - reward)
        BY <4>3
      <4>. QED
        BY <1>6, <4>2, <4>3
    <3>. HIDE DEF a
    <3>5. LedgerOK(r) /\ Margin(r) = Margin(moved.s) + a
      BY <1>1, <1>3, <3>2, <3>4, DebitMargin
    <3>. HIDE DEF r, settled, reward, bond
    <3>6. Margin(r) >= Margin(moved.s) - reward + bond
      BY <1>3, <1>4, <2>0, <3>2, <3>5
    <3>. QED
      BY <3>1, <3>3, <3>5, <3>6
  <2>. QED
    BY <2>1, <2>2
<1>. HIDE DEF settled, ts, t, bond, reward
<1>10. /\ t.blocks = moved.s.blocks /\ t.transitions[slot][p.tid] = ts
       /\ LedgerOK(t) /\ Margin(t) = Margin(settled)
  <2>1. /\ \A f \in Fields \ {"transitions"} : t[f] = settled[f]
        /\ t.transitions = [s.transitions EXCEPT ![slot][p.tid] = ts]
    BY <1>5, <1>7, <1>9 DEF Fields
  <2>2. t.transitions[slot][p.tid] = ts
    BY <1>1, <2>1
  <2>3. t.bondBalance = settled.bondBalance /\ t.tkoOf = settled.tkoOf
        /\ t.tkoHeld = settled.tkoHeld /\ t.blocks = settled.blocks
    BY <2>1 DEF Fields
  <2>. QED
    BY <1>9, <2>2, <2>3 DEF LedgerOK, Margin
<1>. DEFINE l == LivenessOf(s.blocks[slot])
            k == LivenessOf(moved.s.blocks[slot])
<1>11. l \in Nat /\ k \in Nat /\ before \in Nat
  BY <1>1, <1>3, BondsNat DEF before
<1>12. Margin(s) \in Int /\ Margin(moved.s) \in Int /\ Margin(t) \in Int
  BY <1>3, <1>10, MarginType
<1>13. Margin(t) >= Margin(moved.s) - reward + bond
  BY <1>9, <1>10
<1>14. Margin(moved.s) - reward >= Margin(s) - before + (k - l)
  BY <1>3
<1>. HIDE DEF l, k, slot
<1>15. Margin(t) >= Margin(s) + (bond - before) + (k - l)
  BY <1>3, <1>4, <1>11, <1>12, <1>13, <1>14
<1>16. \A i \in Slots \ {slot} : LivenessOf(t.blocks[i]) = LivenessOf(s.blocks[i])
  BY <1>3, <1>10
<1>17. Margin(t) >= Margin(s) + (BondsOf(t.transitions[slot][p.tid]) - before)
         + (LivenessOf(t.blocks[slot]) - LivenessOf(s.blocks[slot]))
  BY <1>8, <1>10, <1>15 DEF k, l
<1>18. Paid(s, t, slot, p.tid, before)
  BY <1>10, <1>16, <1>17 DEF Paid
<1>. QED
  BY <1>18 DEF t, slot, before

\* A second proof of the top tier leaves every bond where it is.
LEMMA ReprovedPaid ==
  ASSUME NEW s, StorageInv(s), LedgerOK(s), NEW p, ProofRecord(p)
  PROVE  Paid(s, Reproved(s, p), p.slot, p.tid, BondsOf(p.ts))
<1>. DEFINE ts == [p.ts EXCEPT !.prover = p.sender, !.timestamp = now,
                               !.blockHash = p.blockHash, !.stateRoot = p.stateRoot]
            t == Reproved(s, p)
            slot == p.slot
<1>1. /\ slot \in Slots /\ p.tid \in Tids /\ p.ts \in TransitionRecord /\ DOMAIN s = Fields
      /\ s.blocks \in [Slots -> BlockRecord]
      /\ s.transitions \in [Slots -> [Tids -> TransitionRecord]]
  BY DEF ProofRecord, StorageInv, IsStorage
<1>2. BondsOf(ts) = BondsOf(p.ts)
  <2>1. /\ ts.validityBond = p.ts.validityBond /\ ts.contestBond = p.ts.contestBond
        /\ ts.contester = p.ts.contester
    BY <1>1 DEF TransitionRecord
  <2>. HIDE DEF ts
  <2>. QED
    BY <2>1 DEF BondsOf
<1>3. t = [s EXCEPT !.transitions[slot][p.tid] = ts]
  BY Zenon DEF Reproved
<1>. HIDE DEF t, ts
<1>4. /\ \A f \in Fields \ {"transitions"} : t[f] = s[f]
      /\ t.transitions = [s.transitions EXCEPT ![slot][p.tid] = ts]
  BY <1>1, <1>3 DEF Fields
<1>5. t.transitions[slot][p.tid] = ts
  BY <1>1, <1>4
<1>6. LedgerOK(t) /\ Margin(t) = Margin(s) /\ t.blocks = s.blocks
  BY <1>4 DEF LedgerOK, Margin, Fields
<1>. DEFINE l == LivenessOf(s.blocks[slot])
            b == BondsOf(p.ts)
<1>7. l \in Nat /\ b \in Nat /\ Margin(s) \in Int
  BY <1>1, BondsNat, MarginType
<1>. HIDE DEF l, b
<1>8. Margin(s) >= Margin(s) + (b - b) + (l - l)
  BY <1>7
<1>9. Paid(s, t, slot, p.tid, b)
  BY <1>2, <1>5, <1>6, <1>8 DEF Paid, l, b
<1>. QED
  BY <1>9 DEF t, b

\* A contest brings its own bond.
LEMMA ContestedPaid ==
  ASSUME NEW s, StorageInv(s), LedgerOK(s), NEW p, ProofRecord(p), CanContest(s, p)
  PROVE  Paid(s, Contested(s, p), p.slot, p.tid, BondsOf(p.ts))
<1>. DEFINE bond == p.tier.contestBond
            debited == DebitBond(s, p.sender, p.tier.contestBond)
            ts == [p.ts EXCEPT !.contestBond = bond, !.contester = p.sender,
                               !.timestamp = now]
            t == Contested(s, p)
            slot == p.slot
<1>1. /\ slot \in Slots /\ p.tid \in Tids /\ p.ts \in TransitionRecord /\ DOMAIN s = Fields
      /\ p.sender \in Accounts /\ p.sender # NoAddr
      /\ s.blocks \in [Slots -> BlockRecord]
      /\ s.transitions \in [Slots -> [Tids -> TransitionRecord]]
  BY AddressAssumption DEF ProofRecord, StorageInv, IsStorage, Accounts
<1>2. bond \in Nat /\ CanDebit(s, p.sender, bond) /\ p.ts.contester = NoAddr
  BY DomainAssumption DEF ProofRecord, TierRecord, CanContest
<1>3. LedgerOK(debited) /\ Margin(debited) = Margin(s) + bond
  <2>. HIDE DEF bond
  <2>1. LedgerOK(DebitBond(s, p.sender, bond))
        /\ Margin(DebitBond(s, p.sender, bond)) = Margin(s) + bond
    BY <1>1, <1>2, DebitMargin
  <2>. QED
    BY <2>1 DEF bond
<1>4. DOMAIN debited = Fields /\ debited.blocks = s.blocks /\ debited.transitions = s.transitions
  BY <1>1 DEF DebitBond, Fields
<1>5. BondsOf(ts) = BondsOf(p.ts) + bond
  <2>. HIDE DEF bond
  <2>1. ts.validityBond = p.ts.validityBond /\ ts.contestBond = bond /\ ts.contester = p.sender
        /\ p.ts.validityBond \in Nat
    BY <1>1, <1>2 DEF TransitionRecord
  <2>. HIDE DEF ts
  <2>. QED
    BY <1>1, <1>2, <2>1 DEF BondsOf
<1>. HIDE DEF debited, ts
<1>6. t = [debited EXCEPT !.transitions[slot][p.tid] = ts,
                          !.contests = @ \cup {<<p.id, p.tid, p.tierId>>}]
  BY Zenon DEF Contested, debited, ts
<1>. HIDE DEF t
<1>7. /\ \A f \in Fields \ {"transitions", "contests"} : t[f] = debited[f]
      /\ t.transitions = [s.transitions EXCEPT ![slot][p.tid] = ts]
  BY <1>4, <1>6 DEF Fields
<1>8. t.transitions[slot][p.tid] = ts
  BY <1>1, <1>7
<1>9. LedgerOK(t) /\ Margin(t) = Margin(s) + bond /\ t.blocks = s.blocks
  BY <1>3, <1>4, <1>7 DEF LedgerOK, Margin, Fields
<1>. DEFINE l == LivenessOf(s.blocks[slot])
            b == BondsOf(p.ts)
<1>10. l \in Nat /\ b \in Nat /\ Margin(s) \in Int
  BY <1>1, BondsNat, MarginType
<1>. HIDE DEF l, b, bond
<1>11. Margin(s) + bond >= Margin(s) + ((b + bond) - b) + (l - l)
  BY <1>2, <1>10
<1>12. Paid(s, t, slot, p.tid, b)
  BY <1>5, <1>8, <1>9, <1>11 DEF Paid, l, b
<1>. QED
  BY <1>12 DEF t, b

\* Whatever a proof turns out to be, it pays for what it takes out.
LEMMA SettledPaid ==
  ASSUME NEW s, StorageInv(s), LedgerOK(s), NEW p, ProofRecord(p), ClockTypeOK,
         p.livenessBond \in Nat, p.livenessBond <= LivenessOf(s.blocks[p.slot]),
         NEW t \in Settled(s, p)
  PROVE  Paid(s, t, p.slot, p.tid, BondsOf(p.ts))
BY OverridePaid, ReprovedPaid, ContestedPaid DEF Settled

\* The bonds of the first n transitions in a slot.
Held(s, slot, n) == Total([tid \in 1 .. n |-> BondsOf(s.transitions[slot][tid])], 1 .. n)

\* The bonds of a block are its liveness bond and those of its transitions.
LEMMA OutstandingDef ==
  ASSUME NEW s, NEW id
  PROVE  OutstandingBonds(s, id) =
           LivenessOf(s.blocks[Slot(id)]) + Held(s, Slot(id), s.blocks[Slot(id)].nextTransitionId - 1)
BY DEF OutstandingBonds, LivenessOf, Held

\* They are natural numbers.
LEMMA HeldNat ==
  ASSUME NEW s, StorageInv(s), NEW slot \in Slots, NEW n \in Nat, n <= MaxTransitions
  PROVE  /\ IsFiniteSet(1 .. n) /\ 1 .. n \subseteq Tids
         /\ \A tid \in 1 .. n : BondsOf(s.transitions[slot][tid]) \in Nat
         /\ Held(s, slot, n) \in Nat
<1>1. IsFiniteSet(1 .. n)
  BY FS_Interval
<1>2. 1 .. n \subseteq Tids
  BY ConfigAssumption DEF Tids
<1>3. s.transitions \in [Slots -> [Tids -> TransitionRecord]]
  BY DEF StorageInv, IsStorage
<1>4. \A tid \in 1 .. n : BondsOf(s.transitions[slot][tid]) \in Nat
  BY <1>2, <1>3, BondsNat
<1>. DEFINE w == [tid \in 1 .. n |-> BondsOf(s.transitions[slot][tid])]
<1>5. \A tid \in 1 .. n : w[tid] \in Nat
  BY <1>4
<1>. HIDE DEF w
<1>6. Total(w, 1 .. n) \in Nat
  BY <1>1, <1>5, TotalNat
<1>. QED
  BY <1>1, <1>2, <1>4, <1>6 DEF Held, w

\* A transition is written over an old one, or after the last.
LEMMA HeldWritten ==
  ASSUME NEW s, StorageInv(s), NEW t, StorageInv(t), NEW slot \in Slots, NEW tid \in Tids,
         NEW ts \in TransitionRecord, t.transitions = [s.transitions EXCEPT ![slot][tid] = ts],
         NEW n \in Nat, n <= MaxTransitions, tid <= n + 1
  PROVE  /\ tid <= n =>
              Held(t, slot, n) = Held(s, slot, n) + BondsOf(ts) - BondsOf(s.transitions[slot][tid])
         /\ tid = n + 1 => Held(t, slot, n + 1) = Held(s, slot, n) + BondsOf(ts)
<1>1. /\ s.transitions \in [Slots -> [Tids -> TransitionRecord]] /\ tid \in Nat /\ tid >= 1
      /\ tid <= MaxTransitions
  <2>1. s.transitions \in [Slots -> [Tids -> TransitionRecord]]
    BY DEF StorageInv, IsStorage
  <2>2. tid \in Nat /\ tid >= 1 /\ tid <= MaxTransitions
    BY ConfigAssumption DEF Tids
  <2>. QED
    BY <2>1, <2>2
<1>2. /\ t.transitions[slot][tid] = ts
      /\ \A j \in Tids \ {tid} : t.transitions[slot][j] = s.transitions[slot][j]
  BY <1>1
<1>3. BondsOf(ts) \in Nat
  BY BondsNat
<1>4. /\ IsFiniteSet(1 .. n) /\ 1 .. n \subseteq Tids
      /\ \A j \in 1 .. n : BondsOf(s.transitions[slot][j]) \in Nat
  BY HeldNat
<1>5. CASE tid <= n
  <2>. DEFINE D == 1 .. n
              w == [j \in D |-> BondsOf(s.transitions[slot][j])]
              v == [j \in D |-> BondsOf(t.transitions[slot][j])]
  <2>1. tid \in D /\ tid # n + 1 /\ IsFiniteSet(D) /\ D \subseteq Tids
    BY <1>1, <1>4, <1>5
  <2>. HIDE DEF D
  <2>2. /\ v[tid] = BondsOf(ts) /\ w[tid] = BondsOf(s.transitions[slot][tid])
        /\ \A j \in D : w[j] \in Nat
        /\ \A j \in D \ {tid} : v[j] = w[j]
    BY <1>2, <1>4, <2>1 DEF D
  <2>3. Held(t, slot, n) = Total(v, D) /\ Held(s, slot, n) = Total(w, D)
    BY DEF Held, D
  <2>. HIDE DEF w, v
  <2>4. v[tid] \in Nat
    BY <1>3, <2>2
  <2>5. Total(v, D) = Total(w, D) + v[tid] - w[tid]
    BY <2>1, <2>2, <2>4, TotalUpdate
  <2>. QED
    BY <2>1, <2>2, <2>3, <2>5
<1>6. CASE tid = n + 1
  <2>. DEFINE D == 1 .. n
              w == [j \in D |-> BondsOf(s.transitions[slot][j])]
              v == [j \in 1 .. n + 1 |-> BondsOf(t.transitions[slot][j])]
  <2>1. /\ tid \notin D /\ D \cup {tid} = 1 .. n + 1 /\ IsFiniteSet(D) /\ D \subseteq Tids
        /\ ~(tid <= n)
    BY <1>4, <1>6
  <2>. HIDE DEF D
  <2>2. /\ v[tid] = BondsOf(ts)
        /\ \A j \in D : v[j] = w[j] /\ w[j] \in Nat
    BY <1>2, <1>4, <2>1 DEF D
  <2>3. Held(t, slot, n + 1) = Total(v, D \cup {tid}) /\ Held(s, slot, n) = Total(w, D)
    BY <2>1 DEF Held, D
  <2>. HIDE DEF w, v
  <2>4. \A j \in D \cup {tid} : v[j] \in Nat
    BY <1>3, <2>2
  <2>5. Total(v, D \cup {tid}) = Total(v, D) + v[tid]
    BY <2>1, <2>4, TotalAdd
  <2>6. Total(v, D) = Total(w, D)
    BY <2>1, <2>2, TotalSame
  <2>. QED
    BY <2>1, <2>2, <2>3, <2>5, <2>6
<1>. QED
  BY <1>1, <1>5, <1>6

\* The dues are natural numbers, block by block.
LEMMA DuesNat ==
  ASSUME NEW s, StorageInv(s), RoomOK(s)
  PROVE  /\ IsFiniteSet(Pending(s))
         /\ \A id \in Pending(s) : OutstandingBonds(s, id) \in Nat
         /\ Dues(s) \in Nat
<1>1. s.lastVerifiedBlockId \in Nat /\ s.numBlocks \in Nat
  BY DEF StorageInv, IsStorage
<1>2. IsFiniteSet(Pending(s))
  <2>1. s.lastVerifiedBlockId + 1 \in Int /\ s.numBlocks - 1 \in Int
    BY <1>1
  <2>. QED
    BY <2>1, FS_Interval DEF Pending
<1>3. ASSUME NEW id \in Pending(s) PROVE OutstandingBonds(s, id) \in Nat
  <2>. DEFINE n == s.blocks[Slot(id)].nextTransitionId - 1
  <2>1. id \in s.lastVerifiedBlockId .. s.numBlocks - 1 /\ id \in Nat
    BY <1>1 DEF Pending
  <2>2. Slot(id) \in Slots /\ s.blocks[Slot(id)] \in BlockRecord
        /\ s.blocks[Slot(id)].nextTransitionId # 0
    BY <2>1, SlotInRing DEF StorageInv, IsStorage, RingOK
  <2>3. n \in Nat
    BY <2>2 DEF BlockRecord
  <2>4. n <= MaxTransitions
    BY DEF RoomOK
  <2>5. OutstandingBonds(s, id) = LivenessOf(s.blocks[Slot(id)]) + Held(s, Slot(id), n)
    BY OutstandingDef
  <2>. HIDE DEF n
  <2>6. Held(s, Slot(id), n) \in Nat /\ LivenessOf(s.blocks[Slot(id)]) \in Nat
    BY <2>2, <2>3, <2>4, HeldNat, BondsNat
  <2>. QED
    BY <2>5, <2>6
<1>. DEFINE w == [id \in Pending(s) |-> OutstandingBonds(s, id)]
<1>4. \A id \in Pending(s) : w[id] \in Nat
  BY <1>3
<1>. HIDE DEF w
<1>5. Total(w, Pending(s)) \in Nat
  BY <1>2, <1>4, TotalNat
<1>. QED
  BY <1>2, <1>3, <1>5 DEF Dues, w

\* A proof that pays for what it takes out keeps the contract solvent.
LEMMA WrittenSolvent ==
  ASSUME NEW s, StorageInv(s), SolventInv(s), NEW t, StorageInv(t),
         NEW id \in Pending(s), NEW tid \in Tids, NEW ts \in TransitionRecord,
         Written(s, t, id, tid, ts), NEW before,
         before = IF tid = s.blocks[Slot(id)].nextTransitionId THEN 0
                  ELSE BondsOf(s.transitions[Slot(id)][tid]),
         Paid(s, t, Slot(id), tid, before)
  PROVE  SolventInv(t)
<1>. DEFINE slot == Slot(id)
            next == s.blocks[slot].nextTransitionId
            n == next - 1
            m == t.blocks[slot].nextTransitionId - 1
<1>1. /\ s.lastVerifiedBlockId \in Nat /\ s.numBlocks \in Nat /\ id \in Nat
      /\ id \in s.lastVerifiedBlockId .. s.numBlocks - 1
      /\ s.blocks \in [Slots -> BlockRecord] /\ t.blocks \in [Slots -> BlockRecord]
      /\ s.transitions \in [Slots -> [Tids -> TransitionRecord]]
  BY DEF StorageInv, IsStorage, Pending
<1>2. /\ slot \in Slots
      /\ \A other \in Pending(s) : Slot(other) \in Slots /\ (other # id => Slot(other) # slot)
  <2>. DEFINE used == s.lastVerifiedBlockId .. s.numBlocks - 1
  <2>1. Pending(s) \subseteq used
    BY <1>1 DEF Pending
  <2>2. \A a \in used : Slot(a) \in Slots /\ (Slot(a) = Slot(id) => a = id)
    BY <1>1, RingSlots
  <2>. QED
    BY <2>1, <2>2
<1>3. /\ t.lastVerifiedBlockId = s.lastVerifiedBlockId /\ t.numBlocks = s.numBlocks
      /\ \A i \in Slots \ {slot} : t.blocks[i].nextTransitionId = s.blocks[i].nextTransitionId
      /\ t.blocks[slot].nextTransitionId = IF tid = next THEN next + 1 ELSE next
      /\ t.transitions = [s.transitions EXCEPT ![slot][tid] = ts]
      /\ tid <= next
  BY DEF Written
<1>4. Pending(t) = Pending(s)
  BY <1>3 DEF Pending
<1>5. n \in Nat /\ n <= MaxTransitions /\ next = n + 1 /\ tid \in Nat /\ tid >= 1
      /\ tid <= MaxTransitions
  <2>1. next \in Nat /\ next # 0
    BY <1>1, <1>2 DEF BlockRecord, StorageInv, RingOK
  <2>2. n <= MaxTransitions
    BY DEF SolventInv, RoomOK
  <2>3. tid \in Nat /\ tid >= 1 /\ tid <= MaxTransitions
    BY ConfigAssumption DEF Tids
  <2>. QED
    BY <2>1, <2>2, <2>3
<1>6. /\ tid <= n => m = n
      /\ tid = n + 1 => m = n + 1
      /\ tid <= n + 1 /\ m <= MaxTransitions /\ m \in Nat
  BY <1>3, <1>5
<1>7. RoomOK(t)
  BY <1>2, <1>3, <1>4, <1>6 DEF SolventInv, RoomOK
<1>8. Held(t, slot, m) = Held(s, slot, n) + BondsOf(ts) - before
  <2>. HIDE DEF m, n
  <2>1. /\ tid <= n =>
             Held(t, slot, n) = Held(s, slot, n) + BondsOf(ts) - BondsOf(s.transitions[slot][tid])
        /\ tid = n + 1 => Held(t, slot, n + 1) = Held(s, slot, n) + BondsOf(ts)
    BY <1>2, <1>3, <1>5, <1>6, HeldWritten
  <2>2. Held(s, slot, n) \in Nat /\ BondsOf(ts) \in Nat
    BY <1>2, <1>5, HeldNat, BondsNat
  <2>3. CASE tid <= n
    <3>1. tid # next /\ m = n
      BY <1>5, <1>6, <2>3
    <3>. QED
      BY <2>1, <2>3, <3>1
  <2>4. CASE tid = n + 1
    <3>1. before = 0 /\ m = n + 1
      BY <1>5, <1>6, <2>4
    <3>. QED
      BY <2>1, <2>2, <2>4, <3>1
  <2>. QED
    BY <1>5, <1>6, <2>3, <2>4
<1>. DEFINE o == OutstandingBonds(s, id)
            q == OutstandingBonds(t, id)
            l == LivenessOf(s.blocks[slot])
            k == LivenessOf(t.blocks[slot])
            h == Held(s, slot, n)
            new == BondsOf(ts)
<1>9. o = l + h /\ q = k + Held(t, slot, m)
  BY OutstandingDef
<1>10. /\ l \in Nat /\ k \in Nat /\ h \in Nat /\ new \in Nat /\ before \in Nat
  <2>1. l \in Nat /\ k \in Nat /\ new \in Nat
    BY <1>1, <1>2, BondsNat
  <2>2. h \in Nat
    <3>. HIDE DEF n
    <3>. QED
      BY <1>2, <1>5, HeldNat
  <2>3. before \in Nat
    BY <1>1, <1>2, BondsNat
  <2>. QED
    BY <2>1, <2>2, <2>3
<1>11. \A other \in Pending(s) : other # id => OutstandingBonds(t, other) = OutstandingBonds(s, other)
  <2>. SUFFICES ASSUME NEW other \in Pending(s), other # id
                PROVE  OutstandingBonds(t, other) = OutstandingBonds(s, other)
    OBVIOUS
  <2>. DEFINE i == Slot(other)
  <2>1. i \in Slots /\ i # slot
    BY <1>2
  <2>2. LivenessOf(t.blocks[i]) = LivenessOf(s.blocks[i])
    BY <2>1 DEF Paid
  <2>3. t.blocks[i].nextTransitionId = s.blocks[i].nextTransitionId
        /\ t.transitions[i] = s.transitions[i]
    BY <1>1, <1>2, <1>3, <2>1
  <2>4. Held(t, i, t.blocks[i].nextTransitionId - 1) = Held(s, i, s.blocks[i].nextTransitionId - 1)
    BY <2>3 DEF Held
  <2>. QED
    BY <2>2, <2>4, OutstandingDef
<1>12. /\ IsFiniteSet(Pending(s)) /\ Dues(s) \in Nat /\ q \in Nat /\ o \in Nat
       /\ \A other \in Pending(s) : OutstandingBonds(s, other) \in Nat
  BY <1>4, <1>7, DuesNat DEF SolventInv
<1>13. Dues(t) = Dues(s) + q - o
  <2>. DEFINE w == [other \in Pending(s) |-> OutstandingBonds(s, other)]
              v == [other \in Pending(s) |-> OutstandingBonds(t, other)]
  <2>1. /\ v[id] = q /\ w[id] = o /\ \A other \in Pending(s) : w[other] \in Nat
        /\ \A other \in Pending(s) \ {id} : v[other] = w[other]
    BY <1>11, <1>12
  <2>2. Dues(s) = Total(w, Pending(s)) /\ Dues(t) = Total(v, Pending(s))
    BY <1>4 DEF Dues
  <2>. HIDE DEF w, v, q, o
  <2>3. Total(v, Pending(s)) = Total(w, Pending(s)) + v[id] - w[id]
    BY <1>12, <2>1, TotalUpdate
  <2>. QED
    BY <2>1, <2>2, <2>3
<1>14. /\ LedgerOK(t) /\ Margin(t) >= Margin(s) + (new - before) + (k - l)
  <2>1. t.transitions[slot][tid] = ts
    BY <1>1, <1>2, <1>3
  <2>. QED
    BY <2>1 DEF Paid
<1>15. Margin(s) \in Int /\ Margin(t) \in Int /\ Dues(s) <= Margin(s)
  BY <1>14, MarginType DEF SolventInv
<1>16. q = k + (h + new - before)
  BY <1>8, <1>9
<1>. HIDE DEF o, q, l, k, h, new, m, n
<1>17. Dues(t) <= Margin(t)
  <2>1. o = l + h
    BY <1>9 DEF h
  <2>. QED
    BY <1>10, <1>12, <1>13, <1>14, <1>15, <1>16, <2>1
<1>. QED
  BY <1>7, <1>14, <1>17 DEF SolventInv

\* The storage that _fetchOrCreateTransition leaves holds and owes as much as before: a
\* new transition has no bonds, and the liveness bond is one that the block holds.
Charged(s, id, p) ==
  LET slot == Slot(id)
  IN  /\ p.livenessBond \in Nat /\ p.livenessBond <= LivenessOf(p.fetched.blocks[slot])
      /\ \A i \in Slots : LivenessOf(p.fetched.blocks[i]) = LivenessOf(s.blocks[i])
      /\ BondsOf(p.ts) = IF p.tid = s.blocks[slot].nextTransitionId THEN 0
                         ELSE BondsOf(s.transitions[slot][p.tid])
      /\ \A f \in {"bondBalance", "tkoOf", "tkoHeld"} : p.fetched[f] = s[f]

\* _fetchOrCreateTransition does so.
LEMMA ProofLocalsCharged ==
  ASSUME NEW s, StorageInv(s), NEW u \in Accounts, NEW parentHash \in Hash,
         NEW id \in s.lastVerifiedBlockId + 1 .. s.numBlocks - 1,
         NEW blockHash \in Hash, NEW stateRoot \in Nat, NEW tierId \in Tiers, NEW flag,
         NEW p \in ProofLocals(s, u, id, parentHash, blockHash, stateRoot, tierId, flag)
  PROVE  Charged(s, id, p)
<1>. DEFINE slot == Slot(id)
            blk == s.blocks[slot]
            next == blk.nextTransitionId
            found == GetTransitionId(s, slot, parentHash)
            tid == IF found = 0 THEN next ELSE found
            new == NewTransition(s, id, tid, parentHash)
            ts == IF found = 0 THEN new ELSE s.transitions[slot][tid]
            with == WithNewTransition(s, id, tid, parentHash)
            fetched == IF found = 0 THEN with ELSE s
            bond == IF blk.livenessBondReturned THEN 0
                    ELSE IF blk.meta.livenessBond = 0 THEN blk.livenessBond
                    ELSE blk.meta.livenessBond
<1>0. p.tid = tid /\ p.ts = ts /\ p.fetched = fetched /\ p.livenessBond = bond
  BY DEF ProofLocals
<1>1. id \in Nat /\ slot \in Slots /\ s.blocks \in [Slots -> BlockRecord] /\ blk \in BlockRecord
  BY SlotInRing DEF StorageInv, IsStorage
<1>2. Fetched(s, id, p)
  BY ProofLocalsFetched
<1>3. \A f \in {"bondBalance", "tkoOf", "tkoHeld"} : p.fetched[f] = s[f]
  BY <1>2 DEF Fetched, Fields
<1>4. bond \in Nat /\ bond <= LivenessOf(blk)
  BY <1>1 DEF LivenessOf, BlockRecord, MetaRecord
<1>5. BondsOf(new) = 0
  BY DEF NewTransition, EmptyTransition, BondsOf
<1>6. \A i \in Slots : LivenessOf(fetched.blocks[i]) = LivenessOf(s.blocks[i])
  <2>1. with.blocks = [s.blocks EXCEPT ![slot] = [@ EXCEPT !.nextTransitionId = next + 1]]
    BY <1>1 DEF WithNewTransition, StorageInv, IsStorage, Fields
  <2>2. LivenessOf([blk EXCEPT !.nextTransitionId = next + 1]) = LivenessOf(blk)
    BY <1>1 DEF LivenessOf, BlockRecord
  <2>. HIDE DEF with
  <2>3. \A i \in Slots : LivenessOf(with.blocks[i]) = LivenessOf(s.blocks[i])
    <3>. TAKE i \in Slots
    <3>1. CASE i = slot
      <4>1. with.blocks[i] = [blk EXCEPT !.nextTransitionId = next + 1]
        BY <1>1, <2>1, <3>1
      <4>. QED
        BY <2>2, <3>1, <4>1
    <3>2. CASE i # slot
      <4>1. with.blocks[i] = s.blocks[i]
        BY <1>1, <2>1, <3>2
      <4>. QED
        BY <4>1
    <3>. QED
      BY <3>1, <3>2
  <2>. QED
    BY <2>3
<1>7. found # 0 => tid # next
  <2>1. found \in Nat
    <3>1. Tids \subseteq Nat
      BY DEF Tids
    <3>. QED
      BY <3>1 DEF GetTransitionId, StorageInv, IsStorage
  <2>2. ~UnexpectedTransitionId(s, slot, parentHash)
    BY DEF ProofLocals
  <2>3. next \in Nat
    BY <1>1 DEF BlockRecord
  <2>. QED
    BY <2>1, <2>2, <2>3 DEF UnexpectedTransitionId
<1>8. BondsOf(ts) = IF tid = next THEN 0 ELSE BondsOf(s.transitions[slot][tid])
  BY <1>5, <1>7
<1>. HIDE DEF bond, fetched, ts, tid
<1>. QED
  BY <1>0, <1>1, <1>3, <1>4, <1>6, <1>8 DEF Charged

\* Storages with the same blocks and transitions owe the same.
LEMMA SameDues ==
  ASSUME NEW s, NEW t, t.lastVerifiedBlockId = s.lastVerifiedBlockId, t.numBlocks = s.numBlocks,
         t.blocks = s.blocks, t.transitions = s.transitions
  PROVE  Dues(t) = Dues(s) /\ RoomOK(t) = RoomOK(s)
<1>1. Pending(t) = Pending(s)
  BY DEF Pending
<1>2. \A id : OutstandingBonds(t, id) = OutstandingBonds(s, id)
  BY DEF OutstandingBonds
<1>. QED
  BY <1>1, <1>2 DEF Dues, RoomOK

\* A new block holds the liveness bond.
LEMMA AppendedDues ==
  ASSUME NEW s, StorageInv(s), SolventInv(s), NEW blk \in BlockRecord,
         blk.blockId = s.numBlocks, blk.nextTransitionId = 1, HasRoom(s),
         LivenessOf(blk) = LivenessBond
  PROVE  RoomOK(Appended(s, blk)) /\ Dues(Appended(s, blk)) = Dues(s) + LivenessBond
<1>. DEFINE r == Appended(s, blk)
            id == s.numBlocks
<1>1. /\ r.blocks = [s.blocks EXCEPT ![Slot(id)] = blk] /\ r.numBlocks = id + 1
      /\ r.lastVerifiedBlockId = s.lastVerifiedBlockId /\ r.transitions = s.transitions
  BY DEF Appended, StorageInv, IsStorage, Fields
<1>. HIDE DEF r
<1>2. /\ s.lastVerifiedBlockId \in Nat /\ id \in Nat /\ s.lastVerifiedBlockId < id
      /\ id <= s.lastVerifiedBlockId + BlockMaxProposals
      /\ s.blocks \in [Slots -> BlockRecord]
  BY ConfigAssumption DEF StorageInv, IsStorage, RingOK, HasRoom
<1>3. Slot(id) \in Slots
  BY <1>2, SlotInRing
<1>4. /\ Pending(r) = Pending(s) \cup {id} /\ id \notin Pending(s) /\ Pending(s) \subseteq Nat
  BY <1>1, <1>2 DEF Pending
<1>5. \A other \in Pending(s) : Slot(other) \in Slots /\ Slot(other) # Slot(id)
  <2>. TAKE other \in Pending(s)
  <2>1. other \in Nat /\ other < id /\ id < other + BlockRingBufferSize
    BY <1>2, ConfigAssumption DEF Pending
  <2>. QED
    BY <1>2, <2>1, SlotsDiffer, SlotInRing
<1>6. /\ r.blocks[Slot(id)] = blk
      /\ \A other \in Pending(s) : r.blocks[Slot(other)] = s.blocks[Slot(other)]
  BY <1>1, <1>2, <1>3, <1>5
<1>7. \A other \in Pending(s) : OutstandingBonds(r, other) = OutstandingBonds(s, other)
  BY <1>1, <1>6 DEF OutstandingBonds
<1>8. OutstandingBonds(r, id) = LivenessBond /\ LivenessBond \in Nat
  <2>1. OutstandingBonds(r, id) = LivenessOf(blk) + Held(r, Slot(id), 0)
    BY <1>6, OutstandingDef
  <2>2. Held(r, Slot(id), 0) = 0
    <3>1. 1 .. 0 = {}
      OBVIOUS
    <3>. QED
      BY <3>1, TotalEmpty DEF Held
  <2>. QED
    BY <2>1, <2>2, ConfigAssumption
<1>9. RoomOK(r)
  <2>1. \A other \in Pending(s) : s.blocks[Slot(other)].nextTransitionId - 1 <= MaxTransitions
    BY DEF SolventInv, RoomOK
  <2>2. r.blocks[Slot(id)].nextTransitionId - 1 <= MaxTransitions
    BY <1>6, ConfigAssumption
  <2>. QED
    BY <1>4, <1>6, <2>1, <2>2 DEF RoomOK
<1>10. Dues(r) = Dues(s) + LivenessBond
  <2>. DEFINE w == [other \in Pending(s) |-> OutstandingBonds(s, other)]
              v == [other \in Pending(r) |-> OutstandingBonds(r, other)]
  <2>1. IsFiniteSet(Pending(s)) /\ \A other \in Pending(s) : OutstandingBonds(s, other) \in Nat
    BY DuesNat DEF SolventInv
  <2>2. /\ v[id] = LivenessBond
        /\ \A other \in Pending(s) : v[other] = w[other] /\ w[other] \in Nat
    BY <1>4, <1>7, <1>8, <2>1
  <2>3. Dues(s) = Total(w, Pending(s)) /\ Dues(r) = Total(v, Pending(s) \cup {id})
    BY <1>4 DEF Dues
  <2>. HIDE DEF w, v
  <2>4. \A other \in Pending(s) \cup {id} : v[other] \in Nat
    BY <1>8, <2>2
  <2>5. Total(v, Pending(s) \cup {id}) = Total(v, Pending(s)) + v[id]
    BY <1>4, <2>1, <2>4, TotalAdd
  <2>6. Total(v, Pending(s)) = Total(w, Pending(s))
    BY <2>1, <2>2, TotalSame
  <2>. QED
    BY <2>2, <2>3, <2>5, <2>6
<1>. QED
  BY <1>9, <1>10 DEF r

\* _proposeBlock takes the liveness bond it owes.
LEMMA ProposedSolvent ==
  ASSUME NEW s, StorageInv(s), SolventInv(s), ClockTypeOK, NEW u \in Accounts,
         NEW minTier \in Tiers, NEW anchorBlockId \in Int, NEW timestamp \in Int,
         NEW t \in Proposed(s, u, anchorBlockId, timestamp, minTier)
  PROVE  SolventInv(t)
<1>. DEFINE blk == NewBlock(s, u, anchorBlockId, timestamp, minTier)
            r == Appended(s, blk)
<1>1. CanPropose(s, u, anchorBlockId, timestamp) /\ t = DebitBond(r, u, LivenessBond)
  BY DEF Proposed
<1>2. /\ blk \in BlockRecord /\ blk.blockId = s.numBlocks /\ HasRoom(s)
      /\ CanDebit(s, u, LivenessBond) /\ LivenessBond \in Nat
  BY <1>1, NewBlockType, ConfigAssumption DEF CanPropose
<1>3. blk.nextTransitionId = 1 /\ LivenessOf(blk) = LivenessBond
  BY ConfigAssumption DEF NewBlock, EmptyBlock, NoMeta, LivenessOf
<1>4. /\ r.bondBalance = s.bondBalance /\ r.tkoOf = s.tkoOf /\ r.tkoHeld = s.tkoHeld
      /\ DOMAIN r = Fields
  BY DEF Appended, StorageInv, IsStorage, Fields
<1>. HIDE DEF blk
<1>5. RoomOK(r) /\ Dues(r) = Dues(s) + LivenessBond
  BY <1>2, <1>3, AppendedDues
<1>. HIDE DEF r
<1>6. LedgerOK(r) /\ Margin(r) = Margin(s) /\ CanDebit(r, u, LivenessBond)
  BY <1>2, <1>4 DEF SolventInv, LedgerOK, Margin, CanDebit
<1>7. LedgerOK(t) /\ Margin(t) = Margin(r) + LivenessBond
  BY <1>1, <1>2, <1>4, <1>6, DebitMargin
<1>8. /\ t.lastVerifiedBlockId = r.lastVerifiedBlockId /\ t.numBlocks = r.numBlocks
      /\ t.blocks = r.blocks /\ t.transitions = r.transitions
  BY <1>1, <1>4 DEF DebitBond, Fields
<1>9. RoomOK(t) /\ Dues(t) = Dues(r)
  BY <1>5, <1>8, SameDues
<1>10. Margin(s) \in Int /\ Dues(s) \in Nat /\ Dues(s) <= Margin(s)
  BY MarginType, DuesNat DEF SolventInv
<1>11. Dues(t) <= Margin(t)
  BY <1>2, <1>5, <1>6, <1>7, <1>9, <1>10
<1>. QED
  BY <1>7, <1>9, <1>11 DEF SolventInv

\* A transition holds no more than its block.
LEMMA HeldAtLeast ==
  ASSUME NEW s, StorageInv(s), NEW slot \in Slots, NEW n \in Nat, n <= MaxTransitions,
         NEW tid \in 1 .. n
  PROVE  s.transitions[slot][tid].validityBond <= Held(s, slot, n)
<1>. DEFINE D == 1 .. n
            w == [j \in D |-> BondsOf(s.transitions[slot][j])]
            vb == s.transitions[slot][tid].validityBond
<1>1. IsFiniteSet(D) /\ tid \in D /\ tid \in Tids /\ \A j \in D : w[j] \in Nat
  BY HeldNat
<1>2. vb \in Nat /\ vb <= w[tid]
  <2>1. s.transitions[slot][tid] \in TransitionRecord
    BY <1>1 DEF StorageInv, IsStorage
  <2>. QED
    BY <2>1, BondsNat
<1>3. Held(s, slot, n) = Total(w, D)
  BY DEF Held
<1>. HIDE DEF D, w, vb
<1>4. w[tid] <= Total(w, D) /\ w[tid] \in Nat /\ Total(w, D) \in Nat
  <2>1. IsFiniteSet(D) /\ tid \in D
    BY <1>1
  <2>2. \A j \in D : w[j] \in Nat
    BY <1>1
  <2>3. w[tid] \in Nat /\ Total(w, D) \in Nat
    BY <2>1, <2>2, TotalNat
  <2>4. w[tid] <= Total(w, D)
    BY <2>1, <2>2, PartAtMost, Zenon
  <2>. QED
    BY <2>3, <2>4
<1>5. vb <= Held(s, slot, n)
  BY <1>2, <1>3, <1>4
<1>. QED
  BY <1>5 DEF vb

\* The blocks that a run leaves unverified keep their bonds.
LEMMA VerifiedKeepsDues ==
  ASSUME NEW s, StorageInv(s), RoomOK(s), NEW tids,
         NEW last \in s.lastVerifiedBlockId .. s.numBlocks - 1,
         NEW t, RingAfter(s, last, tids, t)
  PROVE  /\ Pending(t) = last + 1 .. s.numBlocks - 1 /\ RoomOK(t)
         /\ \A id \in Pending(t) : OutstandingBonds(t, id) = OutstandingBonds(s, id)
<1>1. s.lastVerifiedBlockId \in Nat /\ s.numBlocks \in Nat /\ last \in Nat
      /\ s.lastVerifiedBlockId <= last
  BY DEF StorageInv, IsStorage
<1>2. /\ t.numBlocks = s.numBlocks /\ t.lastVerifiedBlockId = last
      /\ \A slot \in Slots :
           /\ t.blocks[slot].livenessBond = s.blocks[slot].livenessBond
           /\ t.blocks[slot].livenessBondReturned = s.blocks[slot].livenessBondReturned
           /\ t.blocks[slot].meta = s.blocks[slot].meta
           /\ t.blocks[slot].nextTransitionId = s.blocks[slot].nextTransitionId
  BY DEF RingAfter, KeptOfBlock
<1>3. \A slot \in Slots, tid \in Tids :
        /\ t.transitions[slot][tid].validityBond = s.transitions[slot][tid].validityBond
        /\ t.transitions[slot][tid].contester = s.transitions[slot][tid].contester
        /\ t.transitions[slot][tid].contestBond = s.transitions[slot][tid].contestBond
  BY DEF RingAfter, KeptOfTransition
<1>4. Pending(t) = last + 1 .. s.numBlocks - 1 /\ Pending(t) \subseteq Pending(s)
      /\ Pending(t) \subseteq s.lastVerifiedBlockId .. s.numBlocks - 1
      /\ Pending(t) \subseteq Nat
  BY <1>1, <1>2 DEF Pending
<1>5. \A id \in Pending(t) : Slot(id) \in Slots
  BY <1>4, SlotInRing
<1>6. RoomOK(t)
  BY <1>2, <1>4, <1>5 DEF RoomOK
<1>7. ASSUME NEW id \in Pending(t)
      PROVE  OutstandingBonds(t, id) = OutstandingBonds(s, id)
  <2>. DEFINE slot == Slot(id)
              n == s.blocks[slot].nextTransitionId - 1
              D == 1 .. n
              w == [tid \in D |-> BondsOf(s.transitions[slot][tid])]
              v == [tid \in D |-> BondsOf(t.transitions[slot][tid])]
  <2>1. slot \in Slots
    BY <1>5
  <2>2. n \in Nat /\ n <= MaxTransitions
    <3>1. s.blocks[slot] \in BlockRecord /\ s.blocks[slot].nextTransitionId # 0
      BY <1>4, <2>1 DEF StorageInv, IsStorage, RingOK
    <3>2. n <= MaxTransitions
      BY <1>4 DEF RoomOK
    <3>. QED
      BY <3>1, <3>2 DEF BlockRecord
  <2>. HIDE DEF n
  <2>3. IsFiniteSet(D) /\ D \subseteq Tids
    BY <2>1, <2>2, HeldNat
  <2>. HIDE DEF D, slot
  <2>4. \A tid \in D : v[tid] = w[tid]
    BY <1>3, <2>1, <2>3 DEF BondsOf
  <2>. HIDE DEF w, v
  <2>5. Total(v, D) = Total(w, D)
    BY <2>3, <2>4, TotalSame
  <2>6. Held(t, slot, n) = Held(s, slot, n)
    BY <2>5 DEF Held, D, w, v
  <2>7. LivenessOf(t.blocks[slot]) = LivenessOf(s.blocks[slot])
        /\ t.blocks[slot].nextTransitionId - 1 = n
    BY <1>2, <2>1 DEF LivenessOf, n
  <2>. QED
    BY <2>6, <2>7, OutstandingDef DEF slot, n
<1>. QED
  BY <1>4, <1>6, <1>7

\* A run returns the bonds of the transitions it verifies, which are due.
LEMMA VerifiedSolvent ==
  ASSUME NEW s, StorageInv(s), HistoryInv(s), SolventInv(s), NEW max,
         NEW last \in s.lastVerifiedBlockId .. s.numBlocks - 1,
         NEW tids \in [s.lastVerifiedBlockId + 1 .. last -> Tids], IsRun(s, max, last, tids),
         NEW sync \in SyncPoints(s, last, tids),
         NEW t, IsVerified(s, last, tids, sync, t)
  PROVE  SolventInv(t)
<1>. DEFINE fresh == s.lastVerifiedBlockId + 1 .. last
            V == {id \in fresh : ~FollowsMigrated(s, id)}
            w == [id \in fresh |-> s.transitions[Slot(id)][tids[id]].validityBond]
            g == [id \in fresh |-> s.transitions[Slot(id)][tids[id]].prover]
            b == s.bondBalance
            c == t.bondBalance
            o == [id \in Pending(s) |-> OutstandingBonds(s, id)]
<1>1. RingAfter(s, last, tids, t)
  BY VerifiedFields
<1>2. /\ s.lastVerifiedBlockId \in Nat /\ s.numBlocks \in Nat /\ last \in Nat
      /\ s.lastVerifiedBlockId <= last /\ last < s.numBlocks
      /\ s.transitions \in [Slots -> [Tids -> TransitionRecord]]
      /\ s.blocks \in [Slots -> BlockRecord] /\ DOMAIN s = Fields
  BY DEF StorageInv, IsStorage
<1>3. c = [u \in Accounts |-> b[u] + ReturnedBonds(s, last, tids, u)]
      /\ t.tkoOf = s.tkoOf /\ t.tkoHeld = s.tkoHeld
  <2>1. c = [u \in Accounts |-> b[u] + ReturnedBonds(s, last, tids, u)]
    BY <1>2 DEF IsVerified, Verified, Fields
  <2>. QED
    BY <1>1, <2>1 DEF RingAfter
<1>4. /\ fresh \subseteq Pending(s) /\ V \subseteq fresh /\ IsFiniteSet(fresh) /\ IsFiniteSet(V)
      /\ Pending(s) \subseteq s.lastVerifiedBlockId .. s.numBlocks - 1
      /\ Pending(s) \subseteq Nat
  <2>1. fresh \subseteq Pending(s) /\ Pending(s) \subseteq s.lastVerifiedBlockId .. s.numBlocks - 1
        /\ Pending(s) \subseteq Nat
    BY <1>2 DEF Pending
  <2>2. IsFiniteSet(fresh)
    <3>1. s.lastVerifiedBlockId + 1 \in Int /\ last \in Int
      BY <1>2
    <3>. QED
      BY <3>1, FS_Interval
  <2>3. V \subseteq fresh
    OBVIOUS
  <2>4. IsFiniteSet(V)
    BY <2>2, <2>3, FS_Subset
  <2>. QED
    BY <2>1, <2>2, <2>3, <2>4
<1>5. \A id \in fresh : Slot(id) \in Slots /\ w[id] \in Nat
  <2>. TAKE id \in fresh
  <2>1. Slot(id) \in Slots /\ tids[id] \in Tids
    BY <1>4, SlotInRing
  <2>2. s.transitions[Slot(id)][tids[id]] \in TransitionRecord
    BY <1>2, <2>1
  <2>. QED
    BY <2>1, <2>2, BondsNat
<1>6. \A u \in Accounts : c[u] = b[u] + SharedOut(w, g, V, u)
  <2>. TAKE u \in Accounts
  <2>1. {id \in V : g[id] = u} =
          {id \in fresh : /\ ~FollowsMigrated(s, id)
                          /\ s.transitions[Slot(id)][tids[id]].prover = u}
    OBVIOUS
  <2>2. ReturnedBonds(s, last, tids, u) = SharedOut(w, g, V, u)
    BY <2>1, Zenon DEF ReturnedBonds, SharedOut
  <2>3. c[u] = b[u] + ReturnedBonds(s, last, tids, u)
    BY <1>3
  <2>. QED
    BY <2>2, <2>3
<1>7. \A id \in Pending(s) : o[id] \in Nat
  BY DuesNat DEF SolventInv
<1>8. \A id \in V : w[id] <= o[id]
  <2>. SUFFICES ASSUME NEW id \in V PROVE w[id] <= o[id]
    OBVIOUS
  <2>. DEFINE slot == Slot(id)
              n == s.blocks[slot].nextTransitionId - 1
              tid == tids[id]
              vb == s.transitions[slot][tid].validityBond
  <2>1. id \in fresh /\ id \in Pending(s) /\ id \in s.lastVerifiedBlockId .. s.numBlocks - 1
        /\ ~FollowsMigrated(s, id) /\ slot \in Slots
    BY <1>4, <1>5
  <2>2. tid < s.blocks[slot].nextTransitionId /\ tid \in Tids
    BY <2>1, RunTransition
  <2>3. s.blocks[slot] \in BlockRecord /\ s.blocks[slot].nextTransitionId # 0
    BY <1>2, <2>1 DEF StorageInv, RingOK
  <2>4. n \in Nat /\ tid \in 1 .. n
    BY <2>2, <2>3 DEF BlockRecord, Tids
  <2>5. n <= MaxTransitions
    BY <2>1 DEF SolventInv, RoomOK
  <2>6. o[id] = LivenessOf(s.blocks[slot]) + Held(s, slot, n)
    BY <2>1, OutstandingDef
  <2>. HIDE DEF n, slot, tid
  <2>7. vb <= Held(s, slot, n) /\ Held(s, slot, n) \in Nat /\ LivenessOf(s.blocks[slot]) \in Nat
    BY <2>1, <2>3, <2>4, <2>5, HeldAtLeast, HeldNat, BondsNat
  <2>8. w[id] = vb /\ vb \in Nat
    BY <1>5, <2>1 DEF slot, tid
  <2>. HIDE DEF w, o, vb
  <2>. QED
    BY <2>6, <2>7, <2>8
<1>9. b \in [Accounts -> Nat] /\ s.tkoHeld \in Nat /\ s.tkoOf \in [Accounts -> Nat]
  BY DEF SolventInv, LedgerOK
<1>10. LedgerOK(t)
  <2>1. \A u \in Accounts : ReturnedBonds(s, last, tids, u) \in Nat
    <3>. TAKE u \in Accounts
    <3>. DEFINE F == {id \in fresh : /\ ~FollowsMigrated(s, id)
                                     /\ s.transitions[Slot(id)][tids[id]].prover = u}
    <3>1. F \subseteq fresh
      OBVIOUS
    <3>2. IsFiniteSet(F) /\ \A id \in F : w[id] \in Nat
      BY <1>4, <1>5, <3>1, FS_Subset
    <3>3. ReturnedBonds(s, last, tids, u) = Total(w, F)
      BY Zenon DEF ReturnedBonds
    <3>. HIDE DEF F, w
    <3>. QED
      BY <3>2, <3>3, TotalNat
  <2>2. c \in [Accounts -> Nat]
    BY <1>3, <1>9, <2>1
  <2>. QED
    BY <1>3, <1>9, <2>2 DEF LedgerOK
<1>. HIDE DEF fresh, V, w, g, o
<1>11. Total(c, Accounts) <= Total(b, Accounts) + Total(w, V)
  <2>1. \A id \in V : w[id] \in Nat
    BY <1>4, <1>5
  <2>2. IsFiniteSet(V)
    BY <1>4
  <2>3. \A u \in Accounts : b[u] \in Nat
    BY <1>9
  <2>. HIDE DEF b, c
  <2>. QED
    BY <1>6, <2>1, <2>2, <2>3, AccountsFinite, TotalHandedOut
<1>12. Total(w, V) <= Total(o, V) /\ Total(o, V) <= Total(o, fresh)
  <2>1. \A id \in V : w[id] \in Nat /\ o[id] \in Nat /\ w[id] <= o[id]
    BY <1>4, <1>5, <1>7, <1>8
  <2>2. \A id \in fresh : o[id] \in Nat
    BY <1>4, <1>7
  <2>3. Total(w, V) <= Total(o, V)
    BY <1>4, <2>1, TotalLe
  <2>4. Total(o, V) <= Total(o, fresh)
    BY <1>4, <2>2, TotalSubset
  <2>. QED
    BY <2>3, <2>4
<1>13. /\ Pending(t) = last + 1 .. s.numBlocks - 1 /\ RoomOK(t)
       /\ \A id \in Pending(t) : OutstandingBonds(t, id) = OutstandingBonds(s, id)
  <2>1. RoomOK(s)
    BY DEF SolventInv
  <2>. QED
    BY <1>1, <2>1, VerifiedKeepsDues
<1>14. /\ Pending(s) = fresh \cup Pending(t) /\ fresh \cap Pending(t) = {}
  <2>1. /\ Pending(s) = s.lastVerifiedBlockId + 1 .. s.numBlocks - 1
        /\ fresh = s.lastVerifiedBlockId + 1 .. last /\ Pending(t) = last + 1 .. s.numBlocks - 1
    BY <1>13 DEF Pending, fresh
  <2>. DEFINE l == s.lastVerifiedBlockId
              n == s.numBlocks
  <2>2. l \in Nat /\ n \in Nat /\ last \in Nat /\ l <= last /\ last < n
    BY <1>2
  <2>. HIDE DEF l, n
  <2>3. /\ l + 1 .. n - 1 = (l + 1 .. last) \cup (last + 1 .. n - 1)
        /\ (l + 1 .. last) \cap (last + 1 .. n - 1) = {}
    BY <2>2
  <2>. QED
    BY <2>1, <2>3 DEF l, n
<1>15. IsFiniteSet(Pending(t))
  <2>1. Pending(t) \subseteq Pending(s) /\ IsFiniteSet(Pending(s))
    BY <1>14, DuesNat DEF SolventInv
  <2>. QED
    BY <2>1, FS_Subset
<1>16. Dues(s) = Total(o, fresh) + Total(o, Pending(t))
  <2>1. Total(o, fresh \cup Pending(t)) = Total(o, fresh) + Total(o, Pending(t))
    BY <1>4, <1>7, <1>14, <1>15, TotalSplit
  <2>. QED
    BY <1>14, <2>1 DEF Dues, o
<1>17. Dues(t) = Total(o, Pending(t))
  <2>. DEFINE v == [id \in Pending(t) |-> OutstandingBonds(t, id)]
  <2>1. \A id \in Pending(t) : v[id] = o[id]
    BY <1>13, <1>14 DEF o
  <2>. HIDE DEF v
  <2>2. Total(v, Pending(t)) = Total(o, Pending(t))
    BY <1>15, <2>1, TotalSame
  <2>. QED
    BY <2>2 DEF Dues, v
<1>18. /\ Total(w, V) \in Nat /\ Total(o, V) \in Nat /\ Total(o, fresh) \in Nat
       /\ Total(o, Pending(t)) \in Nat
  <2>1. /\ \A id \in V : w[id] \in Nat /\ o[id] \in Nat
        /\ \A id \in fresh : o[id] \in Nat
        /\ \A id \in Pending(t) : o[id] \in Nat
    BY <1>4, <1>5, <1>7, <1>14
  <2>. QED
    BY <1>4, <1>15, <2>1, TotalNat
<1>19. /\ Total(b, Accounts) \in Nat /\ Total(c, Accounts) \in Nat
       /\ Margin(s) = s.tkoHeld - Total(b, Accounts) /\ Margin(t) = s.tkoHeld - Total(c, Accounts)
       /\ Dues(s) <= Margin(s)
  BY <1>3, <1>10, MarginType DEF SolventInv, Margin
<1>. HIDE DEF b, c
<1>20. Dues(t) <= Margin(t)
  BY <1>9, <1>11, <1>12, <1>16, <1>17, <1>18, <1>19
<1>. QED
  BY <1>10, <1>13, <1>20 DEF SolventInv

\* So does every outcome of verifyBlocks.
LEMMA VerifySolvent ==
  ASSUME NEW s, StorageInv(s), HistoryInv(s), SolventInv(s), NEW max,
         NEW t \in VerifyOutcomes(s, max)
  PROVE  SolventInv(t)
<1>1. CASE t # s
  <2>1. PICK last \in s.lastVerifiedBlockId .. s.numBlocks - 1 :
          \E tids \in [s.lastVerifiedBlockId + 1 .. last -> Tids] :
             /\ IsRun(s, max, last, tids)
             /\ \E sync \in SyncPoints(s, last, tids) : IsVerified(s, last, tids, sync, t)
    BY <1>1, VerifyOutcome
  <2>2. PICK tids \in [s.lastVerifiedBlockId + 1 .. last -> Tids] :
             /\ IsRun(s, max, last, tids)
             /\ \E sync \in SyncPoints(s, last, tids) : IsVerified(s, last, tids, sync, t)
    BY <2>1
  <2>3. PICK sync \in SyncPoints(s, last, tids) : IsVerified(s, last, tids, sync, t)
    BY <2>2
  <2>. QED
    BY <2>2, <2>3, VerifiedSolvent
<1>. QED
  BY <1>1

\* And the verification at the end of a transaction.
LEMMA AfterVerificationSolvent ==
  ASSUME NEW s, StorageInv(s), HistoryInv(s), SolventInv(s), NEW id, NEW isProposed,
         NEW t \in AfterVerification(s, id, isProposed)
  PROVE  SolventInv(t)
BY VerifySolvent DEF AfterVerification

---------------------------------------------------------------------------
(* Solvency. *)

\* Nothing is owed where no block is unverified and nobody has a bond.
LEMMA NothingDue ==
  ASSUME NEW s, LedgerOK(s), s.lastVerifiedBlockId \in Nat, s.numBlocks = s.lastVerifiedBlockId + 1,
         \A u \in Accounts : s.bondBalance[u] = 0
  PROVE  SolventInv(s)
<1>1. Pending(s) = {}
  BY DEF Pending
<1>2. RoomOK(s)
  BY <1>1 DEF RoomOK
<1>3. Dues(s) = 0
  BY <1>1, TotalEmpty DEF Dues
<1>4. Total(s.bondBalance, Accounts) = 0
  BY AccountsFinite, TotalZero
<1>5. Margin(s) = s.tkoHeld - Total(s.bondBalance, Accounts) /\ s.tkoHeld \in Nat
  BY DEF Margin, LedgerOK
<1>6. Margin(s) >= 0
  BY <1>4, <1>5
<1>. QED
  BY <1>2, <1>3, <1>6 DEF SolventInv

\* Neither the genesis nor the migration owes anything.
LEMMA InitStateSolvent == SolventInv(InitState) /\ SolventInv(MigratedState)
<1>1. /\ InitState.bondBalance = [u \in Accounts |-> 0] /\ InitState.tkoHeld = 0
      /\ InitState.tkoOf = [u \in Accounts |-> InitialTokens]
      /\ InitState.lastVerifiedBlockId = 0 /\ InitState.numBlocks = 1
  BY DEF InitState
<1>2. LedgerOK(InitState)
  BY <1>1, DomainAssumption DEF LedgerOK
<1>3. /\ MigratedState.bondBalance = InitState.bondBalance
      /\ MigratedState.tkoHeld = InitState.tkoHeld /\ MigratedState.tkoOf = InitState.tkoOf
      /\ MigratedState.lastVerifiedBlockId = MigratedId
      /\ MigratedState.numBlocks = MigratedId + 1
  <2>1. DOMAIN InitState = Fields
    BY InitStateInv DEF StorageInv, IsStorage
  <2>. QED
    BY <2>1 DEF MigratedState, Fields
<1>4. LedgerOK(MigratedState)
  BY <1>2, <1>3 DEF LedgerOK
<1>5. MigratedId \in Nat
  BY ConfigAssumption
<1>6. SolventInv(InitState)
  BY <1>1, <1>2, NothingDue
<1>7. SolventInv(MigratedState)
  <2>1. \A u \in Accounts : MigratedState.bondBalance[u] = 0
    BY <1>1, <1>3
  <2>2. MigratedState.lastVerifiedBlockId \in Nat
        /\ MigratedState.numBlocks = MigratedState.lastVerifiedBlockId + 1
    BY <1>3, <1>5
  <2>. HIDE DEF MigratedState
  <2>. QED
    BY <1>4, <2>1, <2>2, NothingDue
<1>. QED
  BY <1>6, <1>7

\* A storage that the transactions may build on.
Sound(s) == StorageInv(s) /\ HistoryInv(s) /\ SolventInv(s)

\* A run of verifyBlocks pays for the bonds it returns.
LEMMA SoundVerification ==
  ASSUME NEW s, Sound(s), NEW id, NEW isProposed, NEW t \in AfterVerification(s, id, isProposed)
  PROVE  Sound(t)
<1>1. StorageInv(t)
  BY AfterVerificationInv DEF Sound
<1>2. HistoryInv(t)
  BY AfterVerificationHistory DEF Sound
<1>3. SolventInv(t)
  BY AfterVerificationSolvent DEF Sound
<1>. QED
  BY <1>1, <1>2, <1>3 DEF Sound

\* A proposal takes as much from the proposer as its block will owe.
LEMMA SoundProposal ==
  ASSUME NEW s, Sound(s), ClockTypeOK, NEW u \in Accounts, NEW minTier \in Tiers,
         NEW anchorBlockId \in Int, NEW timestamp \in Int,
         NEW t \in Proposed(s, u, anchorBlockId, timestamp, minTier)
  PROVE  Sound(t)
<1>1. StorageInv(t)
  BY ProposedInv DEF Sound
<1>2. HistoryInv(t)
  BY ProposedHistory DEF Sound
<1>3. SolventInv(t)
  BY ProposedSolvent DEF Sound
<1>. QED
  BY <1>1, <1>2, <1>3 DEF Sound

\* The first state is sound, with the block that the migration proposes.
LEMMA InitSolvent == Init => SolventInv(state)
<1>. SUFFICES ASSUME Init PROVE SolventInv(state)
  OBVIOUS
<1>0. ClockTypeOK /\ now = 0
  BY DomainAssumption DEF Init, ClockTypeOK
<1>1. CASE MigratedId = 0
  BY <1>1, InitStateSolvent DEF Init
<1>2. CASE MigratedId # 0
  <2>0. InitMigrate
    BY <1>2 DEF Init
  <2>1. PICK u \in Users, minTier \in MinTiers :
          \E s \in Proposed(MigratedState, u, BlockNumber - 1, now, minTier) :
            state \in AfterVerification(s, MigratedId + 1, FALSE)
    BY <2>0 DEF InitMigrate
  <2>2. PICK s \in Proposed(MigratedState, u, BlockNumber - 1, now, minTier) :
            state \in AfterVerification(s, MigratedId + 1, FALSE)
    BY <2>1
  <2>3. u \in Accounts /\ minTier \in Tiers /\ BlockNumber - 1 \in Int /\ now \in Int
    BY <1>0, DomainAssumption, ConfigAssumption DEF Accounts, BlockNumber
  <2>4. Sound(MigratedState)
    BY MigratedStateInv, MigratedStateHistory, InitStateSolvent DEF Sound
  <2>5. Sound(s)
    BY <1>0, <2>2, <2>3, <2>4, SoundProposal
  <2>6. Sound(state)
    BY <2>2, <2>5, SoundVerification
  <2>. QED
    BY <2>6 DEF Sound
<1>. QED
  BY <1>1, <1>2

\* A proposing transaction holds the liveness bonds it records.
LEMMA ProposeSolvent ==
  ASSUME IInv, Sound(state), NEW u \in Users, NEW minTier \in MinTiers,
         ProposeBlock(u, minTier) \/ ProposeBlockV2(u, minTier) \/ ProposeBlocksV2(u, minTier)
  PROVE  SolventInv(state')
<1>1. /\ u \in Accounts /\ minTier \in Tiers /\ BlockNumber \in Int /\ now \in Int
      /\ ClockTypeOK
  BY DomainAssumption, ConfigAssumption DEF Accounts, IInv, ClockTypeOK, BlockNumber
<1>2. ASSUME NEW s, Sound(s), NEW anchorBlockId \in Int, NEW timestamp \in Int,
             NEW t \in Proposed(s, u, anchorBlockId, timestamp, minTier)
      PROVE  Sound(t)
  BY <1>1, <1>2, SoundProposal
<1>3. CASE ProposeBlock(u, minTier)
  <2>1. PICK s \in Proposed(state, u, BlockNumber - 1, now, minTier) :
          state' \in AfterVerification(s, state.numBlocks, FALSE)
    BY <1>3 DEF ProposeBlock
  <2>2. Sound(s)
    BY <1>1, <1>2, <2>1
  <2>. QED
    BY <2>1, <2>2, SoundVerification DEF Sound
<1>4. CASE ProposeBlockV2(u, minTier)
  <2>1. PICK anchorBlockId \in Anchors, timestamp \in Timestamps :
          \E s \in Proposed(state, u, anchorBlockId, timestamp, minTier) :
            state' \in AfterVerification(s, state.numBlocks, FALSE)
    BY <1>4 DEF ProposeBlockV2
  <2>2. anchorBlockId \in Int /\ timestamp \in Int
    BY <1>1, ConfigAssumption DEF Anchors, Timestamps
  <2>3. PICK s \in Proposed(state, u, anchorBlockId, timestamp, minTier) :
          state' \in AfterVerification(s, state.numBlocks, FALSE)
    BY <2>1
  <2>4. Sound(s)
    BY <1>2, <2>2, <2>3
  <2>. QED
    BY <2>3, <2>4, SoundVerification DEF Sound
<1>5. CASE ProposeBlocksV2(u, minTier)
  <2>1. PICK first \in Proposed(state, u, BlockNumber - 1, now, minTier) :
          \E second \in Proposed(first, u, BlockNumber - 1, now, minTier) :
            \E s \in AfterVerification(second, state.numBlocks, FALSE) :
              state' \in AfterVerification(s, state.numBlocks + 1, FALSE)
    BY <1>5 DEF ProposeBlocksV2
  <2>2. PICK second \in Proposed(first, u, BlockNumber - 1, now, minTier) :
          \E s \in AfterVerification(second, state.numBlocks, FALSE) :
            state' \in AfterVerification(s, state.numBlocks + 1, FALSE)
    BY <2>1
  <2>3. PICK s \in AfterVerification(second, state.numBlocks, FALSE) :
            state' \in AfterVerification(s, state.numBlocks + 1, FALSE)
    BY <2>2
  <2>4. Sound(first)
    BY <1>1, <1>2, <2>1
  <2>5. Sound(second)
    BY <1>1, <1>2, <2>2, <2>4
  <2>6. Sound(s)
    BY <2>3, <2>5, SoundVerification
  <2>. QED
    BY <2>3, <2>6, SoundVerification DEF Sound
<1>. QED
  BY <1>3, <1>4, <1>5

\* A proving transaction pays out no more than the bonds it takes over.
LEMMA ProveSolvent ==
  ASSUME IInv, Sound(state), NEW u \in Accounts, NEW id \in Provable, NEW parentHash \in Hash,
         NEW blockHash \in Hash, NEW stateRoot \in Nat, NEW tierId \in Tiers, NEW flag,
         ProveBlock(u, id, parentHash, blockHash, stateRoot, tierId, flag)
  PROVE  SolventInv(state')
<1>0. /\ StorageInv(state) /\ HistoryInv(state) /\ SolventInv(state) /\ ClockTypeOK
      /\ id \in state.lastVerifiedBlockId + 1 .. state.numBlocks - 1 /\ id \in Pending(state)
  BY DEF IInv, Sound, Provable, Pending
<1>1. PICK p \in ProofLocals(state, u, id, parentHash, blockHash, stateRoot, tierId, flag) :
        \E s \in Settled(p.fetched, p) : state' \in AfterVerification(s, id, TRUE)
  BY DEF ProveBlock
<1>2. ProofRecord(p) /\ StorageInv(p.fetched) /\ Fetched(state, id, p) /\ Charged(state, id, p)
  BY <1>0, <1>1, ProofLocalsInv, ProofLocalsFetched, ProofLocalsCharged
<1>3. PICK s \in Settled(p.fetched, p) : state' \in AfterVerification(s, id, TRUE)
  BY <1>1
<1>4. StorageInv(s)
  BY <1>0, <1>2, <1>3, SettledInv
<1>5. id \in Nat /\ p.tid \in Tids
  BY <1>0, <1>2 DEF StorageInv, IsStorage, ProofRecord
<1>6. PICK ts \in TransitionRecord : Written(state, s, id, p.tid, ts)
  BY <1>0, <1>2, <1>3, <1>5, SettledWritten
<1>7. HistoryInv(s)
  BY <1>0, <1>5, <1>6, WrittenInv
<1>. DEFINE slot == Slot(id)
            f == p.fetched
<1>8. /\ p.slot = slot /\ slot \in Slots
      /\ \A i \in Slots : LivenessOf(f.blocks[i]) = LivenessOf(state.blocks[i])
      /\ p.livenessBond \in Nat /\ p.livenessBond <= LivenessOf(f.blocks[slot])
      /\ f.bondBalance = state.bondBalance /\ f.tkoOf = state.tkoOf /\ f.tkoHeld = state.tkoHeld
  BY <1>2, <1>5, SlotInRing DEF Fetched, Charged
<1>9. LedgerOK(f) /\ Margin(f) = Margin(state)
  BY <1>0, <1>8 DEF SolventInv, LedgerOK, Margin
<1>10. Paid(f, s, p.slot, p.tid, BondsOf(p.ts))
  BY <1>0, <1>2, <1>3, <1>8, <1>9, SettledPaid
<1>11. Paid(state, s, slot, p.tid, BondsOf(p.ts))
  BY <1>8, <1>9, <1>10 DEF Paid
<1>12. BondsOf(p.ts) = IF p.tid = state.blocks[slot].nextTransitionId THEN 0
                       ELSE BondsOf(state.transitions[slot][p.tid])
  BY <1>2 DEF Charged
<1>13. SolventInv(s)
  BY <1>0, <1>4, <1>5, <1>6, <1>11, <1>12, WrittenSolvent
<1>14. Sound(s)
  BY <1>4, <1>7, <1>13 DEF Sound
<1>. QED
  BY <1>3, <1>14, SoundVerification DEF Sound

\* depositBond and withdrawBond move the tokens with the balance.
LEMMA BalanceSolvent ==
  ASSUME IInv, SolventInv(state), NEW u \in Users, NEW amount \in BondAmounts,
         DepositBond(u, amount) \/ WithdrawBond(u, amount)
  PROVE  SolventInv(state')
<1>. DEFINE b == state.bondBalance
            c == state'.bondBalance
<1>1. /\ u \in Accounts /\ amount \in Nat /\ DOMAIN state = Fields
  BY DomainAssumption DEF Accounts, IInv, StorageInv, IsStorage
<1>2. /\ b \in [Accounts -> Nat] /\ state.tkoOf \in [Accounts -> Nat] /\ state.tkoHeld \in Nat
      /\ RoomOK(state) /\ Dues(state) <= Margin(state)
  BY DEF SolventInv, LedgerOK
<1>3. /\ state'.lastVerifiedBlockId = state.lastVerifiedBlockId
      /\ state'.numBlocks = state.numBlocks
      /\ state'.blocks = state.blocks /\ state'.transitions = state.transitions
  BY <1>1 DEF DepositBond, WithdrawBond, Fields
<1>4. Dues(state') = Dues(state) /\ RoomOK(state')
  BY <1>2, <1>3, SameDues
<1>5. PICK d \in Int :
        /\ c = [b EXCEPT ![u] = @ + d] /\ state'.tkoHeld = state.tkoHeld + d
        /\ state'.tkoOf = [state.tkoOf EXCEPT ![u] = @ - d]
        /\ b[u] + d \in Nat /\ state.tkoHeld + d \in Nat /\ state.tkoOf[u] - d \in Nat
  <2>1. CASE DepositBond(u, amount)
    <3>1. /\ c = [b EXCEPT ![u] = @ + amount] /\ state'.tkoHeld = state.tkoHeld + amount
          /\ state'.tkoOf = [state.tkoOf EXCEPT ![u] = @ - amount] /\ state.tkoOf[u] >= amount
      BY <1>1, <2>1 DEF DepositBond, Fields
    <3>2. b[u] \in Nat /\ state.tkoOf[u] \in Nat
      BY <1>1, <1>2
    <3>3. b[u] + amount \in Nat /\ state.tkoHeld + amount \in Nat
          /\ state.tkoOf[u] - amount \in Nat
      BY <1>1, <1>2, <3>1, <3>2
    <3>. QED
      BY <1>1, <3>1, <3>3
  <2>2. CASE WithdrawBond(u, amount)
    <3>0. b[u] \in Nat /\ state.tkoOf[u] \in Nat
      BY <1>1, <1>2
    <3>1. /\ c = [b EXCEPT ![u] = @ - amount] /\ state'.tkoHeld = state.tkoHeld - amount
          /\ state'.tkoOf = [state.tkoOf EXCEPT ![u] = @ + amount]
          /\ b[u] >= amount /\ state.tkoHeld >= amount
      BY <1>1, <2>2 DEF WithdrawBond, Fields
    <3>. DEFINE d == 0 - amount
    <3>2. d \in Int /\ b[u] + d = b[u] - amount /\ state.tkoHeld + d = state.tkoHeld - amount
          /\ state.tkoOf[u] - d = state.tkoOf[u] + amount
      BY <1>1, <1>2, <3>0
    <3>3. b[u] + d \in Nat /\ state.tkoHeld + d \in Nat /\ state.tkoOf[u] - d \in Nat
      BY <1>1, <1>2, <3>0, <3>1, <3>2
    <3>. HIDE DEF d
    <3>. QED
      BY <3>1, <3>2, <3>3
  <2>. QED
    BY <2>1, <2>2
<1>6. LedgerOK(state')
  BY <1>1, <1>2, <1>5 DEF LedgerOK
<1>7. Margin(state') = Margin(state)
  <2>1. /\ c[u] = b[u] + d /\ c[u] \in Nat /\ b[u] \in Nat
        /\ \A v \in Accounts \ {u} : c[v] = b[v]
    BY <1>1, <1>2, <1>5
  <2>2. \A v \in Accounts : b[v] \in Nat
    BY <1>2
  <2>. HIDE DEF b, c
  <2>3. Total(c, Accounts) = Total(b, Accounts) + c[u] - b[u]
    BY <1>1, <2>1, <2>2, AccountsFinite, TotalUpdate
  <2>4. Total(b, Accounts) \in Nat
    BY <2>2, AccountsFinite, TotalNat
  <2>5. Total(c, Accounts) = Total(b, Accounts) + d
    BY <2>1, <2>3, <2>4
  <2>6. Margin(state') = state'.tkoHeld - Total(c, Accounts)
        /\ Margin(state) = state.tkoHeld - Total(b, Accounts)
    BY DEF Margin, b, c
  <2>. QED
    BY <1>2, <1>5, <2>4, <2>5, <2>6
<1>. QED
  BY <1>2, <1>4, <1>6, <1>7 DEF SolventInv

\* Every transaction keeps the contract solvent.
LEMMA NextSolvent == IInv /\ HInv /\ SolventInv(state) /\ [Next]_vars => SolventInv(state')
<1>. SUFFICES ASSUME IInv, HInv, SolventInv(state), [Next]_vars PROVE SolventInv(state')
  OBVIOUS
<1>0. Sound(state) /\ DOMAIN state = Fields
  BY DEF IInv, HInv, Sound, StorageInv, IsStorage
<1>1. ASSUME /\ DOMAIN state' = Fields
             /\ \A f \in Fields \ {"provingPaused", "lastUnpausedAt"} : state'[f] = state[f]
      PROVE  SolventInv(state')
  <2>1. /\ state'.lastVerifiedBlockId = state.lastVerifiedBlockId
        /\ state'.numBlocks = state.numBlocks
        /\ state'.blocks = state.blocks /\ state'.transitions = state.transitions
        /\ state'.bondBalance = state.bondBalance
        /\ state'.tkoOf = state.tkoOf /\ state'.tkoHeld = state.tkoHeld
    BY <1>1 DEF Fields
  <2>2. Dues(state') = Dues(state) /\ RoomOK(state') = RoomOK(state)
    BY <2>1, SameDues
  <2>3. Margin(state') = Margin(state) /\ LedgerOK(state') = LedgerOK(state)
    BY <2>1 DEF Margin, LedgerOK
  <2>. QED
    BY <2>2, <2>3 DEF SolventInv
<1>2. CASE Propose
  <2>1. PICK u \in Users, minTier \in MinTiers :
          ProposeBlock(u, minTier) \/ ProposeBlockV2(u, minTier) \/ ProposeBlocksV2(u, minTier)
    BY <1>2 DEF Propose
  <2>. QED
    BY <1>0, <2>1, ProposeSolvent
<1>3. CASE Prove
  <2>1. PICK id \in Provable, tierId \in Tiers :
          \E u \in ProversOf(tierId), flag \in ReturnFlags(tierId),
             parentHash \in ParentHashes(id), v \in Variants, stateRoot \in ClaimedRoots(id) :
            ProveBlock(u, id, parentHash, BlockHash(id, v), stateRoot, tierId, flag)
    BY <1>3 DEF Prove
  <2>2. PICK u \in ProversOf(tierId), flag \in ReturnFlags(tierId),
             parentHash \in ParentHashes(id), v \in Variants, stateRoot \in ClaimedRoots(id) :
          ProveBlock(u, id, parentHash, BlockHash(id, v), stateRoot, tierId, flag)
    BY <2>1
  <2>3. u \in Accounts
    BY DEF ProversOf, Accounts
  <2>4. parentHash \in Hash /\ BlockHash(id, v) \in Hash /\ stateRoot \in Nat
    BY ProofInputs
  <2>. QED
    BY <1>0, <2>2, <2>3, <2>4, ProveSolvent
<1>4. CASE \E max \in 0 .. MaxBlockId : VerifyBlocks(max)
  BY <1>0, <1>4, VerifySolvent DEF VerifyBlocks, Sound
<1>5. CASE \E pause \in BOOLEAN : PauseProving(pause)
  <2>1. /\ DOMAIN state' = Fields
        /\ \A f \in Fields \ {"provingPaused", "lastUnpausedAt"} : state'[f] = state[f]
    BY <1>0, <1>5 DEF PauseProving, Fields
  <2>. QED
    BY <1>1, <2>1
<1>6. CASE Unpause
  <2>1. /\ DOMAIN state' = Fields
        /\ \A f \in Fields \ {"provingPaused", "lastUnpausedAt"} : state'[f] = state[f]
    BY <1>0, <1>6 DEF Unpause, Fields
  <2>. QED
    BY <1>1, <2>1
<1>7. CASE \E u \in Users, amount \in BondAmounts : DepositBond(u, amount) \/ WithdrawBond(u, amount)
  BY <1>7, BalanceSolvent
<1>8. CASE Pause \/ Tick \/ UNCHANGED vars
  <2>1. state' = state
    BY <1>8 DEF Pause, Tick, vars
  <2>. QED
    BY <2>1
<1>. QED
  BY <1>2, <1>3, <1>4, <1>5, <1>6, <1>7, <1>8 DEF Next

\* What the contract holds covers what it owes.
SInv == SolventInv(state)

\* The three invariants hold in every reachable state.
LEMMA SolventHolds == Spec => [](IInv /\ HInv /\ SInv)
<1>1. Spec => [](IInv /\ HInv)
  BY HInvHolds
<1>2. Init => SInv
  BY InitSolvent DEF SInv
<1>3. (IInv /\ HInv) /\ SInv /\ [Next]_vars => SInv'
  <2>. SUFFICES ASSUME IInv, HInv, SInv, [Next]_vars PROVE SInv'
    OBVIOUS
  <2>1. SolventInv(state')
    BY NextSolvent DEF SInv
  <2>. QED
    BY <2>1 DEF SInv, SolventInv, LedgerOK, RoomOK, Dues, Margin, Pending, OutstandingBonds, BondsOf
<1>. QED
  BY <1>1, <1>2, <1>3, PTL DEF Spec

\* The contract holds the tokens for every bond balance and for every bond that a block may
\* still return (LibBonds, LibProving, LibVerifying): no bond is paid out twice.
THEOREM ContractIsSolvent == Spec => []Solvent
<1>1. IInv /\ HInv /\ SInv => Solvent
  <2>. SUFFICES ASSUME IInv, SolventInv(state) PROVE Solvent
    BY DEF SInv
  <2>. DEFINE held == Total(state.bondBalance, Accounts)
              owed == Total([id \in Provable |-> OutstandingBonds(state, id)], Provable)
  <2>1. Provable = Pending(state)
    BY DEF Provable, Pending
  <2>2. owed = Dues(state)
    BY <2>1 DEF Dues
  <2>3. Dues(state) \in Nat /\ Dues(state) <= Margin(state) /\ LedgerOK(state)
    BY DuesNat DEF SolventInv, IInv
  <2>4. held \in Nat /\ Margin(state) = state.tkoHeld - held /\ state.tkoHeld \in Nat
    BY <2>3, MarginType DEF Margin, LedgerOK
  <2>5. owed \in Nat /\ owed <= Margin(state)
    BY <2>2, <2>3
  <2>. HIDE DEF owed, held
  <2>6. state.tkoHeld >= held + owed
    BY <2>4, <2>5
  <2>. QED
    BY <2>6 DEF Solvent, held, owed
<1>. QED
  BY <1>1, SolventHolds, PTL

\* Every variable keeps its type: no subtraction of a bond or of tokens underflows
\* (LibBonds), and the history stays within the verified blocks.
THEOREM TypeCorrect == Spec => []TypeOK
<1>1. IInv /\ HInv /\ SInv => TypeOK
  <2>. SUFFICES ASSUME IInv, HInv, SolventInv(state) PROVE TypeOK
    BY DEF SInv
  <2>1. StorageTypeOK /\ ClockTypeOK
    BY DEF IInv, StorageInv, StorageTypeOK
  <2>2. LedgerTypeOK
    BY DEF SolventInv, LedgerOK, LedgerTypeOK
  <2>3. /\ state.chain \in [MigratedId .. state.lastVerifiedBlockId -> ChainRecord]
        /\ DOMAIN state.syncedRoots \subseteq MigratedId .. state.lastVerifiedBlockId
        /\ \A id \in DOMAIN state.syncedRoots : state.syncedRoots[id] = state.chain[id].stateRoot
        /\ state.contests \subseteq Nat \X Tids \X Tiers
    BY DEF HInv, HistoryInv, ChainOK, SyncOK, ContestOK
  <2>4. MigratedId \in Nat /\ state.lastVerifiedBlockId \in Nat
    BY ConfigAssumption DEF IInv, StorageInv, IsStorage
  <2>5. MigratedId .. state.lastVerifiedBlockId \subseteq Nat
    BY <2>4
  <2>6. \A id \in DOMAIN state.syncedRoots : state.syncedRoots[id] \in Nat
    <3>. TAKE id \in DOMAIN state.syncedRoots
    <3>1. state.chain[id] \in ChainRecord
      BY <2>3
    <3>. QED
      BY <2>3, <3>1 DEF ChainRecord
  <2>7. HistoryTypeOK
    BY <2>3, <2>5, <2>6 DEF HistoryTypeOK
  <2>. QED
    BY <2>1, <2>2, <2>7 DEF TypeOK
<1>. QED
  BY <1>1, SolventHolds, PTL

---------------------------------------------------------------------------
(* Anchors and timestamps. *)

\* The newest block names an L1 block and a time that are past.
AnchorOK(s, time) ==
  /\ ParentBlock(s).proposedIn <= MigratedId + time
  /\ ParentBlock(s).proposedAt <= time

\* Two storages with the same blocks proposed.
SameProposals(s, t) ==
  /\ t.numBlocks = s.numBlocks
  /\ \A slot \in Slots : /\ t.blocks[slot].blockId = s.blocks[slot].blockId
                         /\ t.blocks[slot].proposedIn = s.blocks[slot].proposedIn
                         /\ t.blocks[slot].proposedAt = s.blocks[slot].proposedAt

\* One such step after another leaves the proposals alone.
LEMMA SameProposalsTwice ==
  ASSUME NEW r, NEW s, NEW t, SameProposals(r, s), SameProposals(s, t)
  PROVE  SameProposals(r, t)
BY DEF SameProposals

\* The newest block has a slot of the ring.
LEMMA ParentSlot ==
  ASSUME NEW s, StorageInv(s)
  PROVE  /\ Slot(s.numBlocks - 1) \in Slots
         /\ s.numBlocks - 1 \in Nat /\ s.numBlocks \in Nat
         /\ ParentBlock(s) \in BlockRecord
<1>1. /\ s.numBlocks \in Nat /\ s.lastVerifiedBlockId \in Nat
      /\ s.lastVerifiedBlockId < s.numBlocks
      /\ s.blocks \in [Slots -> BlockRecord]
  BY DEF StorageInv, IsStorage, RingOK
<1>2. s.numBlocks - 1 \in Nat
  BY <1>1
<1>. QED
  BY <1>1, <1>2, SlotInRing DEF ParentBlock

\* What leaves the proposals alone leaves the next default one possible.
LEMMA SameProposalsAnchor ==
  ASSUME NEW s, StorageInv(s), NEW t, SameProposals(s, t), NEW time, AnchorOK(s, time)
  PROVE  AnchorOK(t, time)
BY ParentSlot DEF AnchorOK, SameProposals, ParentBlock

\* debitBond leaves the proposals alone.
LEMMA DebitProposals ==
  ASSUME NEW s, NEW u, NEW amount, DOMAIN s = Fields
  PROVE  SameProposals(s, DebitBond(s, u, amount))
BY DEF SameProposals, DebitBond, Fields

\* So does creditBond.
LEMMA CreditProposals ==
  ASSUME NEW s, NEW u, NEW amount, DOMAIN s = Fields
  PROVE  SameProposals(s, CreditBond(s, u, amount))
BY DEF SameProposals, CreditBond, Fields

\* A write to the liveness bond or the transition counter of a block.
LEMMA TouchedProposals ==
  ASSUME NEW s, s.blocks \in [Slots -> BlockRecord], NEW t, NEW slot \in Slots, NEW blk \in BlockRecord,
         t.numBlocks = s.numBlocks, t.blocks = [s.blocks EXCEPT ![slot] = blk],
         blk.blockId = s.blocks[slot].blockId,
         blk.proposedIn = s.blocks[slot].proposedIn, blk.proposedAt = s.blocks[slot].proposedAt
  PROVE  SameProposals(s, t)
BY DEF SameProposals

\* Handling the liveness bond leaves the proposals alone.
LEMMA LivenessBondProposals ==
  ASSUME NEW s, StorageInv(s), NEW p, p.slot \in Slots
  PROVE  SameProposals(s, LivenessBondHandled(s, p))
<1>. DEFINE t == LivenessBondHandled(s, p)
            blk == [s.blocks[p.slot] EXCEPT !.livenessBond = 0, !.livenessBondReturned = TRUE]
<1>1. s.blocks \in [Slots -> BlockRecord] /\ s.blocks[p.slot] \in BlockRecord
  BY DEF StorageInv, IsStorage
<1>2. /\ t.numBlocks = s.numBlocks
      /\ t.blocks = [s.blocks EXCEPT ![p.slot] = blk]
  BY <1>1 DEF LivenessBondHandled, StorageInv, IsStorage, Fields
<1>3. /\ blk \in BlockRecord /\ blk.blockId = s.blocks[p.slot].blockId
      /\ blk.proposedIn = s.blocks[p.slot].proposedIn
      /\ blk.proposedAt = s.blocks[p.slot].proposedAt
  BY <1>1 DEF BlockRecord
<1>. HIDE DEF t, blk
<1>4. SameProposals(s, t)
  BY <1>1, <1>2, <1>3, TouchedProposals
<1>. QED
  BY <1>4 DEF t

\* So do the bond moves of _overrideWithHigherProof,
LEMMA OverriddenProposals ==
  ASSUME NEW s, StorageInv(s), NEW p, p.slot \in Slots
  PROVE  SameProposals(s, Overridden(s, p).s)
<1>0. DOMAIN s = Fields /\ SameProposals(s, s)
  BY DEF StorageInv, IsStorage, SameProposals
<1>1. SameProposals(s, ContestResolved(s, p).s)
  BY <1>0, CreditProposals DEF ContestResolved
<1>2. SameProposals(s, ProvedUncontested(s, p).s)
  <2>. DEFINE handled == IF p.livenessBond = 0 THEN s ELSE LivenessBondHandled(s, p)
  <2>1. SameProposals(s, handled) /\ DOMAIN handled = Fields
    BY <1>0, LivenessBondProposals, LivenessBondHandledInv DEF StorageInv, IsStorage
  <2>. HIDE DEF handled
  <2>2. SameProposals(s, CreditBond(handled, p.assignedProver, p.livenessBond))
    BY <2>1, CreditProposals, SameProposalsTwice
  <2>3. ProvedUncontested(s, p).s
          \in {handled, CreditBond(handled, p.assignedProver, p.livenessBond)}
    BY DEF ProvedUncontested, handled
  <2>. QED
    BY <2>1, <2>2, <2>3
<1>. QED
  BY <1>1, <1>2 DEF Overridden

\* the fetch or the creation of a transition,
LEMMA FetchedProposals ==
  ASSUME NEW s, StorageInv(s), NEW id \in s.lastVerifiedBlockId + 1 .. s.numBlocks - 1,
         NEW u, NEW parentHash, NEW blockHash, NEW stateRoot, NEW tierId, NEW flag,
         NEW p \in ProofLocals(s, u, id, parentHash, blockHash, stateRoot, tierId, flag)
  PROVE  SameProposals(s, p.fetched)
<1>. DEFINE slot == Slot(id)
            tid == p.tid
            with == WithNewTransition(s, id, tid, parentHash)
            blk == [s.blocks[slot] EXCEPT !.nextTransitionId = @ + 1]
<1>1. /\ s.blocks \in [Slots -> BlockRecord] /\ slot \in Slots
      /\ s.blocks[slot] \in BlockRecord /\ s.numBlocks = s.numBlocks
  BY SlotInRing DEF StorageInv, IsStorage
<1>2. p.fetched = s \/ p.fetched = with
  BY DEF ProofLocals
<1>3. with.numBlocks = s.numBlocks /\ with.blocks = [s.blocks EXCEPT ![slot] = blk]
  BY <1>1 DEF WithNewTransition, StorageInv, IsStorage, Fields
<1>4. /\ blk \in BlockRecord /\ blk.blockId = s.blocks[slot].blockId
      /\ blk.proposedIn = s.blocks[slot].proposedIn
      /\ blk.proposedAt = s.blocks[slot].proposedAt
  BY <1>1 DEF BlockRecord
<1>. HIDE DEF with, blk, slot
<1>5. SameProposals(s, with)
  BY <1>1, <1>3, <1>4, TouchedProposals
<1>6. SameProposals(s, s)
  BY DEF SameProposals
<1>. QED
  BY <1>2, <1>5, <1>6

\* and whatever a proof turns out to be.
LEMMA SettledProposals ==
  ASSUME NEW s, StorageInv(s), NEW p, ProofRecord(p), NEW t \in Settled(s, p)
  PROVE  SameProposals(s, t)
<1>1. DOMAIN s = Fields /\ p.slot \in Slots /\ SameProposals(s, s)
  BY DEF StorageInv, IsStorage, ProofRecord, SameProposals
<1>2. CASE t = OverrideWithHigherProof(s, p)
  <2>. DEFINE moved == Overridden(s, p)
              bond == p.tier.validityBond
              settled == IF moved.reward > bond
                         THEN CreditBond(moved.s, p.sender, moved.reward - bond)
                         ELSE DebitBond(moved.s, p.sender, bond - moved.reward)
  <2>1. SameProposals(s, moved.s) /\ DOMAIN moved.s = Fields
    BY <1>1, OverriddenProposals, OverriddenInv DEF StorageInv, IsStorage
  <2>. HIDE DEF moved
  <2>2. SameProposals(moved.s, settled) /\ DOMAIN settled = Fields
    BY <2>1, CreditProposals, DebitProposals, CreditSame, DebitSame DEF SameRing
  <2>3. t.numBlocks = settled.numBlocks /\ t.blocks = settled.blocks
    BY <1>2, <2>2 DEF OverrideWithHigherProof, moved, Fields
  <2>. HIDE DEF settled
  <2>4. SameProposals(settled, t)
    BY <2>3 DEF SameProposals
  <2>. QED
    BY <2>1, <2>2, <2>4, SameProposalsTwice
<1>3. CASE t = Reproved(s, p)
  BY <1>1, <1>3 DEF Reproved, SameProposals, Fields
<1>4. CASE t = Contested(s, p)
  <2>. DEFINE debited == DebitBond(s, p.sender, p.tier.contestBond)
  <2>1. SameProposals(s, debited) /\ DOMAIN debited = Fields
    BY <1>1, DebitProposals, DebitSame DEF SameRing
  <2>2. t.numBlocks = debited.numBlocks /\ t.blocks = debited.blocks
    BY <1>4, <2>1 DEF Contested, Fields
  <2>. HIDE DEF debited
  <2>. QED
    BY <2>1, <2>2 DEF SameProposals
<1>. QED
  BY <1>2, <1>3, <1>4 DEF Settled

\* verifyBlocks leaves the proposals alone.
LEMMA VerifyProposals ==
  ASSUME NEW s, StorageInv(s), NEW max, NEW t \in VerifyOutcomes(s, max)
  PROVE  SameProposals(s, t)
<1>1. CASE t = s
  BY <1>1 DEF SameProposals
<1>2. CASE t # s
  <2>1. PICK last \in s.lastVerifiedBlockId .. s.numBlocks - 1 :
          \E tids \in [s.lastVerifiedBlockId + 1 .. last -> Tids] :
             /\ IsRun(s, max, last, tids)
             /\ \E sync \in SyncPoints(s, last, tids) : IsVerified(s, last, tids, sync, t)
    BY <1>2, VerifyOutcome
  <2>2. PICK tids \in [s.lastVerifiedBlockId + 1 .. last -> Tids] :
             /\ IsRun(s, max, last, tids)
             /\ \E sync \in SyncPoints(s, last, tids) : IsVerified(s, last, tids, sync, t)
    BY <2>1
  <2>3. RingAfter(s, last, tids, t)
    BY <2>2, VerifiedFields
  <2>. QED
    BY <2>3 DEF RingAfter, KeptOfBlock, SameProposals
<1>. QED
  BY <1>1, <1>2

\* So does the verification at the end of a transaction,
LEMMA AfterVerificationProposals ==
  ASSUME NEW s, StorageInv(s), NEW id, NEW isProposed, NEW t \in AfterVerification(s, id, isProposed)
  PROVE  SameProposals(s, t)
BY VerifyProposals DEF AfterVerification, SameProposals

\* A storage that the next default proposal may build on.
Open(s, time) == StorageInv(s) /\ HistoryInv(s) /\ AnchorOK(s, time)

\* which leaves an open storage open.
LEMMA OpenVerification ==
  ASSUME NEW s, NEW time, Open(s, time), NEW id, NEW isProposed,
         NEW t \in AfterVerification(s, id, isProposed)
  PROVE  Open(t, time)
<1>1. StorageInv(t) /\ HistoryInv(t)
  BY AfterVerificationInv, AfterVerificationHistory DEF Open
<1>2. AnchorOK(t, time)
  BY AfterVerificationProposals, SameProposalsAnchor DEF Open
<1>. QED
  BY <1>1, <1>2 DEF Open

\* A new block after the fork names an anchor and a time that are past.
LEMMA OpenProposal ==
  ASSUME OntakeForkHeight <= MigratedId + 1, ClockTypeOK, NEW s, Open(s, now),
         NEW u \in Accounts, NEW minTier \in Tiers,
         NEW anchorBlockId \in Int, NEW timestamp \in Int,
         NEW t \in Proposed(s, u, anchorBlockId, timestamp, minTier)
  PROVE  Open(t, now)
<1>1. StorageInv(t) /\ HistoryInv(t)
  BY ProposedInv, ProposedHistory DEF Open
<1>. DEFINE blk == NewBlock(s, u, anchorBlockId, timestamp, minTier)
            r == Appended(s, blk)
            slot == Slot(s.numBlocks)
<1>2. /\ s.numBlocks \in Nat /\ slot \in Slots /\ DOMAIN s = Fields
      /\ s.blocks \in [Slots -> BlockRecord]
  BY SlotInRing DEF Open, StorageInv, IsStorage
<1>3. PostFork(s.numBlocks)
  <2>1. /\ MigratedId <= s.lastVerifiedBlockId /\ s.lastVerifiedBlockId < s.numBlocks
        /\ s.lastVerifiedBlockId \in Nat
    BY DEF Open, HistoryInv, ChainOK, StorageInv, RingOK, IsStorage
  <2>. QED
    BY <1>2, <2>1, ConfigAssumption DEF PostFork
<1>4. /\ ValidAnchor(s, anchorBlockId) /\ ValidTimestamp(s, timestamp)
      /\ t = DebitBond(r, u, LivenessBond)
  BY <1>3 DEF Proposed, CanPropose
<1>5. /\ blk.blockId = s.numBlocks /\ blk.proposedIn = anchorBlockId
      /\ blk.proposedAt = timestamp
  BY <1>3 DEF NewBlock, EmptyBlock
<1>. HIDE DEF blk
<1>6. /\ r.numBlocks = s.numBlocks + 1 /\ r.blocks[slot] = blk /\ DOMAIN r = Fields
  BY <1>2, <1>5 DEF Appended, Fields
<1>. HIDE DEF r
<1>7. t.numBlocks = s.numBlocks + 1 /\ t.blocks[slot] = blk
  BY <1>4, <1>6 DEF DebitBond, Fields
<1>8. ParentBlock(t) = blk
  <2>1. t.numBlocks - 1 = s.numBlocks
    BY <1>2, <1>7
  <2>. QED
    BY <1>7, <2>1 DEF ParentBlock
<1>9. AnchorOK(t, now)
  <2>1. now \in Nat /\ BlockNumber = MigratedId + 1 + now /\ MigratedId \in Nat
    BY ConfigAssumption DEF ClockTypeOK, BlockNumber
  <2>2. anchorBlockId < BlockNumber /\ timestamp <= now
    BY <1>4 DEF ValidAnchor, ValidTimestamp
  <2>3. anchorBlockId <= MigratedId + now
    BY <2>1, <2>2
  <2>. QED
    BY <1>5, <1>8, <2>2, <2>3 DEF AnchorOK
<1>. QED
  BY <1>1, <1>9 DEF Open

\* A proving transaction leaves the next default proposal possible.
LEMMA OpenProof ==
  ASSUME IInv, HInv, AnchorOK(state, now), NEW u \in Accounts, NEW id \in Provable,
         NEW parentHash \in Hash, NEW blockHash \in Hash, NEW stateRoot \in Nat,
         NEW tierId \in Tiers, NEW flag,
         ProveBlock(u, id, parentHash, blockHash, stateRoot, tierId, flag)
  PROVE  AnchorOK(state', now)
<1>0. /\ StorageInv(state) /\ ClockTypeOK
      /\ id \in state.lastVerifiedBlockId + 1 .. state.numBlocks - 1
  BY DEF IInv, Provable
<1>1. PICK p \in ProofLocals(state, u, id, parentHash, blockHash, stateRoot, tierId, flag) :
        \E s \in Settled(p.fetched, p) : state' \in AfterVerification(s, id, TRUE)
  BY DEF ProveBlock
<1>2. ProofRecord(p) /\ StorageInv(p.fetched) /\ SameProposals(state, p.fetched)
  BY <1>0, <1>1, ProofLocalsInv, FetchedProposals
<1>3. PICK s \in Settled(p.fetched, p) : state' \in AfterVerification(s, id, TRUE)
  BY <1>1
<1>4. StorageInv(s) /\ SameProposals(p.fetched, s)
  BY <1>0, <1>2, <1>3, SettledInv, SettledProposals
<1>5. SameProposals(s, state')
  BY <1>3, <1>4, AfterVerificationProposals
<1>6. SameProposals(state, state')
  BY <1>2, <1>4, <1>5, SameProposalsTwice
<1>. QED
  BY <1>0, <1>6, SameProposalsAnchor

\* So does a proposing one.
LEMMA OpenPropose ==
  ASSUME OntakeForkHeight <= MigratedId + 1, IInv, HInv, AnchorOK(state, now),
         NEW u \in Users, NEW minTier \in MinTiers,
         ProposeBlock(u, minTier) \/ ProposeBlockV2(u, minTier) \/ ProposeBlocksV2(u, minTier)
  PROVE  AnchorOK(state', now)
<1>1. /\ u \in Accounts /\ minTier \in Tiers /\ BlockNumber \in Int /\ BlockNumber - 1 \in Int
      /\ now \in Int /\ ClockTypeOK /\ Open(state, now)
  BY DomainAssumption, ConfigAssumption DEF Accounts, IInv, HInv, ClockTypeOK, BlockNumber, Open
<1>2. ASSUME NEW s, Open(s, now), NEW anchorBlockId \in Int, NEW timestamp \in Int,
             NEW t \in Proposed(s, u, anchorBlockId, timestamp, minTier)
      PROVE  Open(t, now)
  BY <1>1, <1>2, OpenProposal
<1>3. CASE ProposeBlock(u, minTier)
  <2>1. PICK s \in Proposed(state, u, BlockNumber - 1, now, minTier) :
          state' \in AfterVerification(s, state.numBlocks, FALSE)
    BY <1>3 DEF ProposeBlock
  <2>2. Open(s, now)
    BY <1>1, <1>2, <2>1
  <2>. QED
    BY <2>1, <2>2, OpenVerification DEF Open
<1>4. CASE ProposeBlockV2(u, minTier)
  <2>1. PICK anchorBlockId \in Anchors, timestamp \in Timestamps :
          \E s \in Proposed(state, u, anchorBlockId, timestamp, minTier) :
            state' \in AfterVerification(s, state.numBlocks, FALSE)
    BY <1>4 DEF ProposeBlockV2
  <2>2. anchorBlockId \in Int /\ timestamp \in Int
    BY <1>1, ConfigAssumption DEF Anchors, Timestamps
  <2>3. PICK s \in Proposed(state, u, anchorBlockId, timestamp, minTier) :
          state' \in AfterVerification(s, state.numBlocks, FALSE)
    BY <2>1
  <2>4. Open(s, now)
    BY <1>1, <1>2, <2>2, <2>3
  <2>. QED
    BY <2>3, <2>4, OpenVerification DEF Open
<1>5. CASE ProposeBlocksV2(u, minTier)
  <2>1. PICK first \in Proposed(state, u, BlockNumber - 1, now, minTier) :
          \E second \in Proposed(first, u, BlockNumber - 1, now, minTier) :
            \E s \in AfterVerification(second, state.numBlocks, FALSE) :
              state' \in AfterVerification(s, state.numBlocks + 1, FALSE)
    BY <1>5 DEF ProposeBlocksV2
  <2>2. PICK second \in Proposed(first, u, BlockNumber - 1, now, minTier) :
          \E s \in AfterVerification(second, state.numBlocks, FALSE) :
            state' \in AfterVerification(s, state.numBlocks + 1, FALSE)
    BY <2>1
  <2>3. PICK s \in AfterVerification(second, state.numBlocks, FALSE) :
            state' \in AfterVerification(s, state.numBlocks + 1, FALSE)
    BY <2>2
  <2>4. Open(first, now)
    BY <1>1, <1>2, <2>1
  <2>5. Open(second, now)
    BY <1>1, <1>2, <2>2, <2>4
  <2>6. Open(s, now)
    BY <2>3, <2>5, OpenVerification
  <2>. QED
    BY <2>3, <2>6, OpenVerification DEF Open
<1>. QED
  BY <1>3, <1>4, <1>5

\* The first block is that of init or of initMigrate.
LEMMA InitAnchor == OntakeForkHeight <= MigratedId + 1 /\ Init => AnchorOK(state, now)
<1>. SUFFICES ASSUME OntakeForkHeight <= MigratedId + 1, Init PROVE AnchorOK(state, now)
  OBVIOUS
<1>0. ClockTypeOK /\ now = 0 /\ now \in Int /\ MigratedId \in Nat
  <2>1. ClockTypeOK /\ now = 0
    BY DomainAssumption DEF Init, ClockTypeOK
  <2>. QED
    BY <2>1, ConfigAssumption
<1>1. CASE MigratedId = 0
  <2>0. Slot(0) = 0 /\ 0 \in Slots
    BY ConfigAssumption DEF Slot, Slots
  <2>1. state.numBlocks = 1 /\ state.blocks[0] = GenesisBlock
    BY <1>1, <2>0 DEF Init, InitState
  <2>2. Slot(state.numBlocks - 1) = 0
    BY <2>0, <2>1
  <2>3. ParentBlock(state) = GenesisBlock
    BY <2>1, <2>2 DEF ParentBlock
  <2>. QED
    BY <1>0, <1>1, <2>3 DEF AnchorOK, GenesisBlock, EmptyBlock
<1>2. CASE MigratedId # 0
  <2>0. InitMigrate
    BY <1>2 DEF Init
  <2>1. PICK u \in Users, minTier \in MinTiers :
          \E s \in Proposed(MigratedState, u, BlockNumber - 1, now, minTier) :
            state \in AfterVerification(s, MigratedId + 1, FALSE)
    BY <2>0 DEF InitMigrate
  <2>2. PICK s \in Proposed(MigratedState, u, BlockNumber - 1, now, minTier) :
            state \in AfterVerification(s, MigratedId + 1, FALSE)
    BY <2>1
  <2>3. u \in Accounts /\ minTier \in Tiers /\ BlockNumber - 1 \in Int
    BY <1>0, DomainAssumption DEF Accounts, BlockNumber
  <2>4. AnchorOK(MigratedState, now)
    <3>1. /\ MigratedState.numBlocks - 1 = MigratedId /\ Slot(MigratedId) \in Slots
          /\ MigratedState.blocks[Slot(MigratedId)].proposedIn = MigratedId
          /\ MigratedState.blocks[Slot(MigratedId)].proposedAt = 0
      BY <1>0, SlotInRing DEF MigratedState, InitState, GenesisBlock, EmptyBlock
    <3>. QED
      BY <1>0, <3>1 DEF AnchorOK, ParentBlock
  <2>5. Open(MigratedState, now)
    BY <2>4, MigratedStateInv, MigratedStateHistory DEF Open
  <2>6. Open(s, now)
    BY <1>0, <2>2, <2>3, <2>5, OpenProposal
  <2>. QED
    BY <2>2, <2>6, OpenVerification DEF Open
<1>. QED
  BY <1>1, <1>2

\* Every transaction leaves the next default proposal possible.
LEMMA NextAnchor ==
  ASSUME OntakeForkHeight <= MigratedId + 1, IInv, HInv, AnchorOK(state, now), [Next]_vars
  PROVE  AnchorOK(state', now')
<1>0. /\ StorageInv(state) /\ HistoryInv(state) /\ ClockTypeOK /\ DOMAIN state = Fields
  BY DEF IInv, HInv, StorageInv, IsStorage
<1>1. CASE Propose
  <2>1. PICK u \in Users, minTier \in MinTiers :
          ProposeBlock(u, minTier) \/ ProposeBlockV2(u, minTier) \/ ProposeBlocksV2(u, minTier)
    BY <1>1 DEF Propose
  <2>2. now' = now
    BY <2>1 DEF ProposeBlock, ProposeBlockV2, ProposeBlocksV2
  <2>3. AnchorOK(state', now)
    BY <2>1, OpenPropose
  <2>. QED
    BY <2>2, <2>3
<1>2. CASE Prove
  <2>1. PICK id \in Provable, tierId \in Tiers :
          \E u \in ProversOf(tierId), flag \in ReturnFlags(tierId),
             parentHash \in ParentHashes(id), v \in Variants, stateRoot \in ClaimedRoots(id) :
            ProveBlock(u, id, parentHash, BlockHash(id, v), stateRoot, tierId, flag)
    BY <1>2 DEF Prove
  <2>2. PICK u \in ProversOf(tierId), flag \in ReturnFlags(tierId),
             parentHash \in ParentHashes(id), v \in Variants, stateRoot \in ClaimedRoots(id) :
          ProveBlock(u, id, parentHash, BlockHash(id, v), stateRoot, tierId, flag)
    BY <2>1
  <2>3. u \in Accounts
    BY DEF ProversOf, Accounts
  <2>4. parentHash \in Hash /\ BlockHash(id, v) \in Hash /\ stateRoot \in Nat
    BY ProofInputs
  <2>5. now' = now
    BY <2>2 DEF ProveBlock
  <2>6. AnchorOK(state', now)
    BY <2>2, <2>3, <2>4, OpenProof
  <2>. QED
    BY <2>5, <2>6
<1>3. CASE \E max \in 0 .. MaxBlockId : VerifyBlocks(max)
  <2>1. PICK max \in 0 .. MaxBlockId : VerifyBlocks(max)
    BY <1>3
  <2>2. SameProposals(state, state') /\ now' = now
    BY <1>0, <2>1, VerifyProposals DEF VerifyBlocks
  <2>. QED
    BY <1>0, <2>2, SameProposalsAnchor
<1>4. CASE \/ \E pause \in BOOLEAN : PauseProving(pause)
           \/ Unpause
           \/ \E u \in Users, amount \in BondAmounts : DepositBond(u, amount) \/ WithdrawBond(u, amount)
  <2>1. state'.numBlocks = state.numBlocks /\ state'.blocks = state.blocks /\ now' = now
    BY <1>0, <1>4 DEF PauseProving, Unpause, DepositBond, WithdrawBond, Fields
  <2>2. SameProposals(state, state')
    BY <2>1 DEF SameProposals
  <2>. QED
    BY <1>0, <2>1, <2>2, SameProposalsAnchor
<1>5. CASE Pause \/ UNCHANGED vars
  BY <1>5 DEF Pause, vars
<1>6. CASE Tick
  <2>1. state' = state /\ now' = now + 1
    BY <1>6 DEF Tick
  <2>. DEFINE anchor == ParentBlock(state).proposedIn
              time == ParentBlock(state).proposedAt
  <2>2. anchor \in Nat /\ time \in Nat /\ now \in Nat /\ MigratedId \in Nat
    BY <1>0, ParentSlot, ConfigAssumption DEF BlockRecord, ClockTypeOK
  <2>3. anchor <= MigratedId + now /\ time <= now
    BY DEF AnchorOK
  <2>. HIDE DEF anchor, time
  <2>4. anchor <= MigratedId + (now + 1) /\ time <= now + 1
    BY <2>2, <2>3
  <2>5. AnchorOK(state, now + 1)
    BY <2>4 DEF AnchorOK, anchor, time
  <2>. QED
    BY <2>1, <2>5
<1>. QED
  BY <1>1, <1>2, <1>3, <1>4, <1>5, <1>6 DEF Next

\* The newest block of the chain and the clock.
AInv == AnchorOK(state, now)

\* Where every block since the migration is after the fork and anchors may lag, as deployed,
\* the default anchor and timestamp always pass the checks against the parent block
\* (LibProposing.proposeBlock): no proposal locks the next one out.
THEOREM DefaultsStayAdmissible ==
  ASSUME MaxAnchorHeightOffset > 0, OntakeForkHeight <= MigratedId + 1
  PROVE  Spec => []DefaultProposalAdmissible
<1>1. Init => AInv
  BY InitAnchor DEF AInv
<1>2. (IInv /\ HInv) /\ AInv /\ [Next]_vars => AInv'
  <2>. SUFFICES ASSUME IInv, HInv, AInv, [Next]_vars PROVE AInv'
    OBVIOUS
  <2>1. AnchorOK(state', now')
    BY NextAnchor DEF AInv
  <2>. QED
    BY <2>1 DEF AInv, AnchorOK, ParentBlock
<1>3. IInv /\ AInv => DefaultProposalAdmissible
  <2>. SUFFICES ASSUME IInv, AInv PROVE DefaultProposalAdmissible
    OBVIOUS
  <2>. DEFINE anchor == ParentBlock(state).proposedIn
  <2>1. /\ anchor \in Nat /\ now \in Nat /\ MigratedId \in Nat /\ AnchorWindow \in Nat
        /\ MaxAnchorHeightOffset \in Nat
    BY ParentSlot, ConfigAssumption DEF BlockRecord, ClockTypeOK, IInv
  <2>2. anchor <= MigratedId + now /\ ParentBlock(state).proposedAt <= now
    BY DEF AInv, AnchorOK
  <2>3. ValidTimestamp(state, now)
    <3>1. now + AnchorWindow >= now /\ now <= now
      BY <2>1
    <3>2. ParentBlock(state).proposedAt \in Nat
      BY ParentSlot DEF BlockRecord, IInv
    <3>. QED
      BY <2>1, <2>2, <3>1, <3>2 DEF ValidTimestamp
  <2>4. ValidAnchor(state, BlockNumber - 1)
    <3>. HIDE DEF anchor
    <3>1. /\ BlockNumber - 1 + MaxAnchorHeightOffset >= BlockNumber
          /\ BlockNumber - 1 < BlockNumber /\ BlockNumber - 1 >= anchor
      BY <2>1, <2>2 DEF BlockNumber
    <3>. QED
      BY <3>1 DEF ValidAnchor, anchor
  <2>. QED
    BY <2>3, <2>4 DEF DefaultProposalAdmissible
<1>. QED
  BY <1>1, <1>2, <1>3, HInvHolds, PTL DEF Spec

---------------------------------------------------------------------------
(* What a reused slot still holds.  The key of the first transition of a   *)
(* slot outlives its block; verification must never take it for the hash   *)
(* it looks for.                                                           *)

\* The block that a hash is of; the hashes of init and of the migration name none.
Of(hash) == hash[2]
Plain == {ZeroHash, OneHash}

\* A key is of the parent of the block in its slot or, where that one has no transition yet,
\* of the parent of a block that had the slot before.
KeyFits(key, slot, blockId, next) ==
  LET child == Of(key) + 1
  IN  /\ child > MigratedId /\ Slot(child) = slot /\ child <= blockId
      /\ next = 1 => child # blockId
KeysOK(s) ==
  \A slot \in Slots :
    LET blk == s.blocks[slot]
        key == s.transitions[slot][1].key
    IN  /\ blk.blockId < s.numBlocks
        /\ key \in Plain \/ KeyFits(key, slot, blk.blockId, blk.nextTransitionId)

\* The hashes of an unverified block and of its transitions are its own.
NamesOK(s) ==
  \A id \in s.lastVerifiedBlockId + 1 .. s.numBlocks - 1 :
    /\ Of(s.blocks[Slot(id)].metaHash) = id
    /\ \A tid \in Tids : tid < s.blocks[Slot(id)].nextTransitionId =>
         Of(s.transitions[Slot(id)][tid].blockHash) = id

\* So is the hash of the last verified block.
EndOK(s) == VerifiedHash(s) \in Plain \/ Of(VerifiedHash(s)) = s.lastVerifiedBlockId

NameInv(s) == KeysOK(s) /\ NamesOK(s) /\ EndOK(s)

\* Two storages that differ in tokens, pauses and bonds of blocks.
SameNames(s, t) ==
  /\ t.numBlocks = s.numBlocks /\ t.lastVerifiedBlockId = s.lastVerifiedBlockId
  /\ t.transitions = s.transitions
  /\ \A slot \in Slots :
       \A f \in {"metaHash", "blockId", "nextTransitionId", "verifiedTransitionId"} :
         t.blocks[slot][f] = s.blocks[slot][f]

\* What leaves hashes and cursors alone leaves the names alone.
LEMMA SameNamesInv ==
  ASSUME NEW s, StorageInv(s), NameInv(s), NEW t, SameNames(s, t)
  PROVE  NameInv(t)
<1>1. /\ t.numBlocks = s.numBlocks /\ t.lastVerifiedBlockId = s.lastVerifiedBlockId
      /\ t.transitions = s.transitions
  BY DEF SameNames
<1>2. ASSUME NEW slot \in Slots
      PROVE  /\ t.blocks[slot].metaHash = s.blocks[slot].metaHash
             /\ t.blocks[slot].blockId = s.blocks[slot].blockId
             /\ t.blocks[slot].nextTransitionId = s.blocks[slot].nextTransitionId
             /\ t.blocks[slot].verifiedTransitionId = s.blocks[slot].verifiedTransitionId
  BY DEF SameNames
<1>3. s.lastVerifiedBlockId \in Nat /\ s.numBlocks \in Nat
  BY DEF StorageInv, IsStorage
<1>4. KeysOK(t)
  BY <1>1, <1>2 DEF NameInv, KeysOK
<1>5. NamesOK(t)
  BY <1>1, <1>2, <1>3, SlotInRing DEF NameInv, NamesOK
<1>6. EndOK(t)
  BY <1>1, <1>2, <1>3, SlotInRing DEF NameInv, EndOK, VerifiedHash
<1>. QED
  BY <1>4, <1>5, <1>6 DEF NameInv

\* The hashes that the contract and the provers use name their blocks.
LEMMA HashNames ==
  ASSUME NEW id \in Nat
  PROVE  /\ Of(MetaHash(id)) = id
         /\ \A v : Of(BlockHash(id, v)) = id
BY DEF Of, MetaHash, BlockHash

\* A new block takes a slot whose key is of an older block.
LEMMA AppendedNames ==
  ASSUME NEW s, StorageInv(s), NameInv(s), NEW blk \in BlockRecord,
         blk.blockId = s.numBlocks, blk.nextTransitionId = 1, blk.metaHash = MetaHash(s.numBlocks),
         HasRoom(s)
  PROVE  NameInv(Appended(s, blk))
<1>. DEFINE t == Appended(s, blk)
            used == s.lastVerifiedBlockId .. s.numBlocks - 1
            slot == Slot(s.numBlocks)
<1>1. /\ t.blocks = [s.blocks EXCEPT ![slot] = blk]
      /\ t.numBlocks = s.numBlocks + 1 /\ t.transitions = s.transitions
      /\ t.lastVerifiedBlockId = s.lastVerifiedBlockId
  BY DEF Appended, StorageInv, IsStorage, Fields
<1>2. /\ s.lastVerifiedBlockId \in Nat /\ s.numBlocks \in Nat
      /\ s.blocks \in [Slots -> BlockRecord]
      /\ s.transitions \in [Slots -> [Tids -> TransitionRecord]]
      /\ s.lastVerifiedBlockId < s.numBlocks
      /\ s.numBlocks <= s.lastVerifiedBlockId + BlockMaxProposals
  BY ConfigAssumption DEF StorageInv, IsStorage, RingOK, HasRoom
<1>. HIDE DEF t
<1>3. \A id \in used : t.blocks[Slot(id)] = s.blocks[Slot(id)]
  <2>. TAKE id \in used
  <2>1. id \in Nat /\ id < s.numBlocks /\ s.numBlocks < id + BlockRingBufferSize
    BY <1>2, ConfigAssumption
  <2>2. Slot(id) # slot /\ Slot(id) \in Slots
    BY <2>1, <1>2, SlotsDiffer, SlotInRing
  <2>. QED
    BY <1>1, <1>2, <2>2
<1>4. t.blocks[slot] = blk /\ slot \in Slots
  BY <1>1, <1>2, SlotInRing
<1>. HIDE DEF slot
<1>5. KeysOK(t)
  <2>1. ASSUME NEW i \in Slots
        PROVE  /\ t.blocks[i].blockId < t.numBlocks
               /\ \/ t.transitions[i][1].key \in Plain
                  \/ KeyFits(t.transitions[i][1].key, i, t.blocks[i].blockId,
                             t.blocks[i].nextTransitionId)
    <3>. DEFINE key == s.transitions[i][1].key
                old == s.blocks[i].blockId
    <3>1. /\ old < s.numBlocks /\ old \in Nat
          /\ key \in Plain \/ KeyFits(key, i, old, s.blocks[i].nextTransitionId)
      BY <1>2 DEF NameInv, KeysOK, BlockRecord
    <3>2. key \in Hash
      <4>1. 1 \in Tids
        BY ConfigAssumption DEF Tids
      <4>2. s.transitions[i][1] \in TransitionRecord
        BY <1>2, <4>1
      <4>. QED
        BY <4>2 DEF TransitionRecord
    <3>3. Of(key) \in Nat
      BY <3>2 DEF Of, Hash
    <3>. HIDE DEF key, old
    <3>4. CASE i = slot
      <4>1. t.blocks[i].blockId = s.numBlocks /\ t.blocks[i].nextTransitionId = 1
        BY <1>4, <3>4
      <4>2. ASSUME KeyFits(key, i, old, s.blocks[i].nextTransitionId)
            PROVE  KeyFits(key, i, s.numBlocks, 1)
        BY <1>2, <3>1, <3>3, <4>2 DEF KeyFits
      <4>. QED
        BY <1>1, <1>2, <3>1, <4>1, <4>2 DEF key
    <3>5. CASE i # slot
      <4>1. t.blocks[i] = s.blocks[i]
        BY <1>1, <1>2, <3>5
      <4>. QED
        BY <1>1, <1>2, <3>1, <4>1 DEF key, old
    <3>. QED
      BY <3>4, <3>5
  <2>. QED
    BY <2>1 DEF KeysOK
<1>6. NamesOK(t)
  <2>1. Of(blk.metaHash) = s.numBlocks
    BY <1>2, HashNames
  <2>2. \A tid \in Tids : ~(tid < 1)
    BY DEF Tids
  <2>3. ASSUME NEW id \in t.lastVerifiedBlockId + 1 .. t.numBlocks - 1
        PROVE  /\ Of(t.blocks[Slot(id)].metaHash) = id
               /\ \A tid \in Tids : tid < t.blocks[Slot(id)].nextTransitionId =>
                    Of(t.transitions[Slot(id)][tid].blockHash) = id
    <3>1. CASE id = s.numBlocks
      <4>1. t.blocks[Slot(id)] = blk
        BY <1>4, <3>1 DEF slot
      <4>. QED
        BY <2>1, <2>2, <3>1, <4>1
    <3>2. CASE id # s.numBlocks
      <4>1. id \in used /\ id \in s.lastVerifiedBlockId + 1 .. s.numBlocks - 1
        <5>. DEFINE n == s.numBlocks
                    from == s.lastVerifiedBlockId
        <5>1. id \in from + 1 .. (n + 1) - 1 /\ n \in Nat /\ from \in Nat /\ id # n
          BY <1>1, <1>2, <3>2
        <5>. HIDE DEF n, from
        <5>2. id \in from .. n - 1 /\ id \in from + 1 .. n - 1
          BY <5>1
        <5>. QED
          BY <5>2 DEF n, from
      <4>2. t.blocks[Slot(id)] = s.blocks[Slot(id)]
        BY <1>3, <4>1
      <4>. QED
        BY <1>1, <4>1, <4>2 DEF NameInv, NamesOK
    <3>. QED
      BY <3>1, <3>2
  <2>. QED
    BY <2>3 DEF NamesOK
<1>7. EndOK(t)
  <2>1. s.lastVerifiedBlockId \in used
    BY <1>2
  <2>2. VerifiedHash(t) = VerifiedHash(s)
    BY <1>1, <1>3, <2>1 DEF VerifiedHash
  <2>. QED
    BY <1>1, <2>2 DEF NameInv, EndOK
<1>8. NameInv(t)
  BY <1>5, <1>6, <1>7 DEF NameInv
<1>. QED
  BY <1>8 DEF t

\* _proposeBlock keeps the names.
LEMMA ProposedNames ==
  ASSUME NEW s, StorageInv(s), NameInv(s), ClockTypeOK, NEW u \in Accounts,
         NEW minTier \in Tiers, NEW anchorBlockId \in Int, NEW timestamp \in Int,
         NEW t \in Proposed(s, u, anchorBlockId, timestamp, minTier)
  PROVE  NameInv(t)
<1>. DEFINE blk == NewBlock(s, u, anchorBlockId, timestamp, minTier)
            r == Appended(s, blk)
<1>1. CanPropose(s, u, anchorBlockId, timestamp) /\ t = DebitBond(r, u, LivenessBond)
  BY DEF Proposed
<1>2. /\ blk \in BlockRecord /\ blk.blockId = s.numBlocks /\ blk.nextTransitionId # 0
      /\ HasRoom(s)
  BY <1>1, NewBlockType DEF CanPropose
<1>3. blk.nextTransitionId = 1 /\ blk.metaHash = MetaHash(s.numBlocks)
  BY DEF NewBlock, EmptyBlock
<1>. HIDE DEF blk
<1>4. StorageInv(r) /\ NameInv(r)
  BY <1>2, <1>3, AppendedInv, AppendedNames
<1>. HIDE DEF r
<1>5. SameHistory(r, t)
  BY <1>1, <1>4, DebitHistory DEF StorageInv, IsStorage
<1>6. SameNames(r, t)
  BY <1>5 DEF SameHistory, SameNames
<1>. QED
  BY <1>4, <1>6, SameNamesInv

\* A run writes the metadata hash over the hash of a transition, or leaves it.
LEMMA HashesAfter ==
  ASSUME NEW s, StorageInv(s), NEW last, NEW tids, NEW sync,
         NEW t, IsVerified(s, last, tids, sync, t), NEW slot \in Slots, NEW tid \in Tids
  PROVE  t.transitions[slot][tid].blockHash
           \in {s.transitions[slot][tid].blockHash, s.blocks[slot].metaHash}
<1>1. t.transitions = [i \in Slots |->
          IF \E id \in Proofless(s, last) : Slot(id) = i
          THEN [s.transitions[i] EXCEPT
                 ![tids[s.blocks[i].blockId]].blockHash = s.blocks[i].metaHash]
          ELSE s.transitions[i]]
  BY DEF IsVerified, Verified, StorageInv, IsStorage, Fields
<1>2. s.transitions[slot] \in [Tids -> TransitionRecord]
  BY DEF StorageInv, IsStorage
<1>3. \A x, hash : [s.transitions[slot] EXCEPT ![x].blockHash = hash][tid]
        \in {s.transitions[slot][tid], [s.transitions[slot][tid] EXCEPT !.blockHash = hash]}
  BY <1>2
<1>4. t.transitions[slot] \in {s.transitions[slot], [s.transitions[slot] EXCEPT
        ![tids[s.blocks[slot].blockId]].blockHash = s.blocks[slot].metaHash]}
  BY <1>1
<1>5. t.transitions[slot][tid] \in {s.transitions[slot][tid],
        [s.transitions[slot][tid] EXCEPT !.blockHash = s.blocks[slot].metaHash]}
  BY <1>3, <1>4
<1>6. \A ts \in TransitionRecord : \A hash : [ts EXCEPT !.blockHash = hash].blockHash = hash
  BY DEF TransitionRecord
<1>7. s.transitions[slot][tid] \in TransitionRecord
  BY <1>2
<1>. DEFINE ts == s.transitions[slot][tid]
            hash == s.blocks[slot].metaHash
            new == t.transitions[slot][tid]
<1>8. new = ts \/ new = [ts EXCEPT !.blockHash = hash]
  BY <1>5
<1>9. [ts EXCEPT !.blockHash = hash].blockHash = hash
  BY <1>6, <1>7
<1>. HIDE DEF ts, hash, new
<1>10. new.blockHash = ts.blockHash \/ new.blockHash = hash
  BY <1>8, <1>9
<1>. QED
  BY <1>10 DEF ts, hash, new

\* verifyBlocks keeps the names.
LEMMA VerifiedNames ==
  ASSUME NEW s, StorageInv(s), HistoryInv(s), NameInv(s), NEW max,
         NEW last \in s.lastVerifiedBlockId .. s.numBlocks - 1,
         NEW tids \in [s.lastVerifiedBlockId + 1 .. last -> Tids], IsRun(s, max, last, tids),
         NEW sync \in SyncPoints(s, last, tids),
         NEW t, IsVerified(s, last, tids, sync, t)
  PROVE  NameInv(t)
<1>0. RingAfter(s, last, tids, t)
  BY VerifiedFields
<1>1. /\ t.numBlocks = s.numBlocks /\ t.lastVerifiedBlockId = last
      /\ s.lastVerifiedBlockId \in Nat /\ s.numBlocks \in Nat /\ last \in Nat
      /\ 1 \in Tids
  BY <1>0, ConfigAssumption DEF RingAfter, StorageInv, IsStorage, Tids
<1>2. ASSUME NEW slot \in Slots
      PROVE  /\ t.blocks[slot].blockId = s.blocks[slot].blockId
             /\ t.blocks[slot].metaHash = s.blocks[slot].metaHash
             /\ t.blocks[slot].nextTransitionId = s.blocks[slot].nextTransitionId
             /\ t.transitions[slot][1].key = s.transitions[slot][1].key
  BY <1>0, <1>1 DEF RingAfter, KeptOfBlock, KeptOfTransition
<1>3. KeysOK(t)
  BY <1>1, <1>2 DEF NameInv, KeysOK
<1>4. NamesOK(t)
  <2>1. ASSUME NEW id \in t.lastVerifiedBlockId + 1 .. t.numBlocks - 1
        PROVE  /\ id \in s.lastVerifiedBlockId + 1 .. s.numBlocks - 1
               /\ Slot(id) \in Slots
    BY <1>1, SlotInRing
  <2>2. ASSUME NEW id \in t.lastVerifiedBlockId + 1 .. t.numBlocks - 1, NEW tid \in Tids,
               tid < t.blocks[Slot(id)].nextTransitionId
        PROVE  Of(t.transitions[Slot(id)][tid].blockHash) = id
    <3>1. tid < s.blocks[Slot(id)].nextTransitionId
      BY <1>2, <2>1, <2>2
    <3>2. /\ Of(s.blocks[Slot(id)].metaHash) = id
          /\ Of(s.transitions[Slot(id)][tid].blockHash) = id
      BY <2>1, <3>1 DEF NameInv, NamesOK
    <3>. QED
      BY <2>1, <3>2, HashesAfter
  <2>3. ASSUME NEW id \in t.lastVerifiedBlockId + 1 .. t.numBlocks - 1
        PROVE  Of(t.blocks[Slot(id)].metaHash) = id
    BY <1>2, <2>1 DEF NameInv, NamesOK
  <2>. QED
    BY <2>2, <2>3 DEF NamesOK
<1>5. EndOK(t)
  <2>1. CASE last = s.lastVerifiedBlockId
    <3>1. VerifiedHash(t) = VerifiedHash(s)
      BY <1>0, <1>1, <2>1 DEF RingAfter, VerifiedHash
    <3>. QED
      BY <1>1, <2>1, <3>1 DEF NameInv, EndOK
  <2>2. CASE last # s.lastVerifiedBlockId
    <3>1. last \in s.lastVerifiedBlockId + 1 .. last
          /\ last \in s.lastVerifiedBlockId + 1 .. s.numBlocks - 1
      BY <1>1, <2>2
    <3>2. VerifiedHash(t) = VerifiedRecord(s, last, tids[last]).blockHash
      BY <1>0, <1>1, <2>2, <3>1 DEF RingAfter, VerifiedHash
    <3>3. CASE FollowsMigrated(s, last)
      <4>1. VerifiedHash(t) = s.blocks[Slot(last)].metaHash
        BY <3>2, <3>3 DEF VerifiedRecord
      <4>2. Of(s.blocks[Slot(last)].metaHash) = last
        BY <3>1 DEF NameInv, NamesOK
      <4>. QED
        BY <1>1, <4>1, <4>2 DEF EndOK
    <3>4. CASE ~FollowsMigrated(s, last)
      <4>1. tids[last] < s.blocks[Slot(last)].nextTransitionId /\ tids[last] \in Tids
        BY <3>1, <3>4, RunTransition
      <4>2. VerifiedHash(t) = s.transitions[Slot(last)][tids[last]].blockHash
        BY <3>2, <3>4 DEF VerifiedRecord
      <4>3. Of(s.transitions[Slot(last)][tids[last]].blockHash) = last
        BY <3>1, <4>1 DEF NameInv, NamesOK
      <4>. QED
        BY <1>1, <4>2, <4>3 DEF EndOK
    <3>. QED
      BY <3>3, <3>4
  <2>. QED
    BY <2>1, <2>2
<1>. QED
  BY <1>3, <1>4, <1>5 DEF NameInv

\* So does every outcome of verifyBlocks.
LEMMA VerifyNames ==
  ASSUME NEW s, StorageInv(s), HistoryInv(s), NameInv(s), NEW max, NEW t \in VerifyOutcomes(s, max)
  PROVE  NameInv(t)
<1>1. CASE t # s
  <2>1. PICK last \in s.lastVerifiedBlockId .. s.numBlocks - 1 :
          \E tids \in [s.lastVerifiedBlockId + 1 .. last -> Tids] :
             /\ IsRun(s, max, last, tids)
             /\ \E sync \in SyncPoints(s, last, tids) : IsVerified(s, last, tids, sync, t)
    BY <1>1, VerifyOutcome
  <2>2. PICK tids \in [s.lastVerifiedBlockId + 1 .. last -> Tids] :
             /\ IsRun(s, max, last, tids)
             /\ \E sync \in SyncPoints(s, last, tids) : IsVerified(s, last, tids, sync, t)
    BY <2>1
  <2>3. PICK sync \in SyncPoints(s, last, tids) : IsVerified(s, last, tids, sync, t)
    BY <2>2
  <2>. QED
    BY <2>2, <2>3, VerifiedNames
<1>. QED
  BY <1>1

\* A new transition has no tier, and the first of a block keeps the parent it is created for.
LEMMA ProofLocalsNames ==
  ASSUME NEW s, StorageInv(s), NEW id \in s.lastVerifiedBlockId + 1 .. s.numBlocks - 1,
         NEW u, NEW parentHash, NEW blockHash, NEW stateRoot, NEW tierId, NEW flag,
         NEW p \in ProofLocals(s, u, id, parentHash, blockHash, stateRoot, tierId, flag)
  PROVE  /\ p.blockHash = blockHash
         /\ p.tid = s.blocks[Slot(id)].nextTransitionId =>
              p.ts.tier = 0 /\ (p.tid = 1 => p.ts.key = parentHash)
<1>. DEFINE slot == Slot(id)
            next == s.blocks[slot].nextTransitionId
            found == GetTransitionId(s, slot, parentHash)
            tid == IF found = 0 THEN next ELSE found
            new == NewTransition(s, id, tid, parentHash)
<1>1. /\ p.blockHash = blockHash /\ p.tid = tid
      /\ p.ts = IF found = 0 THEN new ELSE s.transitions[slot][tid]
      /\ ~UnexpectedTransitionId(s, slot, parentHash)
  BY DEF ProofLocals
<1>2. next \in Nat
  <2>1. id \in Nat
    BY DEF StorageInv, IsStorage
  <2>2. slot \in Slots /\ s.blocks[slot] \in BlockRecord
    BY <2>1, SlotInRing DEF StorageInv, IsStorage
  <2>. QED
    BY <2>2 DEF BlockRecord
<1>3. new.tier = 0 /\ (tid = 1 => new.key = parentHash)
  BY DEF NewTransition, EmptyTransition
<1>4. tid = next => found = 0
  <2>1. ~(found # 0 /\ found >= next)
    BY <1>1 DEF UnexpectedTransitionId
  <2>. HIDE DEF found, next
  <2>. QED
    BY <1>2, <2>1
<1>. HIDE DEF new, found, next, slot
<1>5. p.tid = next => p.ts = new /\ p.tid = tid
  BY <1>1, <1>4
<1>. QED
  BY <1>1, <1>3, <1>5 DEF next, slot

\* A proof leaves the key of its transition and gives it the claimed hash; a contest, of a
\* transition that was proven, leaves the hash too.
LEMMA SettledHash ==
  ASSUME NEW s, StorageInv(s), NEW p, ProofRecord(p), NEW t \in Settled(s, p)
  PROVE  LET ts == t.transitions[p.slot][p.tid]
         IN  /\ ts.key = p.ts.key
             /\ \/ ts.blockHash = p.blockHash
                \/ p.ts.tier \in Tiers /\ ts.blockHash = p.ts.blockHash
<1>1. /\ DOMAIN s = Fields /\ p.slot \in Slots /\ p.tid \in Tids /\ p.ts \in TransitionRecord
      /\ p.tierId \in Tiers
      /\ s.transitions \in [Slots -> [Tids -> TransitionRecord]]
  BY DEF StorageInv, IsStorage, ProofRecord
<1>2. ASSUME NEW ts, t.transitions = [s.transitions EXCEPT ![p.slot][p.tid] = ts]
      PROVE  t.transitions[p.slot][p.tid] = ts
  <2>1. s.transitions[p.slot] \in [Tids -> TransitionRecord]
    BY <1>1
  <2>. QED
    BY <1>1, <1>2, <2>1
<1>3. CASE t = OverrideWithHigherProof(s, p)
  <2>. DEFINE moved == Overridden(s, p)
              bond == p.tier.validityBond
              settled == IF moved.reward > bond
                         THEN CreditBond(moved.s, p.sender, moved.reward - bond)
                         ELSE DebitBond(moved.s, p.sender, bond - moved.reward)
              ts == [p.ts EXCEPT !.validityBond = bond, !.contester = NoAddr, !.prover = p.sender,
                     !.tier = p.tierId, !.timestamp = now,
                     !.blockHash = p.blockHash, !.stateRoot = p.stateRoot]
  <2>1. SameHistory(s, moved.s) /\ DOMAIN moved.s = Fields
    BY <1>1, OverriddenHistory, OverriddenInv DEF StorageInv, IsStorage
  <2>. HIDE DEF moved
  <2>2. SameHistory(moved.s, settled) /\ DOMAIN settled = Fields
    BY <2>1, CreditHistory, DebitHistory, CreditSame, DebitSame DEF SameRing
  <2>3. t.transitions = [settled.transitions EXCEPT ![p.slot][p.tid] = ts]
    BY <1>3, <2>2 DEF OverrideWithHigherProof, moved, Fields
  <2>4. settled.transitions = s.transitions
    BY <2>1, <2>2 DEF SameHistory
  <2>5. ts.key = p.ts.key /\ ts.blockHash = p.blockHash
    BY <1>1 DEF TransitionRecord
  <2>. HIDE DEF settled, ts
  <2>6. t.transitions[p.slot][p.tid] = ts
    BY <1>2, <2>3, <2>4
  <2>. QED
    BY <2>5, <2>6
<1>4. CASE t = Reproved(s, p)
  <2>. DEFINE ts == [p.ts EXCEPT !.prover = p.sender, !.timestamp = now,
                       !.blockHash = p.blockHash, !.stateRoot = p.stateRoot]
  <2>1. t.transitions = [s.transitions EXCEPT ![p.slot][p.tid] = ts]
    BY <1>1, <1>4 DEF Reproved, Fields
  <2>2. ts.key = p.ts.key /\ ts.blockHash = p.blockHash
    BY <1>1 DEF TransitionRecord
  <2>. HIDE DEF ts
  <2>3. t.transitions[p.slot][p.tid] = ts
    BY <1>2, <2>1
  <2>. QED
    BY <2>2, <2>3
<1>5. CASE CanContest(s, p) /\ t = Contested(s, p)
  <2>. DEFINE debited == DebitBond(s, p.sender, p.tier.contestBond)
              ts == [p.ts EXCEPT !.contestBond = p.tier.contestBond, !.contester = p.sender,
                       !.timestamp = now]
  <2>1. SameRing(s, debited)
    BY <1>1, DebitSame
  <2>2. debited.transitions = s.transitions /\ DOMAIN debited = Fields
    BY <2>1 DEF SameRing
  <2>3. t.transitions = [s.transitions EXCEPT ![p.slot][p.tid] = ts]
    BY <1>5, <2>2 DEF Contested, Fields
  <2>4. ts.key = p.ts.key /\ ts.blockHash = p.ts.blockHash
    BY <1>1 DEF TransitionRecord
  <2>5. p.ts.tier \in Tiers
    BY <1>1, <1>5 DEF CanContest
  <2>. HIDE DEF ts
  <2>6. t.transitions[p.slot][p.tid] = ts
    BY <1>2, <2>3
  <2>. QED
    BY <2>4, <2>5, <2>6
<1>. QED
  BY <1>3, <1>4, <1>5 DEF Settled

\* A transition written with a hash and, if it is the first, a key of its block keeps the names.
LEMMA WrittenNames ==
  ASSUME NEW s, StorageInv(s), NameInv(s), NEW t, SameProposals(s, t),
         MigratedId <= s.lastVerifiedBlockId,
         NEW id \in s.lastVerifiedBlockId + 1 .. s.numBlocks - 1, NEW tid \in Tids,
         NEW ts \in TransitionRecord, Written(s, t, id, tid, ts),
         Of(ts.blockHash) = id,
         tid = s.blocks[Slot(id)].nextTransitionId /\ tid = 1 =>
           ts.key \in Plain \/ Of(ts.key) + 1 = id
  PROVE  NameInv(t)
<1>. DEFINE slot == Slot(id)
            next == s.blocks[slot].nextTransitionId
            old == s.transitions[slot][tid]
<1>1. /\ s.lastVerifiedBlockId \in Nat /\ s.numBlocks \in Nat /\ id \in Nat
      /\ s.blocks \in [Slots -> BlockRecord]
      /\ s.transitions \in [Slots -> [Tids -> TransitionRecord]]
      /\ slot \in Slots /\ 1 \in Tids /\ MigratedId < id /\ tid \in Nat /\ next \in Nat
      /\ id \in s.lastVerifiedBlockId .. s.numBlocks - 1
      /\ s.lastVerifiedBlockId \in s.lastVerifiedBlockId .. s.numBlocks - 1
  <2>0. /\ s.lastVerifiedBlockId \in Nat /\ s.numBlocks \in Nat /\ MigratedId \in Nat
        /\ s.blocks \in [Slots -> BlockRecord]
        /\ s.transitions \in [Slots -> [Tids -> TransitionRecord]]
    BY ConfigAssumption DEF StorageInv, IsStorage
  <2>1. /\ id \in Nat /\ id > s.lastVerifiedBlockId /\ id < s.numBlocks
        /\ tid \in Nat /\ 1 \in Tids
    <3>. DEFINE low == s.lastVerifiedBlockId
                high == s.numBlocks
    <3>1. low \in Nat /\ high \in Nat /\ id \in low + 1 .. high - 1
      BY <2>0
    <3>. HIDE DEF low, high
    <3>2. id \in Nat /\ id > low /\ id < high
      BY <3>1
    <3>3. tid \in Nat /\ 1 \in Tids
      BY ConfigAssumption DEF Tids
    <3>. QED
      BY <3>2, <3>3 DEF low, high
  <2>2. slot \in Slots /\ s.blocks[slot] \in BlockRecord
    BY <2>0, <2>1, SlotInRing
  <2>3. next \in Nat
    BY <2>2 DEF BlockRecord
  <2>4. MigratedId < id
    BY <2>0, <2>1
  <2>5. /\ id \in s.lastVerifiedBlockId .. s.numBlocks - 1
        /\ s.lastVerifiedBlockId \in s.lastVerifiedBlockId .. s.numBlocks - 1
    BY <2>0, <2>1
  <2>. QED
    BY <2>0, <2>1, <2>2, <2>3, <2>4, <2>5
<1>2. /\ t.numBlocks = s.numBlocks /\ t.lastVerifiedBlockId = s.lastVerifiedBlockId
      /\ t.blocks[slot].nextTransitionId = IF tid = next THEN next + 1 ELSE next
      /\ t.transitions = [s.transitions EXCEPT ![slot][tid] = ts]
      /\ tid # next => ts.key = old.key
      /\ tid <= next
  BY DEF Written
<1>3. ASSUME NEW i \in Slots
      PROVE  /\ t.blocks[i].metaHash = s.blocks[i].metaHash
             /\ t.blocks[i].verifiedTransitionId = s.blocks[i].verifiedTransitionId
             /\ t.blocks[i].blockId = s.blocks[i].blockId
             /\ i # slot => t.blocks[i].nextTransitionId = s.blocks[i].nextTransitionId
             /\ i # slot => t.transitions[i] = s.transitions[i]
  BY <1>1, <1>2 DEF Written, SameProposals
<1>4. /\ t.transitions[slot][tid] = ts
      /\ \A x \in Tids \ {tid} : t.transitions[slot][x] = s.transitions[slot][x]
  <2>1. s.transitions[slot] \in [Tids -> TransitionRecord]
    BY <1>1
  <2>. HIDE DEF slot
  <2>. QED
    BY <1>1, <1>2, <2>1
<1>5. s.blocks[slot].blockId = id
  BY <1>1 DEF StorageInv, RingOK
<1>. HIDE DEF slot
<1>6. KeysOK(t)
  <2>1. ASSUME NEW i \in Slots
        PROVE  /\ t.blocks[i].blockId < t.numBlocks
               /\ \/ t.transitions[i][1].key \in Plain
                  \/ KeyFits(t.transitions[i][1].key, i, t.blocks[i].blockId,
                             t.blocks[i].nextTransitionId)
    <3>1. /\ s.blocks[i].blockId < s.numBlocks
          /\ \/ s.transitions[i][1].key \in Plain
             \/ KeyFits(s.transitions[i][1].key, i, s.blocks[i].blockId,
                        s.blocks[i].nextTransitionId)
      BY DEF NameInv, KeysOK
    <3>2. CASE i # slot
      BY <1>2, <1>3, <3>1, <3>2
    <3>3. CASE i = slot /\ tid = next /\ tid = 1
      <4>1. t.transitions[i][1].key = ts.key /\ t.blocks[i].nextTransitionId # 1
            /\ t.blocks[i].blockId = id
        BY <1>1, <1>2, <1>3, <1>4, <1>5, <3>3
      <4>2. ts.key \in Plain \/ Of(ts.key) + 1 = id
        BY <3>3 DEF slot
      <4>3. Of(ts.key) + 1 = id => KeyFits(ts.key, i, id, t.blocks[i].nextTransitionId)
        BY <1>1, <3>3, <4>1 DEF KeyFits, slot
      <4>4. t.blocks[i].blockId < t.numBlocks
        BY <1>2, <1>3, <3>1
      <4>. QED
        BY <4>1, <4>2, <4>3, <4>4
    <3>4. CASE i = slot /\ ~(tid = next /\ tid = 1)
      <4>1. t.transitions[i][1].key = s.transitions[i][1].key
        <5>1. CASE tid = 1
          <6>1. tid # next
            BY <3>4, <5>1
          <6>. QED
            BY <1>2, <1>4, <3>4, <5>1, <6>1
        <5>2. CASE tid # 1
          BY <1>1, <1>4, <3>4, <5>2
        <5>. QED
          BY <5>1, <5>2
      <4>2. t.blocks[i].nextTransitionId = 1 => s.blocks[i].nextTransitionId = 1
        <5>. SUFFICES ASSUME t.blocks[slot].nextTransitionId = 1 PROVE next = 1
          BY <3>4
        <5>1. tid # next
          <6>. SUFFICES ASSUME tid = next PROVE FALSE
            OBVIOUS
          <6>1. next + 1 = 1
            BY <1>2
          <6>2. tid # 0
            BY DEF Tids
          <6>. HIDE DEF next
          <6>. QED
            BY <1>1, <6>1, <6>2
        <5>. QED
          BY <1>2, <5>1
      <4>3. t.blocks[i].blockId = s.blocks[i].blockId /\ t.blocks[i].blockId < t.numBlocks
        BY <1>2, <1>3, <3>1
      <4>4. ASSUME KeyFits(s.transitions[i][1].key, i, s.blocks[i].blockId,
                           s.blocks[i].nextTransitionId)
            PROVE  KeyFits(t.transitions[i][1].key, i, t.blocks[i].blockId,
                           t.blocks[i].nextTransitionId)
        BY <4>1, <4>2, <4>3, <4>4 DEF KeyFits
      <4>. QED
        BY <3>1, <4>1, <4>3, <4>4
    <3>. QED
      BY <3>2, <3>3, <3>4
  <2>. QED
    BY <2>1 DEF KeysOK
<1>7. NamesOK(t)
  <2>1. ASSUME NEW k \in s.lastVerifiedBlockId + 1 .. s.numBlocks - 1
        PROVE  /\ Of(t.blocks[Slot(k)].metaHash) = k
               /\ \A x \in Tids : x < t.blocks[Slot(k)].nextTransitionId =>
                    Of(t.transitions[Slot(k)][x].blockHash) = k
    <3>1. /\ k \in s.lastVerifiedBlockId .. s.numBlocks - 1 /\ Slot(k) \in Slots
      BY <1>1, SlotInRing
    <3>2. /\ Of(s.blocks[Slot(k)].metaHash) = k
          /\ \A x \in Tids : x < s.blocks[Slot(k)].nextTransitionId =>
               Of(s.transitions[Slot(k)][x].blockHash) = k
      BY DEF NameInv, NamesOK
    <3>3. Of(t.blocks[Slot(k)].metaHash) = k
      BY <1>3, <3>1, <3>2
    <3>4. CASE k # id
      <4>1. Slot(k) # slot
        BY <1>1, <3>1, <3>4, RingSlots DEF slot
      <4>. QED
        BY <1>3, <3>1, <3>2, <3>3, <4>1
    <3>5. CASE k = id
      <4>1. ASSUME NEW x \in Tids, x < t.blocks[slot].nextTransitionId
            PROVE  Of(t.transitions[slot][x].blockHash) = k
        <5>1. CASE x = tid
          BY <1>4, <3>5, <5>1
        <5>2. CASE x # tid
          <6>1. x \in Nat
            BY DEF Tids
          <6>2. x < next
            <7>. HIDE DEF next
            <7>. QED
              BY <1>1, <1>2, <4>1, <5>2, <6>1
          <6>3. Of(s.transitions[slot][x].blockHash) = k
            BY <3>2, <3>5, <6>2 DEF slot
          <6>. QED
            BY <1>4, <5>2, <6>3
        <5>. QED
          BY <5>1, <5>2
      <4>. QED
        BY <3>3, <3>5, <4>1 DEF slot
    <3>. QED
      BY <3>4, <3>5
  <2>. QED
    BY <1>2, <2>1 DEF NamesOK
<1>8. EndOK(t)
  <2>1. Slot(s.lastVerifiedBlockId) # slot /\ Slot(s.lastVerifiedBlockId) \in Slots
    <3>1. id # s.lastVerifiedBlockId
      BY <1>1
    <3>. QED
      BY <1>1, <3>1, RingSlots DEF slot
  <2>2. VerifiedHash(t) = VerifiedHash(s)
    BY <1>2, <1>3, <2>1 DEF VerifiedHash
  <2>. QED
    BY <1>2, <2>2 DEF NameInv, EndOK
<1>. QED
  BY <1>6, <1>7, <1>8 DEF NameInv

\* No key of the first storage names a block.
LEMMA InitStateNames == NameInv(InitState)
<1>. DEFINE t == InitState
<1>1. Slot(0) = 0 /\ 0 \in Slots /\ 1 \in Tids
  BY ConfigAssumption DEF Slot, Slots, Tids
<1>2. /\ t.numBlocks = 1 /\ t.lastVerifiedBlockId = 0
      /\ t.blocks = [slot \in Slots |-> IF slot = 0 THEN GenesisBlock ELSE EmptyBlock]
      /\ t.transitions = [slot \in Slots |-> [tid \in Tids |->
            IF slot = 0 /\ tid = 1 THEN GenesisTransition ELSE EmptyTransition]]
  BY DEF InitState
<1>3. /\ GenesisBlock.blockId = 0 /\ EmptyBlock.blockId = 0
      /\ GenesisBlock.verifiedTransitionId = 1
      /\ GenesisTransition.key = ZeroHash /\ EmptyTransition.key = ZeroHash
      /\ GenesisTransition.blockHash = BlockHash(0, 0)
  BY DEF GenesisBlock, EmptyBlock, GenesisTransition, EmptyTransition
<1>. HIDE DEF t
<1>4. KeysOK(t)
  <2>1. ASSUME NEW slot \in Slots
        PROVE  t.blocks[slot].blockId < t.numBlocks /\ t.transitions[slot][1].key \in Plain
    <3>1. t.blocks[slot].blockId = 0
      BY <1>2, <1>3
    <3>2. t.transitions[slot][1].key = ZeroHash
      BY <1>1, <1>2, <1>3
    <3>. QED
      BY <1>2, <3>1, <3>2 DEF Plain
  <2>. QED
    BY <2>1 DEF KeysOK
<1>5. NamesOK(t)
  BY <1>2 DEF NamesOK
<1>6. EndOK(t)
  <2>1. VerifiedHash(t) = BlockHash(0, 0)
    <3>1. t.blocks[0].verifiedTransitionId = 1 /\ t.transitions[0][1] = GenesisTransition
      BY <1>1, <1>2, <1>3
    <3>. QED
      BY <1>1, <1>2, <1>3, <3>1 DEF VerifiedHash
  <2>. QED
    BY <1>2, <2>1, HashNames DEF EndOK
<1>. QED
  BY <1>4, <1>5, <1>6 DEF NameInv, t

\* Nor does one of the storage that doMigrate leaves.
LEMMA MigratedStateNames == NameInv(MigratedState)
<1>. DEFINE t == MigratedState
            slot == Slot(MigratedId)
            b0 == InitState.blocks[slot]
            blk == [b0 EXCEPT !.metaHash = OneHash, !.blockId = MigratedId,
                              !.proposedIn = MigratedId, !.verifiedTransitionId = 1,
                              !.nextTransitionId = 2]
            ts == [InitState.transitions[slot][1] EXCEPT !.blockHash = OneHash, !.stateRoot = 1]
<1>1. MigratedId \in Nat /\ slot \in Slots /\ 1 \in Tids
  BY SlotInRing, ConfigAssumption DEF Tids
<1>2. IsStorage(InitState) /\ KeysOK(InitState) /\ InitState.numBlocks = 1
  BY InitStateInv, InitStateNames DEF StorageInv, NameInv, InitState
<1>3. b0 \in BlockRecord /\ InitState.transitions[slot][1] \in TransitionRecord
      /\ InitState.transitions \in [Slots -> [Tids -> TransitionRecord]]
      /\ InitState.transitions[slot] \in [Tids -> TransitionRecord]
      /\ InitState.blocks \in [Slots -> BlockRecord]
  BY <1>1, <1>2 DEF IsStorage
<1>4. blk.blockId = MigratedId /\ blk.verifiedTransitionId = 1
  <2>. HIDE DEF b0
  <2>. QED
    BY <1>3 DEF BlockRecord
<1>5. ts.key = InitState.transitions[slot][1].key /\ ts.blockHash = OneHash
  BY <1>3 DEF TransitionRecord
<1>6. /\ t.numBlocks = MigratedId + 1 /\ t.lastVerifiedBlockId = MigratedId
      /\ t.blocks = [InitState.blocks EXCEPT ![slot] = blk]
      /\ t.transitions = [InitState.transitions EXCEPT ![slot][1] = ts]
  BY <1>2 DEF MigratedState, IsStorage, Fields
<1>7. \A i \in Slots : InitState.transitions[i][1].key = ZeroHash /\ InitState.blocks[i].blockId = 0
  BY <1>1 DEF InitState, GenesisTransition, EmptyTransition, GenesisBlock, EmptyBlock
<1>. HIDE DEF t, blk, ts, slot
<1>8. KeysOK(t)
  <2>1. ASSUME NEW i \in Slots
        PROVE  t.blocks[i].blockId < t.numBlocks /\ t.transitions[i][1].key \in Plain
    <3>1. t.blocks[i].blockId \in {0, MigratedId}
      BY <1>1, <1>3, <1>4, <1>6, <1>7
    <3>2. t.transitions[i][1].key = ZeroHash
      <4>1. CASE i = slot
        <5>1. t.transitions[i][1] = ts
          BY <1>1, <1>3, <1>6, <4>1
        <5>. QED
          BY <1>1, <1>5, <1>7, <5>1
      <4>2. CASE i # slot
        BY <1>3, <1>6, <1>7, <4>2
      <4>. QED
        BY <4>1, <4>2
    <3>. QED
      BY <1>1, <1>6, <3>1, <3>2 DEF Plain
  <2>. QED
    BY <2>1 DEF KeysOK
<1>9. NamesOK(t)
  BY <1>1, <1>6 DEF NamesOK
<1>10. EndOK(t)
  <2>1. t.blocks[slot] = blk /\ t.transitions[slot][1] = ts
    BY <1>1, <1>3, <1>6
  <2>2. VerifiedHash(t) = OneHash
    BY <1>4, <1>5, <1>6, <2>1 DEF VerifiedHash, slot
  <2>. QED
    BY <2>2 DEF EndOK, Plain
<1>. QED
  BY <1>8, <1>9, <1>10 DEF NameInv, t

\* A storage in which verification finds its way.
Named(s) == StorageInv(s) /\ HistoryInv(s) /\ NameInv(s)

\* The verification at the end of a transaction keeps it so.
LEMMA NamedVerification ==
  ASSUME NEW s, Named(s), NEW id, NEW isProposed, NEW t \in AfterVerification(s, id, isProposed)
  PROVE  Named(t)
<1>1. StorageInv(t) /\ HistoryInv(t)
  BY AfterVerificationInv, AfterVerificationHistory DEF Named
<1>2. NameInv(t)
  BY VerifyNames DEF AfterVerification, Named
<1>. QED
  BY <1>1, <1>2 DEF Named

\* So does _proposeBlock.
LEMMA NamedProposal ==
  ASSUME NEW s, Named(s), ClockTypeOK, NEW u \in Accounts, NEW minTier \in Tiers,
         NEW anchorBlockId \in Int, NEW timestamp \in Int,
         NEW t \in Proposed(s, u, anchorBlockId, timestamp, minTier)
  PROVE  Named(t)
<1>1. StorageInv(t) /\ HistoryInv(t)
  BY ProposedInv, ProposedHistory DEF Named
<1>2. NameInv(t)
  BY ProposedNames DEF Named
<1>. QED
  BY <1>1, <1>2 DEF Named

\* The first state is named, with the block that the migration proposes.
LEMMA InitNames == Init => NameInv(state)
<1>. SUFFICES ASSUME Init PROVE NameInv(state)
  OBVIOUS
<1>0. ClockTypeOK /\ now = 0
  BY DomainAssumption DEF Init, ClockTypeOK
<1>1. CASE MigratedId = 0
  BY <1>1, InitStateNames DEF Init
<1>2. CASE MigratedId # 0
  <2>0. InitMigrate
    BY <1>2 DEF Init
  <2>1. PICK u \in Users, minTier \in MinTiers :
          \E s \in Proposed(MigratedState, u, BlockNumber - 1, now, minTier) :
            state \in AfterVerification(s, MigratedId + 1, FALSE)
    BY <2>0 DEF InitMigrate
  <2>2. PICK s \in Proposed(MigratedState, u, BlockNumber - 1, now, minTier) :
            state \in AfterVerification(s, MigratedId + 1, FALSE)
    BY <2>1
  <2>3. u \in Accounts /\ minTier \in Tiers /\ BlockNumber - 1 \in Int /\ now \in Int
    BY <1>0, DomainAssumption, ConfigAssumption DEF Accounts, BlockNumber
  <2>4. Named(MigratedState)
    BY MigratedStateInv, MigratedStateHistory, MigratedStateNames DEF Named
  <2>5. Named(s)
    BY <1>0, <2>2, <2>3, <2>4, NamedProposal
  <2>. QED
    BY <2>2, <2>5, NamedVerification DEF Named
<1>. QED
  BY <1>1, <1>2

\* A proposing transaction keeps the names.
LEMMA ProposeNames ==
  ASSUME IInv, Named(state), NEW u \in Users, NEW minTier \in MinTiers,
         ProposeBlock(u, minTier) \/ ProposeBlockV2(u, minTier) \/ ProposeBlocksV2(u, minTier)
  PROVE  NameInv(state')
<1>1. /\ u \in Accounts /\ minTier \in Tiers /\ BlockNumber - 1 \in Int /\ now \in Int
      /\ ClockTypeOK
  BY DomainAssumption, ConfigAssumption DEF Accounts, IInv, ClockTypeOK, BlockNumber
<1>2. ASSUME NEW s, Named(s), NEW anchorBlockId \in Int, NEW timestamp \in Int,
             NEW t \in Proposed(s, u, anchorBlockId, timestamp, minTier)
      PROVE  Named(t)
  BY <1>1, <1>2, NamedProposal
<1>3. CASE ProposeBlock(u, minTier)
  <2>1. PICK s \in Proposed(state, u, BlockNumber - 1, now, minTier) :
          state' \in AfterVerification(s, state.numBlocks, FALSE)
    BY <1>3 DEF ProposeBlock
  <2>2. Named(s)
    BY <1>1, <1>2, <2>1
  <2>. QED
    BY <2>1, <2>2, NamedVerification DEF Named
<1>4. CASE ProposeBlockV2(u, minTier)
  <2>1. PICK anchorBlockId \in Anchors, timestamp \in Timestamps :
          \E s \in Proposed(state, u, anchorBlockId, timestamp, minTier) :
            state' \in AfterVerification(s, state.numBlocks, FALSE)
    BY <1>4 DEF ProposeBlockV2
  <2>2. anchorBlockId \in Int /\ timestamp \in Int
    BY <1>1, ConfigAssumption DEF Anchors, Timestamps
  <2>3. PICK s \in Proposed(state, u, anchorBlockId, timestamp, minTier) :
          state' \in AfterVerification(s, state.numBlocks, FALSE)
    BY <2>1
  <2>4. Named(s)
    BY <1>2, <2>2, <2>3
  <2>. QED
    BY <2>3, <2>4, NamedVerification DEF Named
<1>5. CASE ProposeBlocksV2(u, minTier)
  <2>1. PICK first \in Proposed(state, u, BlockNumber - 1, now, minTier) :
          \E second \in Proposed(first, u, BlockNumber - 1, now, minTier) :
            \E s \in AfterVerification(second, state.numBlocks, FALSE) :
              state' \in AfterVerification(s, state.numBlocks + 1, FALSE)
    BY <1>5 DEF ProposeBlocksV2
  <2>2. PICK second \in Proposed(first, u, BlockNumber - 1, now, minTier) :
          \E s \in AfterVerification(second, state.numBlocks, FALSE) :
            state' \in AfterVerification(s, state.numBlocks + 1, FALSE)
    BY <2>1
  <2>3. PICK s \in AfterVerification(second, state.numBlocks, FALSE) :
            state' \in AfterVerification(s, state.numBlocks + 1, FALSE)
    BY <2>2
  <2>4. Named(first)
    BY <1>1, <1>2, <2>1
  <2>5. Named(second)
    BY <1>1, <1>2, <2>2, <2>4
  <2>6. Named(s)
    BY <2>3, <2>5, NamedVerification
  <2>. QED
    BY <2>3, <2>6, NamedVerification DEF Named
<1>. QED
  BY <1>3, <1>4, <1>5

\* The parents that a prover may name.
LEMMA ParentNames ==
  ASSUME NEW id \in Nat \ {0}, NEW parentHash \in ParentHashes(id)
  PROVE  parentHash \in Plain \/ Of(parentHash) + 1 = id
<1>1. id - 1 \in Nat
  OBVIOUS
<1>2. parentHash \in Plain \/ Of(parentHash) = id - 1
  BY <1>1, HashNames DEF ParentHashes, Plain
<1>. QED
  BY <1>2

\* A proving transaction keeps the names.
LEMMA ProveNames ==
  ASSUME IInv, Named(state), NEW u \in Accounts, NEW id \in Provable,
         NEW parentHash \in ParentHashes(id), parentHash \in Hash,
         NEW blockHash \in Hash, Of(blockHash) = id,
         NEW stateRoot \in Nat, NEW tierId \in Tiers, NEW flag,
         ProveBlock(u, id, parentHash, blockHash, stateRoot, tierId, flag)
  PROVE  NameInv(state')
<1>0. /\ StorageInv(state) /\ HistoryInv(state) /\ NameInv(state) /\ ClockTypeOK
      /\ id \in state.lastVerifiedBlockId + 1 .. state.numBlocks - 1
      /\ MigratedId <= state.lastVerifiedBlockId
  BY DEF IInv, Named, Provable, HistoryInv, ChainOK
<1>1. PICK p \in ProofLocals(state, u, id, parentHash, blockHash, stateRoot, tierId, flag) :
        \E s \in Settled(p.fetched, p) : state' \in AfterVerification(s, id, TRUE)
  BY DEF ProveBlock
<1>. DEFINE next == state.blocks[Slot(id)].nextTransitionId
<1>2. /\ ProofRecord(p) /\ StorageInv(p.fetched) /\ Fetched(state, id, p)
      /\ SameProposals(state, p.fetched)
  BY <1>0, <1>1, ProofLocalsInv, ProofLocalsFetched, FetchedProposals
<1>3. /\ p.blockHash = blockHash
      /\ p.tid = next => p.ts.tier = 0 /\ (p.tid = 1 => p.ts.key = parentHash)
  BY <1>0, <1>1, ProofLocalsNames
<1>4. PICK s \in Settled(p.fetched, p) : state' \in AfterVerification(s, id, TRUE)
  BY <1>1
<1>5. StorageInv(s) /\ SameProposals(state, s)
  BY <1>0, <1>2, <1>4, SettledInv, SettledProposals, SameProposalsTwice
<1>6. id \in Nat \ {0} /\ p.tid \in Tids /\ p.slot = Slot(id) /\ Slot(id) \in Slots /\ p.tid <= next
  <2>. DEFINE low == state.lastVerifiedBlockId
              high == state.numBlocks
  <2>1. low \in Nat /\ high \in Nat /\ id \in low + 1 .. high - 1
    BY <1>0 DEF StorageInv, IsStorage
  <2>. HIDE DEF low, high
  <2>2. id \in Nat \ {0}
    BY <2>1
  <2>. QED
    BY <1>2, <2>2, SlotInRing DEF ProofRecord, Fetched
<1>7. PICK ts \in TransitionRecord : Written(state, s, id, p.tid, ts)
  BY <1>0, <1>2, <1>4, <1>6, SettledWritten
<1>8. HistoryInv(s)
  BY <1>0, <1>6, <1>7, WrittenInv
<1>9. s.transitions[Slot(id)][p.tid] = ts
  <2>1. /\ state.transitions \in [Slots -> [Tids -> TransitionRecord]]
        /\ state.transitions[Slot(id)] \in [Tids -> TransitionRecord]
    BY <1>0, <1>6 DEF StorageInv, IsStorage
  <2>2. s.transitions = [state.transitions EXCEPT ![Slot(id)][p.tid] = ts]
    BY <1>7 DEF Written
  <2>. QED
    BY <1>6, <2>1, <2>2
<1>10. /\ ts.key = p.ts.key
       /\ ts.blockHash = blockHash \/ (p.ts.tier \in Tiers /\ ts.blockHash = p.ts.blockHash)
  BY <1>2, <1>3, <1>4, <1>6, <1>9, SettledHash
<1>11. Of(ts.blockHash) = id
  <2>1. CASE ts.blockHash = blockHash
    BY <2>1
  <2>2. CASE p.ts.tier \in Tiers /\ ts.blockHash = p.ts.blockHash
    <3>1. p.tid # next
      BY <1>3, <2>2, DomainAssumption
    <3>2. p.ts = state.transitions[Slot(id)][p.tid] /\ p.tid < next
      <4>1. p.ts = state.transitions[Slot(id)][p.tid]
        BY <1>2, <3>1 DEF Fetched
      <4>2. p.tid \in Nat /\ next \in Nat
        <5>1. state.blocks[Slot(id)] \in BlockRecord
          BY <1>0, <1>6 DEF StorageInv, IsStorage
        <5>. QED
          BY <1>6, <5>1 DEF BlockRecord, Tids
      <4>. HIDE DEF next
      <4>. QED
        BY <1>6, <3>1, <4>1, <4>2
    <3>. QED
      BY <1>0, <1>6, <2>2, <3>2 DEF NameInv, NamesOK
  <2>. QED
    BY <1>10, <2>1, <2>2
<1>12. p.tid = next /\ p.tid = 1 => ts.key \in Plain \/ Of(ts.key) + 1 = id
  BY <1>3, <1>6, <1>10, ParentNames
<1>13. NameInv(s)
  BY <1>0, <1>5, <1>6, <1>7, <1>11, <1>12, WrittenNames
<1>14. Named(s)
  BY <1>5, <1>8, <1>13 DEF Named
<1>. QED
  BY <1>4, <1>14, NamedVerification DEF Named

\* Every transaction keeps the names.
LEMMA NextNames ==
  ASSUME IInv, HInv, NameInv(state), [Next]_vars
  PROVE  NameInv(state')
<1>0. Named(state) /\ StorageInv(state) /\ HistoryInv(state) /\ DOMAIN state = Fields
  BY DEF IInv, HInv, Named, StorageInv, IsStorage
<1>1. CASE Propose
  BY <1>0, <1>1, ProposeNames DEF Propose
<1>2. CASE Prove
  <2>1. PICK id \in Provable, tierId \in Tiers :
          \E u \in ProversOf(tierId), flag \in ReturnFlags(tierId),
             parentHash \in ParentHashes(id), v \in Variants, stateRoot \in ClaimedRoots(id) :
            ProveBlock(u, id, parentHash, BlockHash(id, v), stateRoot, tierId, flag)
    BY <1>2 DEF Prove
  <2>2. PICK u \in ProversOf(tierId), flag \in ReturnFlags(tierId),
             parentHash \in ParentHashes(id), v \in Variants, stateRoot \in ClaimedRoots(id) :
          ProveBlock(u, id, parentHash, BlockHash(id, v), stateRoot, tierId, flag)
    BY <2>1
  <2>3. u \in Accounts
    BY DEF ProversOf, Accounts
  <2>4. parentHash \in Hash /\ BlockHash(id, v) \in Hash /\ stateRoot \in Nat
    BY ProofInputs
  <2>5. id \in Nat
    BY <1>0 DEF StorageInv, IsStorage, Provable
  <2>6. Of(BlockHash(id, v)) = id
    BY <2>5, HashNames
  <2>. QED
    BY <1>0, <2>2, <2>3, <2>4, <2>6, ProveNames
<1>3. CASE \E max \in 0 .. MaxBlockId : VerifyBlocks(max)
  BY <1>0, <1>3, VerifyNames DEF VerifyBlocks, Named
<1>4. CASE \/ \E pause \in BOOLEAN : PauseProving(pause)
           \/ Unpause
           \/ \E u \in Users, amount \in BondAmounts : DepositBond(u, amount) \/ WithdrawBond(u, amount)
           \/ Pause \/ Tick \/ UNCHANGED vars
  <2>1. /\ state'.numBlocks = state.numBlocks /\ state'.blocks = state.blocks
        /\ state'.lastVerifiedBlockId = state.lastVerifiedBlockId
        /\ state'.transitions = state.transitions
    BY <1>0, <1>4 DEF PauseProving, Unpause, DepositBond, WithdrawBond, Pause, Tick, vars, Fields
  <2>2. SameNames(state, state')
    BY <2>1 DEF SameNames
  <2>. QED
    BY <1>0, <2>2, SameNamesInv DEF Named
<1>. QED
  BY <1>1, <1>2, <1>3, <1>4 DEF Next

---------------------------------------------------------------------------
(* Verification finds a run. *)

\* The blocks before `id` that a run verifies by a proof.
Proven(s, id) == {i \in s.lastVerifiedBlockId + 1 .. id - 1 : ~FollowsMigrated(s, i)}

\* A set of numbers in an interval has a greatest element.
LEMMA GreatestInRange ==
  ASSUME NEW a \in Int, NEW b \in Int, NEW S \in SUBSET (a .. b), S # {}
  PROVE  \E m \in S : \A x \in S : x <= m
<1>1. IsFiniteSet(a .. b)
  BY FS_Interval
<1>2. IsFiniteSet(S)
  BY <1>1, FS_Subset
<1>3. S \subseteq Int
  OBVIOUS
<1>. QED
  BY <1>2, <1>3, GreatestExists

\* The last proven block before `id`, whose hash the loop trusts.
LEMMA TrustedDef ==
  ASSUME NEW s, StorageInv(s), NEW id \in Nat, NEW tids, id # OntakeForkHeight + 2
  PROVE  \/ Proven(s, id) = {} /\ TrustedHash(s, tids, id) = VerifiedHash(s)
         \/ \E i \in Proven(s, id) :
              /\ \A j \in Proven(s, id) : j <= i
              /\ TrustedHash(s, tids, id) = s.transitions[Slot(i)][tids[i]].blockHash
<1>. DEFINE proven == Proven(s, id)
            greatest == CHOOSE i \in proven : \A j \in proven : j <= i
<1>1. CASE proven = {}
  BY <1>1 DEF TrustedHash, Proven
<1>2. CASE proven # {}
  <2>1. proven \in SUBSET (s.lastVerifiedBlockId + 1 .. id - 1)
    BY DEF Proven
  <2>2. s.lastVerifiedBlockId + 1 \in Int /\ id - 1 \in Int
    BY DEF StorageInv, IsStorage
  <2>3. \E i \in proven : \A j \in proven : j <= i
    BY <1>2, <2>1, <2>2, GreatestInRange
  <2>4. greatest \in proven /\ \A j \in proven : j <= greatest
    BY <2>3
  <2>5. TrustedHash(s, tids, id) = s.transitions[Slot(greatest)][tids[greatest]].blockHash
    BY <1>2 DEF TrustedHash, Proven
  <2>. HIDE DEF greatest
  <2>. QED
    BY <2>4, <2>5
<1>. QED
  BY <1>1, <1>2

\* The hash the loop trusts depends on the iterations before only.
LEMMA TrustedPrefix ==
  ASSUME NEW s, StorageInv(s), NEW id \in Nat, NEW tids, NEW more,
         \A i \in s.lastVerifiedBlockId + 1 .. id - 1 : more[i] = tids[i]
  PROVE  TrustedHash(s, more, id) = TrustedHash(s, tids, id)
<1>1. CASE id = OntakeForkHeight + 2
  BY <1>1 DEF TrustedHash
<1>2. CASE id # OntakeForkHeight + 2
  <2>1. Proven(s, id) \subseteq s.lastVerifiedBlockId + 1 .. id - 1
    BY DEF Proven
  <2>2. \A i \in Proven(s, id) : i \in Int
    BY <2>1
  <2>3. CASE Proven(s, id) = {}
    BY <1>2, <2>3, TrustedDef
  <2>4. CASE Proven(s, id) # {}
    <3>1. PICK i \in Proven(s, id) :
            /\ \A j \in Proven(s, id) : j <= i
            /\ TrustedHash(s, tids, id) = s.transitions[Slot(i)][tids[i]].blockHash
      BY <1>2, <2>4, TrustedDef
    <3>2. PICK k \in Proven(s, id) :
            /\ \A j \in Proven(s, id) : j <= k
            /\ TrustedHash(s, more, id) = s.transitions[Slot(k)][more[k]].blockHash
      BY <1>2, <2>4, TrustedDef
    <3>3. i = k
      <4>1. i <= k /\ k <= i /\ i \in Int /\ k \in Int
        BY <2>2, <3>1, <3>2
      <4>. QED
        BY <4>1
    <3>. QED
      BY <2>1, <3>1, <3>2, <3>3
  <2>. QED
    BY <2>3, <2>4
<1>. QED
  BY <1>1, <1>2

\* The hash that the loop trusts is of the block before or, over the block after the migrated
\* one, of the block before that.
LEMMA TrustedName ==
  ASSUME NEW s, StorageInv(s), HistoryInv(s), NameInv(s), NEW max,
         NEW last \in s.lastVerifiedBlockId .. s.numBlocks - 1,
         NEW tids \in [s.lastVerifiedBlockId + 1 .. last -> Tids], IsRun(s, max, last, tids),
         last + 1 # OntakeForkHeight + 2
  PROVE  LET hash == TrustedHash(s, tids, last + 1)
         IN  \/ hash \in Plain
             \/ Of(hash) = last
             \/ Of(hash) = last - 1 /\ last - 1 >= s.lastVerifiedBlockId
<1>. DEFINE hash == TrustedHash(s, tids, last + 1)
            low == s.lastVerifiedBlockId
            high == s.numBlocks
            proven == Proven(s, last + 1)
<1>1. /\ low \in Nat /\ high \in Nat /\ last \in Nat /\ low <= last /\ last < high
      /\ MigratedId \in Nat /\ MigratedId <= low
  BY ConfigAssumption DEF StorageInv, IsStorage, HistoryInv, ChainOK
<1>2. proven = {i \in low + 1 .. last : ~FollowsMigrated(s, i)}
  <2>1. (last + 1) - 1 = last
    BY <1>1
  <2>. QED
    BY <2>1 DEF Proven
<1>3. ASSUME NEW i \in low + 1 .. last, i \notin proven
      PROVE  i = MigratedId + 1
  <2>1. FollowsMigrated(s, i)
    BY <1>2, <1>3
  <2>2. i \in low + 1 .. high - 1
    <3>. HIDE DEF low, high
    <3>. QED
      BY <1>1
  <2>. QED
    BY <2>1, <2>2, OnlyOneFollows
<1>4. CASE proven = {}
  <2>1. hash = VerifiedHash(s)
    BY <1>1, <1>4, TrustedDef
  <2>2. hash \in Plain \/ Of(hash) = low
    BY <2>1 DEF NameInv, EndOK
  <2>3. \A i \in low + 1 .. last : i = MigratedId + 1
    BY <1>3, <1>4
  <2>. HIDE DEF low, high, hash
  <2>4. last = low \/ last = low + 1
    <3>. SUFFICES ASSUME last > low + 1 PROVE FALSE
      BY <1>1
    <3>1. low + 1 = MigratedId + 1 /\ low + 2 = MigratedId + 1
      BY <1>1, <2>3
    <3>. QED
      BY <1>1, <3>1
  <2>5. \/ hash \in Plain
        \/ Of(hash) = last
        \/ Of(hash) = last - 1 /\ last - 1 >= low
    BY <1>1, <2>2, <2>4
  <2>. QED
    BY <2>5 DEF low, hash
<1>5. CASE proven # {}
  <2>1. PICK i \in proven :
          /\ \A j \in proven : j <= i
          /\ hash = s.transitions[Slot(i)][tids[i]].blockHash
    BY <1>1, <1>5, TrustedDef
  <2>2. i \in low + 1 .. last /\ ~FollowsMigrated(s, i)
    BY <1>2
  <2>3. tids[i] < s.blocks[Slot(i)].nextTransitionId /\ tids[i] \in Tids
    BY <2>2, RunTransition
  <2>4. i \in low + 1 .. high - 1
    <3>. HIDE DEF low, high
    <3>. QED
      BY <1>1, <2>2
  <2>5. Of(hash) = i
    BY <2>1, <2>3, <2>4 DEF NameInv, NamesOK
  <2>6. i = last
    <3>. SUFFICES ASSUME i # last PROVE FALSE
      OBVIOUS
    <3>. HIDE DEF low, high, proven, hash
    <3>1. i + 1 \in low + 1 .. last /\ ~(i + 1 <= i)
      BY <1>1, <2>2
    <3>2. i + 1 \notin proven
      BY <2>1, <3>1
    <3>3. i + 1 = MigratedId + 1
      BY <1>3, <3>1, <3>2
    <3>. QED
      BY <1>1, <2>2, <3>3
  <2>. QED
    BY <2>5, <2>6
<1>. QED
  BY <1>4, <1>5

\* The iteration after a run does not revert: the key that a slot still has is never the
\* hash that the loop trusts, unless a transition of the block has it.
LEMMA NextIteration ==
  ASSUME OntakeForkHeight + 2 <= MigratedId + BlockRingBufferSize,
         NEW s, StorageInv(s), HistoryInv(s), NameInv(s), NEW max,
         NEW last \in s.lastVerifiedBlockId .. s.numBlocks - 1,
         NEW tids \in [s.lastVerifiedBlockId + 1 .. last -> Tids], IsRun(s, max, last, tids),
         last + 1 < s.numBlocks
  PROVE  ~IterationReverts(s, tids, last + 1)
<1>. DEFINE id == last + 1
            slot == Slot(id)
            hash == TrustedHash(s, tids, id)
            key == s.transitions[slot][1].key
            next == s.blocks[slot].nextTransitionId
            tid == GetTransitionId(s, slot, hash)
            low == s.lastVerifiedBlockId
            high == s.numBlocks
<1>1. /\ low \in Nat /\ high \in Nat /\ last \in Nat /\ low <= last /\ id < high
      /\ MigratedId \in Nat /\ MigratedId <= low /\ BlockRingBufferSize \in Nat
      /\ BlockRingBufferSize > 1 /\ OntakeForkHeight \in Nat
  BY ConfigAssumption DEF StorageInv, IsStorage, HistoryInv, ChainOK
<1>2. id \in low .. high - 1 /\ id \in low + 1 .. high - 1 /\ id \in Nat /\ id > low
  <2>. HIDE DEF low, high
  <2>. QED
    BY <1>1
<1>3. slot \in Slots /\ s.blocks[slot].blockId = id /\ next # 0 /\ next \in Nat
  <2>1. slot \in Slots
    BY <1>2, SlotInRing
  <2>2. s.blocks[slot] \in BlockRecord
    BY <2>1 DEF StorageInv, IsStorage
  <2>3. s.blocks[slot].blockId = id /\ next # 0
    BY <1>2 DEF StorageInv, RingOK
  <2>. QED
    BY <2>1, <2>2, <2>3 DEF BlockRecord
<1>4. key \in Hash /\ Of(key) \in Nat
  <2>1. 1 \in Tids
    BY ConfigAssumption DEF Tids
  <2>2. s.transitions[slot][1] \in TransitionRecord
    BY <1>3, <2>1 DEF StorageInv, IsStorage
  <2>3. key \in Hash
    BY <2>2 DEF TransitionRecord
  <2>. HIDE DEF key
  <2>. QED
    BY <2>3 DEF Of, Hash
<1>5. key \in Plain \/ KeyFits(key, slot, id, next)
  BY <1>3 DEF NameInv, KeysOK
<1>. SUFFICES ASSUME UnexpectedTransitionId(s, slot, hash) PROVE FALSE
  BY <1>3 DEF IterationReverts
<1>6. tid # 0 /\ tid >= next
  BY DEF UnexpectedTransitionId
<1>7. ASSUME key = hash PROVE FALSE
  <2>1. hash \notin Plain /\ tid = 1
    BY <1>6, <1>7 DEF GetTransitionId, Plain
  <2>. HIDE DEF hash, key, slot, next, tid, low, high, id
  <2>2. next = 1
    BY <1>3, <1>6, <2>1
  <2>. DEFINE child == Of(key) + 1
  <2>3. child > MigratedId /\ Slot(child) = slot /\ child <= id /\ child # id
    BY <1>5, <1>7, <2>1, <2>2 DEF KeyFits
  <2>4. child \in Nat /\ child < id
    BY <1>2, <1>4, <2>3
  <2>5. CASE id = OntakeForkHeight + 2
    <3>1. id < child + BlockRingBufferSize
      <4>. HIDE DEF child
      <4>. QED
        BY <1>1, <2>3, <2>4, <2>5
    <3>2. Slot(child) # Slot(id)
      BY <1>2, <2>4, <3>1, SlotsDiffer
    <3>. QED
      BY <2>3, <3>2 DEF slot
  <2>6. CASE id # OntakeForkHeight + 2
    <3>1. hash \in Plain \/ Of(hash) = last \/ Of(hash) = last - 1
      BY <2>6, TrustedName DEF hash, id
    <3>2. child = id \/ child = last
      BY <1>1, <1>4, <1>7, <2>1, <3>1 DEF id
    <3>3. child = last /\ id < child + BlockRingBufferSize
      BY <1>1, <2>3, <3>2 DEF id
    <3>4. Slot(child) # Slot(id)
      BY <1>2, <2>4, <3>3, SlotsDiffer
    <3>. QED
      BY <2>3, <3>4 DEF slot
  <2>. QED
    BY <2>5, <2>6
<1>8. ASSUME key # hash PROVE FALSE
  <2>1. <<id, hash>> \in DOMAIN s.transitionIds /\ tid = s.transitionIds[<<id, hash>>]
    BY <1>3, <1>6, <1>8 DEF GetTransitionId
  <2>2. tid < next /\ tid \in Nat
    <3>1. s.transitionIds[<<id, hash>>] < s.blocks[Slot(id)].nextTransitionId
      BY <1>2, <2>1 DEF HistoryInv, LinkOK
    <3>2. s.transitionIds[<<id, hash>>] \in Tids
      BY <2>1 DEF StorageInv, IsStorage
    <3>3. \A x \in Tids : x \in Nat
      BY DEF Tids
    <3>. QED
      BY <2>1, <3>1, <3>2, <3>3
  <2>. HIDE DEF tid, next
  <2>. QED
    BY <1>3, <1>6, <2>2
<1>. QED
  BY <1>7, <1>8

\* The lengths that a run may have when nothing but its length stops it.
Lengths(s, max) ==
  {last \in s.lastVerifiedBlockId .. s.numBlocks - 1 :
     /\ last - s.lastVerifiedBlockId <= max
     /\ \E tids \in [s.lastVerifiedBlockId + 1 .. last -> Tids] :
          IsRun(s, last - s.lastVerifiedBlockId, last, tids)}

\* A transition that verifies its block has an id that fits (L1_TRANSITION_ID_ZERO aside).
LEMMA VerifyingTid ==
  ASSUME NEW s, StorageInv(s), RoomOK(s), NEW tids,
         NEW id \in s.lastVerifiedBlockId + 1 .. s.numBlocks - 1, CanVerify(s, tids, id)
  PROVE  TidToVerify(s, tids, id) \in Tids
<1>. DEFINE next == s.blocks[Slot(id)].nextTransitionId
<1>1. MaxTransitions \in Nat \ {0} /\ 1 \in Tids
  BY ConfigAssumption DEF Tids
<1>2. CASE FollowsMigrated(s, id)
  <2>1. next - 1 <= MaxTransitions
    BY DEF RoomOK, Pending
  <2>2. next \in Nat
    <3>1. id \in Nat
      BY DEF StorageInv, IsStorage
    <3>2. Slot(id) \in Slots
      BY <3>1, SlotInRing
    <3>3. s.blocks[Slot(id)] \in BlockRecord
      BY <3>2 DEF StorageInv, IsStorage
    <3>. QED
      BY <3>3 DEF BlockRecord
  <2>3. TidToVerify(s, tids, id) = IF next > 1 THEN next - 1 ELSE 1
    BY <1>2 DEF TidToVerify
  <2>. HIDE DEF next
  <2>4. next > 1 => next - 1 \in Tids
    BY <1>1, <2>1, <2>2 DEF Tids
  <2>. QED
    BY <1>1, <2>3, <2>4
<1>3. CASE ~FollowsMigrated(s, id)
  <2>1. TidToVerify(s, tids, id) # 0
    BY <1>3 DEF CanVerify
  <2>2. TidToVerify(s, tids, id) = GetTransitionId(s, Slot(id), TrustedHash(s, tids, id))
    BY <1>3 DEF TidToVerify
  <2>3. \A k \in DOMAIN s.transitionIds : s.transitionIds[k] \in Tids
    BY DEF StorageInv, IsStorage
  <2>. QED
    BY <1>1, <2>1, <2>2, <2>3 DEF GetTransitionId
<1>. QED
  BY <1>2, <1>3

\* A run goes on with the next block when that can be verified.
LEMMA RunGoesOn ==
  ASSUME NEW s, StorageInv(s), RoomOK(s),
         NEW last \in s.lastVerifiedBlockId .. s.numBlocks - 1,
         NEW tids \in [s.lastVerifiedBlockId + 1 .. last -> Tids],
         IsRun(s, last - s.lastVerifiedBlockId, last, tids), last + 1 < s.numBlocks,
         ~IterationReverts(s, tids, last + 1), CanVerify(s, tids, last + 1)
  PROVE  \E more \in [s.lastVerifiedBlockId + 1 .. last + 1 -> Tids] :
           IsRun(s, (last + 1) - s.lastVerifiedBlockId, last + 1, more)
<1>. DEFINE low == s.lastVerifiedBlockId
            high == s.numBlocks
            new == TidToVerify(s, tids, last + 1)
            more == [i \in low + 1 .. last + 1 |-> IF i = last + 1 THEN new ELSE tids[i]]
<1>1. low \in Nat /\ high \in Nat /\ last \in Nat /\ low <= last /\ last + 1 < high
  BY DEF StorageInv, IsStorage
<1>2. new \in Tids
  <2>1. last + 1 \in low + 1 .. high - 1
    <3>. HIDE DEF low, high
    <3>. QED
      BY <1>1
  <2>. QED
    BY <2>1, VerifyingTid
<1>. HIDE DEF new
<1>3. more \in [low + 1 .. last + 1 -> Tids]
  <2>1. \A i \in low + 1 .. last + 1 : i # last + 1 => i \in low + 1 .. last
    <3>. HIDE DEF low
    <3>. QED
      BY <1>1
  <2>. HIDE DEF low
  <2>. QED
    BY <1>2, <2>1 DEF low
<1>4. ASSUME NEW id \in low + 1 .. last + 1
      PROVE  TrustedHash(s, more, id) = TrustedHash(s, tids, id)
  <2>1. id \in Nat /\ \A i \in low + 1 .. id - 1 : i \in low + 1 .. last + 1 /\ i # last + 1
    <3>. HIDE DEF low
    <3>. QED
      BY <1>1
  <2>2. \A i \in low + 1 .. id - 1 : more[i] = tids[i]
    BY <2>1
  <2>. HIDE DEF more
  <2>. QED
    BY <2>1, <2>2, TrustedPrefix
<1>5. more[last + 1] = new /\ \A id \in low + 1 .. last : more[id] = tids[id]
  <2>1. last + 1 \in low + 1 .. last + 1
        /\ \A id \in low + 1 .. last : id \in low + 1 .. last + 1 /\ id # last + 1
    <3>. HIDE DEF low
    <3>. QED
      BY <1>1
  <2>. QED
    BY <2>1
<1>. HIDE DEF more
<1>6. ASSUME NEW id \in low + 1 .. last + 1
      PROVE  /\ TidToVerify(s, more, id) = TidToVerify(s, tids, id)
             /\ CanVerify(s, more, id) = CanVerify(s, tids, id)
             /\ IterationReverts(s, more, id) = IterationReverts(s, tids, id)
  <2>1. TidToVerify(s, more, id) = TidToVerify(s, tids, id)
    BY <1>4 DEF TidToVerify
  <2>2. CanVerify(s, more, id) = CanVerify(s, tids, id)
    BY <2>1 DEF CanVerify
  <2>3. IterationReverts(s, more, id) = IterationReverts(s, tids, id)
    BY <1>4 DEF IterationReverts
  <2>. QED
    BY <2>1, <2>2, <2>3
<1>7. ASSUME NEW id \in low + 1 .. last + 1
      PROVE  /\ LoopContinues(s, (last + 1) - low, id)
             /\ ~IterationReverts(s, more, id)
             /\ CanVerify(s, more, id)
             /\ more[id] = TidToVerify(s, more, id)
  <2>1. LoopContinues(s, (last + 1) - low, id)
    <3>1. id < high /\ id - low <= (last + 1) - low
      <4>. HIDE DEF low, high
      <4>. QED
        BY <1>1
    <3>. QED
      BY <3>1 DEF LoopContinues
  <2>2. CASE id = last + 1
    BY <1>5, <1>6, <2>1, <2>2 DEF new
  <2>3. CASE id # last + 1
    <3>1. id \in low + 1 .. last
      <4>. HIDE DEF low
      <4>. QED
        BY <1>1, <2>3
    <3>2. /\ ~IterationReverts(s, tids, id) /\ CanVerify(s, tids, id)
          /\ tids[id] = TidToVerify(s, tids, id)
      BY <3>1 DEF IsRun
    <3>. QED
      BY <1>5, <1>6, <2>1, <3>1, <3>2
  <2>. QED
    BY <2>2, <2>3
<1>8. ~LoopContinues(s, (last + 1) - low, (last + 1) + 1)
  <2>1. ~((last + 1 + 1) - low <= (last + 1) - low)
    <3>. HIDE DEF low
    <3>. QED
      BY <1>1
  <2>. QED
    BY <2>1 DEF LoopContinues
<1>9. IsRun(s, (last + 1) - low, last + 1, more)
  BY <1>7, <1>8 DEF IsRun
<1>. QED
  BY <1>3, <1>9

\* verifyBlocks has a run, and so an outcome: it does not revert.
LEMMA RunExists ==
  ASSUME OntakeForkHeight + 2 <= MigratedId + BlockRingBufferSize,
         NEW s, StorageInv(s), HistoryInv(s), NameInv(s), RoomOK(s), NEW max \in Nat
  PROVE  \E last \in s.lastVerifiedBlockId .. s.numBlocks - 1 :
           \E tids \in [s.lastVerifiedBlockId + 1 .. last -> Tids] : IsRun(s, max, last, tids)
<1>. DEFINE low == s.lastVerifiedBlockId
            high == s.numBlocks
            lengths == Lengths(s, max)
<1>1. low \in Nat /\ high \in Nat /\ low < high
  BY DEF StorageInv, IsStorage, RingOK
<1>2. low \in lengths
  <2>. DEFINE tids == [i \in low + 1 .. low |-> 1]
  <2>1. low + 1 .. low = {} /\ low \in low .. high - 1 /\ low - low = 0 /\ ~((low + 1) - low <= 0)
    <3>. HIDE DEF low, high
    <3>. QED
      BY <1>1
  <2>2. tids \in [low + 1 .. low -> Tids]
    BY <2>1
  <2>3. IsRun(s, low - low, low, tids)
    <3>. HIDE DEF tids
    <3>. QED
      BY <2>1 DEF IsRun, LoopContinues
  <2>. HIDE DEF tids
  <2>4. low - low <= max
    BY <2>1
  <2>. QED
    BY <2>1, <2>2, <2>3, <2>4 DEF Lengths
<1>3. lengths \in SUBSET (low .. high - 1)
  BY DEF Lengths
<1>. HIDE DEF lengths
<1>4. PICK last \in lengths : \A x \in lengths : x <= last
  <2>1. low \in Int /\ high - 1 \in Int
    BY <1>1
  <2>. HIDE DEF low, high
  <2>. QED
    BY <1>2, <1>3, <2>1, GreatestInRange
<1>5. last \in low .. high - 1 /\ last - low <= max /\ last \in Int
      /\ \E tids \in [low + 1 .. last -> Tids] : IsRun(s, last - low, last, tids)
  <2>1. last \in low .. high - 1 /\ last - low <= max
        /\ \E tids \in [low + 1 .. last -> Tids] : IsRun(s, last - low, last, tids)
    BY DEF Lengths, lengths
  <2>. QED
    BY <1>1, <2>1
<1>6. PICK tids \in [low + 1 .. last -> Tids] : IsRun(s, last - low, last, tids)
  BY <1>5
<1>7. ASSUME LoopContinues(s, max, last + 1)
      PROVE  ~IterationReverts(s, tids, last + 1) /\ ~CanVerify(s, tids, last + 1)
  <2>1. last + 1 < high /\ (last + 1) - low <= max
    BY <1>7 DEF LoopContinues
  <2>2. ~IterationReverts(s, tids, last + 1)
    BY <1>5, <1>6, <2>1, NextIteration
  <2>3. ASSUME CanVerify(s, tids, last + 1) PROVE FALSE
    <3>1. \E more \in [low + 1 .. last + 1 -> Tids] : IsRun(s, (last + 1) - low, last + 1, more)
      BY <1>5, <1>6, <2>1, <2>2, <2>3, RunGoesOn
    <3>2. last + 1 \in low .. high - 1 /\ ~(last + 1 <= last)
      <4>. HIDE DEF low, high
      <4>. QED
        BY <1>1, <1>5, <2>1
    <3>3. last + 1 \in lengths
      BY <2>1, <3>1, <3>2 DEF lengths, Lengths
    <3>. QED
      BY <1>4, <3>2, <3>3
  <2>. QED
    BY <2>2, <2>3
<1>8. ASSUME NEW id \in low + 1 .. last
      PROVE  /\ LoopContinues(s, max, id)
             /\ ~IterationReverts(s, tids, id)
             /\ CanVerify(s, tids, id)
             /\ tids[id] = TidToVerify(s, tids, id)
  <2>1. id < high /\ id - low <= max
    <3>. HIDE DEF low, high
    <3>. QED
      BY <1>1, <1>5
  <2>. QED
    BY <1>6, <2>1 DEF IsRun, LoopContinues
<1>9. IsRun(s, max, last, tids)
  BY <1>7, <1>8 DEF IsRun
<1>. QED
  BY <1>5, <1>9

\* Whatever was verified, the loop knows which state root to sync, or that there is none.
LEMMA SyncPointExists ==
  ASSUME NEW s, StorageInv(s), NEW last \in Int, NEW tids
  PROVE  SyncPoints(s, last, tids) # {}
<1>. DEFINE candidates == {id \in s.lastVerifiedBlockId + 1 .. last :
                             /\ ~FollowsMigrated(s, id)
                             /\ ShouldSyncStateRoot(id)
                             /\ s.transitions[Slot(id)][tids[id]].stateRoot # 0}
<1>1. s.lastVerifiedBlockId + 1 \in Int
  BY DEF StorageInv, IsStorage
<1>2. candidates \in SUBSET (s.lastVerifiedBlockId + 1 .. last)
  OBVIOUS
<1>3. SyncPoints(s, last, tids) = IF candidates = {} THEN {0}
        ELSE {id \in candidates : \A other \in candidates : other <= id}
  BY DEF SyncPoints
<1>. HIDE DEF candidates
<1>4. CASE candidates = {}
  BY <1>3, <1>4
<1>5. CASE candidates # {}
  <2>1. PICK id \in candidates : \A other \in candidates : other <= id
    BY <1>1, <1>2, <1>5, GreatestInRange
  <2>. QED
    BY <1>3, <1>5, <2>1
<1>. QED
  BY <1>4, <1>5

\* verifyBlocks has an outcome.
LEMMA OutcomeExists ==
  ASSUME OntakeForkHeight + 2 <= MigratedId + BlockRingBufferSize,
         NEW s, StorageInv(s), HistoryInv(s), NameInv(s), RoomOK(s), NEW max \in Nat
  PROVE  VerifyOutcomes(s, max) # {}
<1>1. CASE max = 0
  BY <1>1 DEF VerifyOutcomes
<1>2. CASE max # 0
  <2>1. ~VerifyReverts(s)
    <3>1. s.lastVerifiedBlockId \in s.lastVerifiedBlockId .. s.numBlocks - 1
      <4>. DEFINE low == s.lastVerifiedBlockId
                  high == s.numBlocks
      <4>1. low \in Nat /\ high \in Nat /\ low < high
        BY DEF StorageInv, IsStorage, RingOK
      <4>. HIDE DEF low, high
      <4>2. low \in low .. high - 1
        BY <4>1
      <4>. QED
        BY <4>2 DEF low, high
    <3>. QED
      BY <3>1 DEF VerifyReverts, StorageInv, RingOK
  <2>2. PICK last \in s.lastVerifiedBlockId .. s.numBlocks - 1 :
          \E tids \in [s.lastVerifiedBlockId + 1 .. last -> Tids] : IsRun(s, max, last, tids)
    BY RunExists
  <2>3. PICK tids \in [s.lastVerifiedBlockId + 1 .. last -> Tids] : IsRun(s, max, last, tids)
    BY <2>2
  <2>4. PICK sync \in SyncPoints(s, last, tids) : TRUE
    <3>1. last \in Int
      BY DEF StorageInv, IsStorage
    <3>. QED
      BY <3>1, SyncPointExists
  <2>5. Verified(s, last, tids, sync) \in VerifyOutcomes(s, max)
    BY <1>2, <2>1, <2>2, <2>3, <2>4 DEF VerifyOutcomes
  <2>. QED
    BY <2>5
<1>. QED
  BY <1>1, <1>2

\* The names that the storage of the chain holds.
NInv == NameInv(state)

\* Where the ring is not reused before the second block after the fork, as deployed,
\* verifyBlocks never reverts (LibVerifying, LibUtils.getTransitionId): whatever a reused slot
\* still holds, neither it nor a proposal or a proof that ends in it is locked out.
THEOREM VerificationIsNotLockedOut ==
  ASSUME OntakeForkHeight + 2 <= MigratedId + BlockRingBufferSize
  PROVE  Spec => []VerificationNeverReverts
<1>1. Init => NInv
  BY InitNames DEF NInv
<1>2. (IInv /\ HInv /\ SInv) /\ NInv /\ [Next]_vars => NInv'
  <2>. SUFFICES ASSUME IInv, HInv, NInv, [Next]_vars PROVE NInv'
    OBVIOUS
  <2>1. NameInv(state')
    BY NextNames DEF NInv
  <2>. QED
    BY <2>1 DEF NInv, NameInv, KeysOK, NamesOK, EndOK, VerifiedHash
<1>3. IInv /\ HInv /\ SInv /\ NInv => VerificationNeverReverts
  <2>. SUFFICES ASSUME IInv, HInv, SInv, NInv PROVE VerificationNeverReverts
    OBVIOUS
  <2>1. /\ StorageInv(state) /\ HistoryInv(state) /\ NameInv(state) /\ RoomOK(state)
        /\ MaxBlockId \in Nat
    BY ConfigAssumption DEF IInv, HInv, SInv, NInv, SolventInv
  <2>. QED
    BY <2>1, OutcomeExists DEF VerificationNeverReverts
<1>. QED
  BY <1>1, <1>2, <1>3, SolventHolds, PTL DEF Spec

=============================================================================
