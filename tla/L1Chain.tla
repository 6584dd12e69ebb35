-------------------------------- MODULE L1Chain --------------------------------
(***************************************************************************)
(* The chain the rollup lives on, as the taiko-client reads it: blocks that *)
(* may propose an L2 block and verify older ones, and reorgs that replace  *)
(* the newest blocks.  An L2 block is decided by the L1 blocks that propose *)
(* it and its ancestors, so the hash of an L2 block is modelled by the     *)
(* sequence of those L1 blocks: <<>> is the genesis block.                 *)
(***************************************************************************)
EXTENDS Integers, Sequences, SequencesExt

CONSTANTS
  Finalized,    \* L2 blocks proposed and verified in L1 blocks no reorg replaces
  VerifyDelay,  \* an L2 block is verified that many L1 blocks after its proposal
  MaxDepth,     \* bound: blocks a reorg replaces
  Setups        \* the flags a driver may run with, and what it meets

ASSUME L1Assumption ==
  /\ Finalized \in Nat /\ VerifyDelay \in Nat \ {0}
  /\ MaxDepth \in Nat
  /\ \A s \in Setups : s.reorgs \in Nat /\ s.height \in Nat /\ s.height >= Finalized + 2

VARIABLES
  setup,  \* one of Setups, never changed
  chain,  \* the canonical chain; its first block is the rollup's genesis block
  base    \* [i \in 1..reorgs -> height of the last block that reorg i kept]

MaxReorgs == setup.reorgs  \* bound: reorgs
MaxHeight == setup.height  \* bound: the height of the chain

\* proposed and verified are what the rollup contract's state says after the block:
\* the ids of the newest proposed and of the last verified L2 block.
L1Block == [h : 1..MaxHeight, fork : 0..MaxReorgs, proposes : BOOLEAN,
            proposed : 0..MaxHeight, verified : 0..MaxHeight]
GenesisHeight == 1
FinalHeight == Finalized + 2

L1TypeOK ==
  /\ setup \in Setups
  /\ chain \in Seq(L1Block) /\ \A h \in DOMAIN chain : chain[h].h = h
  /\ Len(base) \in 0..MaxReorgs /\ \A i \in DOMAIN base : base[i] \in 1..MaxHeight

L1Init ==
  /\ setup \in Setups
  /\ chain = [h \in 1..FinalHeight |->
                [h |-> h, fork |-> 0, proposes |-> h \in 2..(Finalized + 1),
                 proposed |-> IF h = FinalHeight THEN Finalized ELSE h - 1,
                 verified |-> IF h = FinalHeight THEN Finalized ELSE 0]]
  /\ base = <<>>

\* The ids of the newest block proposed on a chain of L1 blocks and of the last one
\* it verified, and the newest id before an L1 block.
LastProposed(blocks) == Last(blocks).proposed
LastVerified(blocks) == Last(blocks).verified
ProposedBefore(b) == IF b.proposes THEN b.proposed - 1 ELSE b.proposed

\* The L2 chain that a chain of L1 blocks proposes.
Proposal(blocks, id) ==
  blocks[CHOOSE h \in DOMAIN blocks : blocks[h].proposes /\ blocks[h].proposed = id]
Proposed(blocks) == [id \in 1..LastProposed(blocks) |-> Proposal(blocks, id)]

Canonical(b) == b.h <= Len(chain) /\ chain[b.h] = b

\* A block of an older fork is on the chain of b if no reorg in between took it.
OnChainOf(a, b) ==
  /\ a.h < b.h /\ a.fork <= b.fork
  /\ \A i \in (a.fork + 1)..b.fork : a.h <= base[i]

NewBlock(blocks, fork, proposes, verified) ==
  Append(blocks, [h |-> Len(blocks) + 1, fork |-> fork,
                  proposes |-> proposes, verified |-> verified,
                  proposed |-> LastProposed(blocks) + IF proposes THEN 1 ELSE 0])

\* The L2 blocks that the next block may verify.
Verifiable(blocks) ==
  LastVerified(blocks) ..
    LET old == Len(blocks) + 1 - VerifyDelay
    IN  IF old <= FinalHeight THEN LastVerified(blocks)
        ELSE blocks[old].proposed

Mine ==
  /\ Len(chain) < MaxHeight
  /\ \E p \in BOOLEAN, v \in Verifiable(chain) :
       chain' = NewBlock(chain, Len(base), p, v)
  /\ UNCHANGED <<setup, base>>

\* Another fork with one block less at most takes over.
Reorg ==
  /\ Len(base) < MaxReorgs
  /\ \E depth \in 1..MaxDepth :
       LET kept == Len(chain) - depth
       IN  /\ kept >= FinalHeight
           /\ base' = Append(base, kept)
           /\ \E p \in BOOLEAN, v \in Verifiable(SubSeq(chain, 1, kept)) :
                chain' = NewBlock(SubSeq(chain, 1, kept), Len(base'), p, v)
  /\ UNCHANGED setup

l1Vars == <<setup, chain, base>>
L1Next == Mine \/ Reorg
================================================================================
