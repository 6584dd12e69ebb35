------------------------------ MODULE DriverProofs ------------------------------
(***************************************************************************)
(* Proofs about the driver, for every L1 chain, every number of crashes and *)
(* every height.                                                           *)
(***************************************************************************)
EXTENDS Driver, TotalsProofs, FiniteSetTheorems, TLAPS

--------------------------------------------------------------------------------
(* The L1 chain: its counters of proposed and verified blocks. *)

\* The blocks count up from 1, and each counts the proposals before it.
GoodChain(blocks) ==
  /\ blocks \in Seq(L1Block) /\ Len(blocks) \in FinalHeight..MaxHeight
  /\ \A h \in 1..Len(blocks) : blocks[h].h = h /\ blocks[h].proposed < h
  /\ ~blocks[1].proposes
  /\ \A h \in 2..Len(blocks) : ProposedBefore(blocks[h]) = blocks[h - 1].proposed
  /\ \A g, h \in 1..Len(blocks) : g <= h => blocks[g].proposed <= blocks[h].proposed
  /\ \A h \in 1..Len(blocks) : blocks[h].verified <= blocks[h].proposed
  /\ \A h \in 1..Len(blocks), id \in 1..MaxHeight :
       id <= blocks[h].proposed => \E g \in 1..h : blocks[g].proposes /\ blocks[g].proposed = id

\* The bounds of a behaviour are naturals, and its first blocks fit into them.
LEMMA Bounds ==
  ASSUME setup \in Setups
  PROVE  /\ MaxHeight \in Nat /\ MaxReorgs \in Nat /\ FinalHeight \in Nat
         /\ 2 <= FinalHeight /\ FinalHeight <= MaxHeight
         /\ Synced \in 0..Finalized /\ FinalHeight = Finalized + 2 /\ Finalized \in Nat
BY L1Assumption, EngineAssumption DEF MaxHeight, MaxReorgs, FinalHeight, Synced

\* What the blocks of a good chain are.
LEMMA GoodBlock ==
  ASSUME setup \in Setups, NEW blocks, GoodChain(blocks), NEW h \in 1..Len(blocks)
  PROVE  /\ blocks[h] \in L1Block /\ blocks[h].h = h
         /\ blocks[h].proposed \in 0..MaxHeight /\ blocks[h].verified \in 0..MaxHeight
         /\ blocks[h].proposes \in BOOLEAN /\ blocks[h].proposed < h
         /\ ProposedBefore(blocks[h]) \in 0..MaxHeight
         /\ ProposedBefore(blocks[h]) <= blocks[h].proposed
         /\ blocks[h].proposed <= ProposedBefore(blocks[h]) + 1
         /\ Len(blocks) \in Nat /\ h <= MaxHeight
<1>1. blocks \in Seq(L1Block) /\ Len(blocks) \in FinalHeight..MaxHeight /\ Len(blocks) \in Nat
  BY Bounds DEF GoodChain
<1>2. blocks[h] \in L1Block
  BY <1>1
<1>3. /\ blocks[h].proposed \in 0..MaxHeight /\ blocks[h].verified \in 0..MaxHeight
      /\ blocks[h].proposes \in BOOLEAN
  BY <1>2 DEF L1Block
<1>4. blocks[h].h = h /\ blocks[h].proposed < h
  BY DEF GoodChain
<1>5. ProposedBefore(blocks[h]) \in 0..MaxHeight
  <2>1. CASE h = 1
    <3>1. ~blocks[h].proposes
      BY <2>1 DEF GoodChain
    <3>. QED
      BY <1>3, <3>1 DEF ProposedBefore
  <2>2. CASE h # 1
    <3>1. h \in 2..Len(blocks) /\ h - 1 \in 1..Len(blocks)
      BY <1>1, <2>2
    <3>2. ProposedBefore(blocks[h]) = blocks[h - 1].proposed
      BY <3>1 DEF GoodChain
    <3>3. blocks[h - 1] \in L1Block
      BY <1>1, <3>1
    <3>. QED
      BY <3>2, <3>3 DEF L1Block
  <2>. QED
    BY <2>1, <2>2
<1>6. /\ ProposedBefore(blocks[h]) <= blocks[h].proposed
      /\ blocks[h].proposed <= ProposedBefore(blocks[h]) + 1
  BY <1>3, Bounds DEF ProposedBefore
<1>. QED
  BY <1>1, <1>2, <1>3, <1>4, <1>5, <1>6, Bounds

\* The number of proposals before a block grows along a chain.
LEMMA BeforeGrows ==
  ASSUME setup \in Setups, NEW blocks, GoodChain(blocks),
         NEW g \in 1..Len(blocks), NEW h \in 1..Len(blocks), g <= h
  PROVE  /\ ProposedBefore(blocks[g]) <= ProposedBefore(blocks[h])
         /\ blocks[g].proposed <= blocks[h].proposed
         /\ g < h => blocks[g].proposed <= ProposedBefore(blocks[h])
<1>1. blocks[g].proposed <= blocks[h].proposed
  BY DEF GoodChain
<1>2. CASE g = h
  BY <1>2, GoodBlock
<1>3. CASE g < h
  <2>1. Len(blocks) \in Nat
    BY GoodBlock
  <2>2. h \in 2..Len(blocks) /\ h - 1 \in 1..Len(blocks) /\ g <= h - 1
    BY <1>3, <2>1
  <2>3. ProposedBefore(blocks[h]) = blocks[h - 1].proposed
    BY <2>2 DEF GoodChain
  <2>4. blocks[g].proposed <= blocks[h - 1].proposed
    BY <2>2 DEF GoodChain
  <2>5. ProposedBefore(blocks[g]) <= blocks[g].proposed /\ ProposedBefore(blocks[g]) \in Int /\ blocks[g].proposed \in Int
    BY GoodBlock
  <2>6. blocks[h - 1].proposed \in Int
    BY <2>2, GoodBlock
  <2>. QED
    BY <1>1, <2>3, <2>4, <2>5, <2>6
<1>. QED
  BY <1>2, <1>3, GoodBlock

\* A prefix of a good chain with its final blocks is one.
LEMMA GoodPrefix ==
  ASSUME setup \in Setups, NEW blocks, GoodChain(blocks), NEW k \in FinalHeight..Len(blocks)
  PROVE  /\ GoodChain(SubSeq(blocks, 1, k)) /\ Len(SubSeq(blocks, 1, k)) = k
         /\ \A h \in 1..k : SubSeq(blocks, 1, k)[h] = blocks[h]
<1>. DEFINE kept == SubSeq(blocks, 1, k)
<1>1. blocks \in Seq(L1Block) /\ Len(blocks) \in FinalHeight..MaxHeight /\ k \in 1..Len(blocks)
  BY Bounds DEF GoodChain
<1>2. kept \in Seq(L1Block) /\ Len(kept) = k /\ \A h \in 1..k : kept[h] = blocks[h]
  BY <1>1, Bounds
<1>3. k \in FinalHeight..MaxHeight /\ 2 <= k /\ 1..k \subseteq 1..Len(blocks)
  BY <1>1, Bounds
<1>. HIDE DEF kept
<1>4. \A h \in 1..Len(kept) : kept[h].h = h /\ kept[h].proposed < h
  BY <1>2, <1>3 DEF GoodChain
<1>5. ~kept[1].proposes
  BY <1>2, <1>3 DEF GoodChain
<1>6. \A h \in 2..Len(kept) : ProposedBefore(kept[h]) = kept[h - 1].proposed
  <2>. TAKE h \in 2..Len(kept)
  <2>1. h \in 1..k /\ h - 1 \in 1..k /\ h \in 2..Len(blocks)
    BY <1>1, <1>2, <1>3
  <2>. QED
    BY <1>2, <2>1 DEF GoodChain
<1>7. \A g, h \in 1..Len(kept) : g <= h => kept[g].proposed <= kept[h].proposed
  BY <1>2, <1>3 DEF GoodChain
<1>8. \A h \in 1..Len(kept) : kept[h].verified <= kept[h].proposed
  BY <1>2, <1>3 DEF GoodChain
<1>9. \A h \in 1..Len(kept), id \in 1..MaxHeight :
        id <= kept[h].proposed => \E g \in 1..h : kept[g].proposes /\ kept[g].proposed = id
  <2>. SUFFICES ASSUME NEW h \in 1..Len(kept), NEW id \in 1..MaxHeight, id <= kept[h].proposed
               PROVE  \E g \in 1..h : kept[g].proposes /\ kept[g].proposed = id
    OBVIOUS
  <2>1. h \in 1..Len(blocks) /\ kept[h] = blocks[h] /\ 1..h \subseteq 1..k
    BY <1>2, <1>3
  <2>2. PICK g \in 1..h : blocks[g].proposes /\ blocks[g].proposed = id
    BY <2>1 DEF GoodChain
  <2>. QED
    BY <1>2, <2>1, <2>2
<1>10. GoodChain(kept)
  BY <1>2, <1>3, <1>4, <1>5, <1>6, <1>7, <1>8, <1>9 DEF GoodChain
<1>. QED
  BY <1>2, <1>10 DEF kept


\* The last block of a good chain.
LEMMA GoodLast ==
  ASSUME setup \in Setups, NEW blocks, GoodChain(blocks)
  PROVE  /\ Len(blocks) \in FinalHeight..MaxHeight /\ Len(blocks) \in 1..Len(blocks)
         /\ Last(blocks) = blocks[Len(blocks)] /\ Last(blocks) \in L1Block
         /\ Last(blocks).h = Len(blocks)
         /\ LastProposed(blocks) \in 0..MaxHeight /\ LastProposed(blocks) < Len(blocks)
         /\ LastVerified(blocks) \in 0..MaxHeight
         /\ LastVerified(blocks) <= LastProposed(blocks)
<1>1. Len(blocks) \in FinalHeight..MaxHeight /\ Len(blocks) \in 1..Len(blocks)
  BY Bounds DEF GoodChain
<1>2. Last(blocks) = blocks[Len(blocks)]
  BY DEF Last
<1>3. blocks[Len(blocks)].verified <= blocks[Len(blocks)].proposed
  BY <1>1 DEF GoodChain
<1>. QED
  BY <1>1, <1>2, <1>3, GoodBlock DEF LastProposed, LastVerified

\* Appending a block to a good chain, with a block to verify that the contract
\* may verify, gives a good chain.
LEMMA GoodAppend ==
  ASSUME setup \in Setups, NEW blocks, GoodChain(blocks), Len(blocks) < MaxHeight,
         NEW fork \in 0..MaxReorgs, NEW p \in BOOLEAN, NEW v \in Verifiable(blocks)
  PROVE  /\ GoodChain(NewBlock(blocks, fork, p, v))
         /\ Len(NewBlock(blocks, fork, p, v)) = Len(blocks) + 1
         /\ \A h \in 1..Len(blocks) : NewBlock(blocks, fork, p, v)[h] = blocks[h]
         /\ ProposedBefore(NewBlock(blocks, fork, p, v)[Len(blocks) + 1]) = LastProposed(blocks)
<1>. DEFINE n == Len(blocks)
            last == LastProposed(blocks)
            count == last + IF p THEN 1 ELSE 0
            b == [h |-> n + 1, fork |-> fork, proposes |-> p, verified |-> v, proposed |-> count]
            new == Append(blocks, b)
<1>0. NewBlock(blocks, fork, p, v) = new
  BY DEF NewBlock
<1>1. /\ blocks \in Seq(L1Block) /\ n \in FinalHeight..MaxHeight /\ n \in 1..n /\ n \in Nat
      /\ last \in 0..MaxHeight /\ last < n /\ LastVerified(blocks) \in 0..MaxHeight
      /\ LastVerified(blocks) <= last /\ 2 <= n /\ n + 1 <= MaxHeight /\ last = blocks[n].proposed
  <2>1. Last(blocks) = blocks[n] /\ blocks \in Seq(L1Block)
    BY GoodLast DEF GoodChain
  <2>2. last = blocks[n].proposed
    BY <2>1 DEF LastProposed
  <2>3. n \in FinalHeight..MaxHeight /\ n < MaxHeight
    BY GoodLast
  <2>4. n \in 1..n /\ n \in Nat /\ 2 <= n /\ n + 1 <= MaxHeight
    BY <2>3, Bounds
  <2>. HIDE DEF n
  <2>. QED
    BY <2>1, <2>2, <2>3, <2>4, GoodLast DEF n
<1>2. v \in 0..MaxHeight /\ v <= last
  <2>. DEFINE old == n + 1 - VerifyDelay
  <2>1. CASE old <= FinalHeight
    <3>1. v = LastVerified(blocks)
      BY <1>1, <2>1 DEF Verifiable
    <3>. QED
      BY <1>1, <3>1
  <2>2. CASE ~(old <= FinalHeight)
    <3>1. old \in 1..n
      BY <1>1, <2>2, Bounds, L1Assumption
    <3>2. v \in LastVerified(blocks)..blocks[old].proposed
      BY <2>2 DEF Verifiable
    <3>3. blocks[old].proposed <= blocks[n].proposed /\ blocks[old].proposed \in 0..MaxHeight
      BY <1>1, <3>1, BeforeGrows, GoodBlock
    <3>. QED
      BY <1>1, <3>2, <3>3, Bounds
  <2>. QED
    BY <2>1, <2>2
<1>3. count \in 0..MaxHeight /\ count < n + 1 /\ last <= count /\ count <= last + 1
  BY <1>1, Bounds
<1>4. b \in L1Block
  BY <1>1, <1>2, <1>3, Bounds DEF L1Block
<1>5. new \in Seq(L1Block) /\ Len(new) = n + 1 /\ new[n + 1] = b /\ \A h \in 1..n : new[h] = blocks[h]
  BY <1>1, <1>4
<1>6. b.h = n + 1 /\ b.proposed = count /\ b.verified = v /\ b.proposes = p
  OBVIOUS
<1>7. ProposedBefore(b) = last
  BY <1>1, <1>6 DEF ProposedBefore
<1>. HIDE DEF b, new, n, count
<1>8. n + 1 \in FinalHeight..MaxHeight /\ 1..(n + 1) = 1..n \cup {n + 1} /\ n + 1 \notin 1..n
  BY <1>1, Bounds
<1>. HIDE DEF last
<1>11. \A h \in 1..Len(new) : new[h].h = h /\ new[h].proposed < h
  <2>. TAKE h \in 1..Len(new)
  <2>1. CASE h \in 1..n
    BY <1>5, <2>1 DEF GoodChain, n
  <2>2. CASE h = n + 1
    BY <1>3, <1>5, <1>6, <2>2
  <2>. QED
    BY <1>5, <1>8, <2>1, <2>2
<1>12. ~new[1].proposes
  BY <1>1, <1>5 DEF GoodChain
<1>13. \A h \in 2..Len(new) : ProposedBefore(new[h]) = new[h - 1].proposed
  <2>. TAKE h \in 2..Len(new)
  <2>1. CASE h \in 1..n
    <3>1. h \in 2..n /\ h - 1 \in 1..n
      BY <1>1, <2>1
    <3>2. ProposedBefore(blocks[h]) = blocks[h - 1].proposed
      BY <3>1 DEF GoodChain, n
    <3>. QED
      BY <1>5, <3>1, <3>2
  <2>2. CASE h = n + 1
    <3>1. h - 1 = n /\ n \in 1..n
      BY <1>1, <2>2
    <3>. QED
      BY <1>1, <1>5, <1>7, <2>2, <3>1
  <2>. QED
    BY <1>5, <1>8, <2>1, <2>2
<1>14. \A g, h \in 1..Len(new) : g <= h => new[g].proposed <= new[h].proposed
  <2>. SUFFICES ASSUME NEW g \in 1..(n + 1), NEW h \in 1..(n + 1), g <= h
               PROVE  new[g].proposed <= new[h].proposed
    BY <1>5
  <2>1. CASE h \in 1..n
    <3>1. g \in 1..n
      BY <1>1, <2>1
    <3>. QED
      BY <1>5, <2>1, <3>1 DEF GoodChain, n
  <2>2. CASE h = n + 1 /\ g \in 1..n
    <3>1. blocks[g].proposed <= last /\ blocks[g].proposed \in 0..MaxHeight
      BY <1>1, <2>2, BeforeGrows, GoodBlock DEF n
    <3>2. new[g].proposed = blocks[g].proposed /\ new[h].proposed = count
      BY <1>5, <1>6, <2>2
    <3>3. \A x \in 0..MaxHeight : x <= last => x <= count
      BY <1>1, <1>3, Bounds
    <3>4. blocks[g].proposed <= count
      BY <3>1, <3>3
    <3>. QED
      BY <3>2, <3>4
  <2>3. CASE h = n + 1 /\ g = n + 1
    BY <1>3, <1>5, <1>6, <2>3, Bounds
  <2>. QED
    BY <1>8, <2>1, <2>2, <2>3
<1>15. \A h \in 1..Len(new) : new[h].verified <= new[h].proposed
  <2>. TAKE h \in 1..Len(new)
  <2>1. CASE h \in 1..n
    BY <1>5, <2>1 DEF GoodChain, n
  <2>2. CASE h = n + 1
    <3>1. new[h].verified = v /\ new[h].proposed = count
      BY <1>5, <1>6, <2>2
    <3>2. v \in Int /\ last \in Int /\ count \in Int
      BY <1>1, <1>2, <1>3, Bounds
    <3>3. v <= last /\ last <= count
      BY <1>2, <1>3
    <3>4. v <= count
      BY <3>2, <3>3
    <3>. QED
      BY <3>1, <3>4
  <2>. QED
    BY <1>5, <1>8, <2>1, <2>2
<1>16. \A h \in 1..Len(new), id \in 1..MaxHeight :
         id <= new[h].proposed => \E g \in 1..h : new[g].proposes /\ new[g].proposed = id
  <2>. SUFFICES ASSUME NEW h \in 1..(n + 1), NEW id \in 1..MaxHeight, id <= new[h].proposed
               PROVE  \E g \in 1..h : new[g].proposes /\ new[g].proposed = id
    BY <1>5
  <2>1. ASSUME NEW k \in 1..n, k <= h, id <= blocks[k].proposed
        PROVE  \E g \in 1..h : new[g].proposes /\ new[g].proposed = id
    <3>1. PICK g \in 1..k : blocks[g].proposes /\ blocks[g].proposed = id
      BY <2>1 DEF GoodChain, n
    <3>2. g \in 1..h /\ g \in 1..n
      BY <1>1, <2>1, <3>1
    <3>. QED
      BY <1>5, <3>1, <3>2
  <2>2. CASE h \in 1..n
    BY <1>1, <1>5, <2>1, <2>2
  <2>3. CASE h = n + 1 /\ id <= last
    BY <1>1, <2>1, <2>3
  <2>4. CASE h = n + 1 /\ ~(id <= last)
    <3>1. id <= count
      BY <1>5, <1>6, <2>4
    <3>0. id \in Int /\ last \in Int
      BY <1>1, Bounds
    <3>2. p /\ count = id
      BY <2>4, <3>0, <3>1 DEF count
    <3>3. h \in 1..h
      BY <1>1, <2>4
    <3>. QED
      BY <1>5, <1>6, <2>4, <3>2, <3>3
  <2>. QED
    BY <1>8, <2>2, <2>3, <2>4
<1>17. GoodChain(new)
  BY <1>5, <1>8, <1>11, <1>12, <1>13, <1>14, <1>15, <1>16 DEF GoodChain
<1>. QED
  BY <1>0, <1>5, <1>7, <1>17 DEF n, last, new


\* The proposal of an id on a good chain is the one block that raises the count to it.
LEMMA ProposalFacts ==
  ASSUME setup \in Setups, NEW blocks, GoodChain(blocks), NEW id \in 1..LastProposed(blocks)
  PROVE  /\ Proposal(blocks, id) \in L1Block /\ Proposal(blocks, id).h \in 2..Len(blocks)
         /\ blocks[Proposal(blocks, id).h] = Proposal(blocks, id)
         /\ Proposal(blocks, id).proposes /\ Proposal(blocks, id).proposed = id
         /\ ProposedBefore(Proposal(blocks, id)) = id - 1
         /\ id \in 1..MaxHeight
<1>1. /\ Len(blocks) \in 1..Len(blocks) /\ Len(blocks) \in Nat
      /\ LastProposed(blocks) \in 0..MaxHeight /\ LastProposed(blocks) = blocks[Len(blocks)].proposed
  BY GoodLast, GoodBlock DEF LastProposed
<1>2. id \in 1..MaxHeight /\ id <= blocks[Len(blocks)].proposed
  BY <1>1, Bounds
<1>3. PICK g \in 1..Len(blocks) : blocks[g].proposes /\ blocks[g].proposed = id
  BY <1>1, <1>2 DEF GoodChain
<1>4. DOMAIN blocks = 1..Len(blocks)
  BY DEF GoodChain
<1>. DEFINE h == CHOOSE k \in DOMAIN blocks : blocks[k].proposes /\ blocks[k].proposed = id
<1>5. h \in 1..Len(blocks) /\ blocks[h].proposes /\ blocks[h].proposed = id
  BY <1>3, <1>4
<1>6. Proposal(blocks, id) = blocks[h]
  BY DEF Proposal
<1>. HIDE DEF h
<1>7. blocks[h] \in L1Block /\ blocks[h].h = h
  BY <1>5, GoodBlock
<1>8. h # 1
  BY <1>5 DEF GoodChain
<1>9. h \in 2..Len(blocks)
  BY <1>1, <1>5, <1>8
<1>10. ProposedBefore(blocks[h]) = id - 1
  BY <1>5 DEF ProposedBefore
<1>. QED
  BY <1>2, <1>5, <1>6, <1>7, <1>9, <1>10

\* The L2 chain that a good chain proposes has a block for every id.
LEMMA ProposedFacts ==
  ASSUME setup \in Setups, NEW blocks, GoodChain(blocks)
  PROVE  /\ Proposed(blocks) \in Seq(L1Block) /\ Len(Proposed(blocks)) = LastProposed(blocks)
         /\ LastProposed(blocks) \in 0..MaxHeight
         /\ \A id \in 1..LastProposed(blocks) : Proposed(blocks)[id] = Proposal(blocks, id)
<1>1. LastProposed(blocks) \in 0..MaxHeight /\ LastProposed(blocks) \in Nat
  BY GoodLast, Bounds
<1>2. \A id \in 1..LastProposed(blocks) : Proposal(blocks, id) \in L1Block
  BY ProposalFacts
<1>. QED
  BY <1>1, <1>2 DEF Proposed

--------------------------------------------------------------------------------
(* Type correctness, for every setup: the invariant bounds what the driver     *)
(* takes from the chain and the engine.                                        *)

ChainOK ==
  /\ setup \in Setups
  /\ GoodChain(chain)
  /\ base \in Seq(1..MaxHeight) /\ Len(base) \in 0..MaxReorgs

\* A block of an id has at most that many ancestors, and the record of the head exists.
EngineOK ==
  /\ canon \in Seq(L1Block) /\ Len(canon) <= MaxHeight
  /\ target \in Seq(L1Block) /\ Len(target) <= MaxHeight
  /\ origin \in [BlockIds -> Seq(L1Block)]
  /\ \A id \in BlockIds : Len(origin[id]) <= id
  /\ headOrigin \in 0..MaxHeight
  /\ headOrigin # 0 => origin[headOrigin] # NoOrigin

HeadsOK ==
  /\ l1Current \in L1Block
  /\ l1Head \in L1Block /\ l1Head.h >= FinalHeight
  /\ l2Head \in 0..MaxHeight
  /\ lastInserted \in 0..MaxHeight \cup {NoId}

\* What the tracker syncs to is the block of its id.
TrackerOK ==
  /\ tracker \in [triggered : BOOLEAN, id : 0..MaxHeight \cup {NoId}, hash : Seq(L1Block),
                  outOfSync : BOOLEAN, progressed : BOOLEAN, finished : BOOLEAN]
  /\ IF tracker.triggered THEN tracker.id = Len(tracker.hash) ELSE tracker.id = NoId

\* A pass that runs has an end; a block that is being inserted, its event.
Runs == pass.pc \in {"iter", "events", "setHead"}
PassOK ==
  /\ pass \in [pc : {"idle", "process", "iter", "events", "setHead", "panic"}, at : 0..MaxHeight,
               end : L1Block \cup {NoHeader}, events : Seq(Event)]
  /\ Runs => pass.end \in L1Block /\ pass.at >= 1
  /\ pass.pc = "setHead" => pass.events # <<>>

TInv ==
  ChainOK /\ EngineOK /\ HeadsOK /\ TrackerOK /\ PassOK /\ faults \in 0..MaxFaults

\* The invariant is stronger than type correctness.
LEMMA TInvType ==
  ASSUME TInv
  PROVE  TypeOK
<1>1. L1TypeOK
  <2>1. \A h \in DOMAIN chain : chain[h].h = h
    BY DEF TInv, ChainOK, GoodChain
  <2>2. \A i \in DOMAIN base : base[i] \in 1..MaxHeight
    <3>. DEFINE heights == 1..MaxHeight
    <3>1. base \in Seq(heights)
      BY DEF TInv, ChainOK
    <3>. HIDE DEF heights
    <3>2. \A i \in DOMAIN base : base[i] \in heights
      BY <3>1
    <3>. QED
      BY <3>2 DEF heights
  <2>. QED
    BY <2>1, <2>2 DEF TInv, ChainOK, GoodChain, L1TypeOK
<1>2. EngineTypeOK
  BY DEF TInv, EngineOK, EngineTypeOK
<1>3. tracker.triggered <=> tracker.id # NoId
  <2>1. NoId \notin Nat /\ (tracker.triggered => tracker.id \in Nat)
    BY DEF TInv, TrackerOK, NoId
  <2>2. ~tracker.triggered => tracker.id = NoId
    BY DEF TInv, TrackerOK
  <2>. QED
    BY <2>1, <2>2
<1>. QED
  BY <1>1, <1>2, <1>3 DEF TInv, HeadsOK, TrackerOK, PassOK, TypeOK

\* The sets of values depend on the setup alone.
LEMMA SameTypes ==
  ASSUME setup' = setup
  PROVE  /\ MaxHeight' = MaxHeight /\ MaxReorgs' = MaxReorgs /\ BlockIds' = BlockIds
         /\ L1Block' = L1Block /\ Event' = Event /\ P2PSync' = P2PSync
         /\ FullSync' = FullSync
BY DEF MaxHeight, MaxReorgs, BlockIds, L1Block, Event, P2PSync, FullSync

\* What a step leaves alone stays as it is.
LEMMA ChainSame ==
  ASSUME ChainOK, UNCHANGED l1Vars
  PROVE  ChainOK'
BY SameTypes DEF ChainOK, GoodChain, l1Vars

\* (likewise)
LEMMA EngineSame ==
  ASSUME EngineOK, setup' = setup, UNCHANGED engineVars
  PROVE  EngineOK'
BY SameTypes DEF EngineOK, engineVars

\* (likewise)
LEMMA TrackerSame ==
  ASSUME TrackerOK, setup' = setup, tracker' = tracker
  PROVE  TrackerOK'
BY SameTypes DEF TrackerOK

\* (likewise)
LEMMA PassSame ==
  ASSUME PassOK, setup' = setup, pass' = pass
  PROVE  PassOK'
BY SameTypes DEF PassOK, Runs

\* Outside a pass nothing of it is kept.
LEMMA PassGo ==
  ASSUME NEW pc \in {"idle", "process", "panic"}, setup \in Setups, setup' = setup, Go(pc)
  PROVE  /\ PassOK' /\ ~Runs' /\ pass'.pc = pc /\ pass'.events = <<>>
<1>1. pass' = [pc |-> pc, at |-> 0, end |-> NoHeader, events |-> <<>>]
  BY DEF Go, NotPassing, Passing
<1>2. 0 \in 0..MaxHeight
  BY Bounds
<1>3. <<>> \in Seq(Event)
  OBVIOUS
<1>4. /\ pass' \in [pc : {"idle", "process", "iter", "events", "setHead", "panic"}, at : 0..MaxHeight,
                    end : L1Block \cup {NoHeader}, events : Seq(Event)]
  BY <1>1, <1>2, <1>3
<1>5. ~Runs' /\ pass'.pc = pc /\ pc # "setHead" /\ pass'.events = <<>>
  BY <1>1 DEF Runs
<1>. QED
  BY <1>4, <1>5, SameTypes DEF PassOK


--------------------------------------------------------------------------------
(* What the driver reads of the engine. *)

\* The block in an L1Origin record is a block of the L1 chain, then or now.
LEMMA OriginBlock ==
  ASSUME EngineOK, NEW id \in BlockIds, origin[id] # NoOrigin
  PROVE  L1OriginByID(id) \in L1Block
<1>1. origin[id] \in Seq(L1Block) /\ origin[id] # <<>>
  BY DEF EngineOK, NoOrigin
<1>2. Len(origin[id]) \in 1..Len(origin[id])
  BY <1>1
<1>. QED
  BY <1>1, <1>2 DEF L1OriginByID, Last

\* The genesis block of the rollup.
LEMMA Genesis ==
  ASSUME ChainOK
  PROVE  /\ GenesisHeight = 1 /\ 1 \in 1..Len(chain) /\ chain[1] \in L1Block
         /\ ProposedBefore(chain[1]) = 0
<1>1. 1 \in 1..Len(chain)
  BY GoodLast, Bounds DEF ChainOK
<1>2. chain[1] \in L1Block /\ chain[1].proposed < 1 /\ chain[1].proposed \in Nat /\ ~chain[1].proposes
  BY <1>1, GoodBlock, Bounds DEF ChainOK, GoodChain
<1>. QED
  BY <1>1, <1>2 DEF ProposedBefore, GenesisHeight

\* The block that proposed an L2 block comes after the genesis block.
LEMMA ProposedInFacts ==
  ASSUME ChainOK, NEW id \in 0..LastProposed(chain)
  PROVE  /\ ProposedIn(id) \in 1..Len(chain)
         /\ ProposedBefore(chain[ProposedIn(id)]) <= IF id = 0 THEN 0 ELSE id - 1
<1>1. CASE id = 0
  BY <1>1, Genesis DEF ProposedIn
<1>2. CASE id # 0
  <2>1. LastProposed(chain) \in 0..MaxHeight /\ setup \in Setups /\ GoodChain(chain) /\ MaxHeight \in Nat
    BY GoodLast, Bounds DEF ChainOK
  <2>2. id \in 1..LastProposed(chain)
    BY <1>2, <2>1
  <2>. DEFINE b == Proposal(chain, id)
  <2>3. ProposedIn(id) = b.h - 1
    BY <1>2, <2>1, <2>2, ProposedFacts DEF ProposedIn
  <2>4. b.h \in 2..Len(chain) /\ chain[b.h] = b /\ ProposedBefore(b) = id - 1
    BY <2>1, <2>2, ProposalFacts
  <2>5. Len(chain) \in Nat
    BY <2>1, Genesis, GoodBlock
  <2>. HIDE DEF b
  <2>6. b.h - 1 \in 1..Len(chain) /\ b.h \in 1..Len(chain) /\ b.h - 1 <= b.h
    BY <2>4, <2>5
  <2>7. ProposedBefore(chain[b.h - 1]) <= ProposedBefore(chain[b.h])
    BY <2>1, <2>6, BeforeGrows
  <2>. QED
    BY <1>2, <2>3, <2>4, <2>6, <2>7
<1>. QED
  BY <1>1, <1>2

\* The greatest element of a finite set of integers.
LEMMA MaxIn ==
  ASSUME NEW S, IsFiniteSet(S), S \subseteq Int, S # {}
  PROVE  Max(S) \in S
<1>1. PICK m \in S : \A x \in S : x <= m
  BY GreatestExists
<1>2. \A x \in S : m >= x
  BY <1>1
<1>. QED
  BY <1>2 DEF Max

\* CheckL1Reorg resets the cursor to the block of an L1Origin record that the L1
\* chain still reaches, and to the L2 block of that record, which the engine has.
LEMMA CheckL1ReorgYes ==
  ASSUME EngineOK, setup \in Setups, NEW blockID \in 0..MaxHeight,
         CheckL1Reorg(blockID).is = "yes"
  PROVE  \/ CheckL1Reorg(blockID) = Reorged(NoHeader, NoId)
         \/ \E id \in BlockIds :
              /\ origin[id] # NoOrigin /\ id <= Len(canon)
              /\ L1OriginByID(id).h <= Len(chain)
              /\ CheckL1Reorg(blockID) = Reorged(chain[L1OriginByID(id).h], id)
<1>. DEFINE ends == {k \in 0..blockID : EndsWalk(k)}
            id == Max(ends)
<1>1. blockID \in Nat /\ MaxHeight \in Nat /\ Fork \in Nat
  BY Bounds, EngineAssumption
<1>2. IsFiniteSet(ends) /\ ends \subseteq Int
  <2>1. IsFiniteSet(0..blockID)
    BY <1>1, FS_Interval
  <2>. QED
    BY <1>1, <2>1, FS_Subset
<1>3. 0 \in ends
  BY <1>1 DEF EndsWalk
<1>4. id \in ends
  BY <1>2, <1>3, MaxIn
<1>5. id \in 0..blockID /\ EndsWalk(id)
  BY <1>4
<1>6. CheckL1Reorg(blockID) =
        IF id <= Fork + 1 THEN NotReorged
        ELSE IF origin[id] = NoOrigin THEN
          IF id < blockID THEN Reorged(NoHeader, NoId) ELSE NotReorged
        ELSE IF id > Len(canon) THEN Failed
        ELSE IF id < blockID THEN Reorged(chain[L1OriginByID(id).h], id)
        ELSE NotReorged
  BY DEF CheckL1Reorg
<1>. HIDE DEF id, ends
<1>7. ~(id <= Fork + 1)
  BY <1>6 DEF NotReorged
<1>8. id \in BlockIds
  BY <1>1, <1>5, <1>7 DEF BlockIds
<1>9. CASE origin[id] = NoOrigin
  BY <1>6, <1>7, <1>9 DEF NotReorged
<1>10. CASE origin[id] # NoOrigin
  <2>1. ~(id > Len(canon)) /\ CheckL1Reorg(blockID) = Reorged(chain[L1OriginByID(id).h], id)
    BY <1>6, <1>7, <1>10 DEF NotReorged, Failed
  <2>2. Canonical(L1OriginByID(id))
    BY <1>5, <1>7, <1>10 DEF EndsWalk
  <2>3. L1OriginByID(id).h <= Len(chain)
    BY <2>2 DEF Canonical
  <2>4. Len(canon) \in Nat /\ id \in Int
    BY <1>5 DEF EngineOK
  <2>5. id <= Len(canon)
    BY <2>1, <2>4
  <2>. QED
    BY <1>8, <1>10, <2>1, <2>3, <2>5
<1>. QED
  BY <1>9, <1>10


\* Where a reorg check sets the cursor: to the genesis block, or to the block that
\* an L1Origin record or the protocol names for a block the engine has.
BackTo(cur, last) ==
  /\ last \in 0..MaxHeight /\ last <= Len(canon)
  /\ \E height \in 1..Len(chain) :
       /\ cur = chain[height]
       /\ \/ height = 1
          \/ last \in BlockIds /\ origin[last] # NoOrigin /\ height = L1OriginByID(last).h
          \/ last \in 1..LastProposed(chain) /\ height = ProposedIn(last)

\* retrievePastBlock goes back to such a block.
LEMMA RetrieveYes ==
  ASSUME ChainOK, EngineOK, NEW id \in 2..MaxHeight, retrievePastBlock(id).is = "yes"
  PROVE  \E cur, last : retrievePastBlock(id) = Reorged(cur, last) /\ BackTo(cur, last)
<1>. DEFINE ends == {r \in 0..MaxRetrieveExponent :
                       ~Readable(PastBlock(id, r)) \/ Agreed(PastBlock(id, r))}
            past == PastBlock(id, Min(ends))
            height == IF past = 0 THEN GenesisHeight
                      ELSE IF origin[past] # NoOrigin THEN L1OriginByID(past).h
                      ELSE ProposedIn(past)
<1>0. retrievePastBlock(id) =
        IF ends = {} THEN Reorged(chain[GenesisHeight], id)
        ELSE IF ~Readable(past) \/ height > Len(chain) THEN Failed
        ELSE Reorged(chain[height], past)
  BY DEF retrievePastBlock
<1>1. /\ setup \in Setups /\ GoodChain(chain) /\ MaxHeight \in Nat /\ id \in Nat
      /\ Len(chain) \in Nat /\ Len(canon) \in Nat /\ DOMAIN chain = 1..Len(chain)
  <2>1. setup \in Setups /\ GoodChain(chain)
    BY DEF ChainOK
  <2>2. chain \in Seq(L1Block) /\ canon \in Seq(L1Block)
    BY DEF ChainOK, GoodChain, EngineOK
  <2>3. MaxHeight \in Nat /\ id \in Nat
    BY <2>1, Bounds
  <2>. QED
    BY <2>1, <2>2, <2>3
<1>2. CASE ends = {}
  <2>1. 0 \in 0..MaxRetrieveExponent
    BY DriverAssumption
  <2>2. Readable(PastBlock(id, 0))
    BY <1>2, <2>1
  <2>3. 2 ^ 0 = 1
    OBVIOUS
  <2>4. PastBlock(id, 0) = id
    BY <1>1, <2>3 DEF PastBlock
  <2>5. id <= Len(canon)
    BY <2>2, <2>4 DEF Readable
  <2>6. BackTo(chain[1], id)
    BY <1>1, <2>5, Genesis DEF BackTo
  <2>. QED
    BY <1>0, <1>2, <2>6, Genesis
<1>3. CASE ends # {}
  <2>1. Readable(past) /\ ~(height > Len(chain)) /\ retrievePastBlock(id) = Reorged(chain[height], past)
    BY <1>0, <1>3 DEF Failed
  <2>2. past \in 0..id
    BY <1>1 DEF PastBlock
  <2>. HIDE DEF past
  <2>3. past \in 0..MaxHeight /\ past <= Len(canon)
    BY <1>1, <2>1, <2>2 DEF Readable
  <2>4. past # 0 => past \in BlockIds /\ past \in 1..LastProposed(chain)
    <3>. SUFFICES ASSUME past # 0 PROVE past \in BlockIds /\ past \in 1..LastProposed(chain)
      OBVIOUS
    <3>1. past \in 1..MaxHeight
      BY <1>1, <2>3
    <3>2. PICK i \in DOMAIN chain : chain[i].verified = past
      BY <2>1 DEF Readable, HasTransition
    <3>3. i \in 1..Len(chain) /\ Len(chain) \in 1..Len(chain) /\ i <= Len(chain)
      BY <1>1, <3>2, GoodLast
    <3>4. past <= chain[i].proposed
      BY <3>2, <3>3 DEF GoodChain, ChainOK
    <3>6. LastProposed(chain) = chain[Len(chain)].proposed /\ LastProposed(chain) \in 0..MaxHeight
      BY <1>1, GoodLast DEF LastProposed
    <3>7. chain[i].proposed \in 0..MaxHeight /\ chain[i].proposed <= chain[Len(chain)].proposed
      BY <1>1, <3>3, BeforeGrows, GoodBlock
    <3>5. chain[i].proposed <= LastProposed(chain) /\ chain[i].proposed \in Nat /\ LastProposed(chain) \in Nat
      BY <1>1, <3>6, <3>7
    <3>. QED
      BY <3>1, <3>4, <3>5 DEF BlockIds
  <2>5. CASE past = 0
    <3>1. height = 1
      BY <2>5 DEF GenesisHeight
    <3>2. BackTo(chain[height], past)
      BY <2>3, <3>1, Genesis DEF BackTo
    <3>. QED
      BY <2>1, <3>2
  <2>6. CASE past # 0 /\ origin[past] # NoOrigin
    <3>1. height = L1OriginByID(past).h /\ L1OriginByID(past).h \in 1..MaxHeight
      BY <2>4, <2>6, OriginBlock DEF L1Block
    <3>2. height \in 1..Len(chain)
      BY <1>1, <2>1, <3>1
    <3>3. BackTo(chain[height], past)
      BY <2>3, <2>4, <2>6, <3>1, <3>2 DEF BackTo
    <3>. QED
      BY <2>1, <3>3
  <2>7. CASE past # 0 /\ origin[past] = NoOrigin
    <3>1. height = ProposedIn(past)
      BY <2>7
    <3>2. ProposedIn(past) \in 1..Len(chain)
      BY <2>4, <2>7, ProposedInFacts, <1>1, GoodLast
    <3>3. BackTo(chain[height], past)
      BY <2>3, <2>4, <2>7, <3>1, <3>2 DEF BackTo
    <3>. QED
      BY <2>1, <3>3
  <2>. QED
    BY <2>5, <2>6, <2>7
<1>. QED
  BY <1>2, <1>3

\* A reorg check of the driver resets it to such a block, or finds no header.
LEMMA ReorgCheckYes ==
  ASSUME ChainOK, EngineOK, E.id \in BlockIds, ReorgCheck.is = "yes"
  PROVE  \/ ReorgCheck = Reorged(NoHeader, NoId)
         \/ \E cur, last : ReorgCheck = Reorged(cur, last) /\ BackTo(cur, last)
<1>1. ReorgCheck = checkReorg(E.id)
  BY DEF ReorgCheck, NotReorged
<1>2. setup \in Setups /\ GoodChain(chain) /\ MaxHeight \in Nat
  BY Bounds DEF ChainOK
<1>. DEFINE lv == LastVerified(chain)
<1>3. /\ CanMismatch
      /\ checkReorg(E.id) = IF Readable(lv) /\ Agreed(lv) THEN CheckL1Reorg(E.id - 1) ELSE retrievePastBlock(lv)
  BY <1>1 DEF checkReorg, NotReorged
<1>4. CASE Readable(lv) /\ Agreed(lv)
  <2>1. E.id - 1 \in 0..MaxHeight
    BY <1>2 DEF BlockIds
  <2>. DEFINE blockID == E.id - 1
  <2>2. CheckL1Reorg(blockID).is = "yes" /\ ReorgCheck = CheckL1Reorg(blockID)
    BY <1>1, <1>3, <1>4
  <2>. HIDE DEF blockID
  <2>3. blockID \in 0..MaxHeight
    BY <2>1 DEF blockID
  <2>4. CASE CheckL1Reorg(blockID) = Reorged(NoHeader, NoId)
    BY <2>2, <2>4
  <2>5. CASE \E id \in BlockIds :
              /\ origin[id] # NoOrigin /\ id <= Len(canon)
              /\ L1OriginByID(id).h <= Len(chain)
              /\ CheckL1Reorg(blockID) = Reorged(chain[L1OriginByID(id).h], id)
    <3>1. PICK id \in BlockIds :
              /\ origin[id] # NoOrigin /\ id <= Len(canon)
              /\ L1OriginByID(id).h <= Len(chain)
              /\ CheckL1Reorg(blockID) = Reorged(chain[L1OriginByID(id).h], id)
      BY <2>5
    <3>2. L1OriginByID(id).h \in 1..MaxHeight
      BY <3>1, OriginBlock DEF L1Block
    <3>3. Len(chain) \in Nat
      BY <1>2, Genesis, GoodBlock
    <3>4. L1OriginByID(id).h \in 1..Len(chain)
      BY <1>2, <3>1, <3>2, <3>3
    <3>5. id \in 0..MaxHeight
      BY <1>2 DEF BlockIds
    <3>6. BackTo(chain[L1OriginByID(id).h], id)
      BY <3>1, <3>4, <3>5 DEF BackTo
    <3>. QED
      BY <2>2, <3>1, <3>6
  <2>. QED
    BY <1>2, <2>2, <2>3, <2>4, <2>5, CheckL1ReorgYes
<1>5. CASE ~(Readable(lv) /\ Agreed(lv))
  <2>1. lv \in 0..MaxHeight /\ lv > Fork + 1
    BY <1>2, <1>3, GoodLast DEF CanMismatch
  <2>2. lv \in 2..MaxHeight
    BY <1>2, <2>1, EngineAssumption
  <2>3. retrievePastBlock(lv).is = "yes" /\ ReorgCheck = retrievePastBlock(lv)
    BY <1>1, <1>3, <1>5
  <2>. HIDE DEF lv
  <2>. QED
    BY <2>2, <2>3, RetrieveYes
<1>. QED
  BY <1>4, <1>5


--------------------------------------------------------------------------------
(* Every step keeps the types. *)

\* LatestL2KnownL1Header is the genesis block or the one of the newest L1Origin record.
LEMMA LatestKnown ==
  ASSUME ChainOK, EngineOK, NEW b \in LatestL2KnownL1Header
  PROVE  /\ b \in L1Block
         /\ \/ b = chain[1]
            \/ /\ headOrigin \in BlockIds /\ origin[headOrigin] # NoOrigin
               /\ b = L1OriginByID(headOrigin)
<1>1. CASE b = chain[GenesisHeight]
  BY <1>1, Genesis
<1>2. CASE headOrigin # 0 /\ b = L1OriginByID(headOrigin)
  <2>1. headOrigin \in BlockIds
    BY <1>2, Bounds DEF ChainOK, EngineOK, BlockIds
  <2>2. origin[headOrigin] # NoOrigin
    BY <1>2 DEF EngineOK
  <2>. QED
    BY <1>2, <2>1, <2>2, OriginBlock
<1>. QED
  BY <1>1, <1>2 DEF LatestL2KnownL1Header

\* The heads of a driver that starts are those of the chain and the engine.
LEMMA HeadsStart ==
  ASSUME ChainOK, EngineOK, l1Current \in LatestL2KnownL1Header,
         l1Head = Last(chain), l2Head = Len(canon), lastInserted = NoId
  PROVE  HeadsOK
<1>1. l1Current \in L1Block
  BY LatestKnown
<1>2. l1Head \in L1Block /\ l1Head.h >= FinalHeight
  BY GoodLast, Bounds DEF ChainOK
<1>3. l2Head \in 0..MaxHeight
  <2>1. Len(canon) \in Nat /\ Len(canon) <= MaxHeight /\ MaxHeight \in Nat
    BY Bounds DEF ChainOK, EngineOK
  <2>. QED
    BY <2>1
<1>. QED
  BY <1>1, <1>2, <1>3 DEF HeadsOK

\* The tracker of a driver that starts has no metadata.
LEMMA TrackerStart ==
  ASSUME tracker = FreshTracker
  PROVE  TrackerOK
BY DEF TrackerOK, FreshTracker

\* A state with the types is the first one: the chain with its final blocks.
LEMMA InitGoodChain ==
  ASSUME L1Init
  PROVE  ChainOK /\ LastProposed(chain) = Finalized
<1>1. setup \in Setups /\ base = <<>>
  BY DEF L1Init
<1>. DEFINE F == Finalized
            n == Finalized + 2
            first(h) == [h |-> h, fork |-> 0, proposes |-> h \in 2..(F + 1),
                         proposed |-> IF h = n THEN F ELSE h - 1,
                         verified |-> IF h = n THEN F ELSE 0]
<1>2. F \in Nat /\ n = F + 2 /\ n <= MaxHeight /\ MaxHeight \in Nat /\ MaxReorgs \in Nat /\ n \in Nat
      /\ n = FinalHeight
  BY <1>1, Bounds
<1>. HIDE DEF F
<1>3. chain = [h \in 1..n |-> first(h)]
  BY <1>2 DEF L1Init, F
<1>. HIDE DEF n
<1>4. \A h \in 1..n : chain[h] = first(h) /\ first(h) \in L1Block
  BY <1>2, <1>3 DEF L1Block
<1>5. \A h \in 1..n :
        /\ chain[h].h = h /\ chain[h].proposed = IF h = n THEN F ELSE h - 1
        /\ chain[h].verified = IF h = n THEN F ELSE 0
        /\ chain[h].proposes <=> h \in 2..(F + 1)
  BY <1>3
<1>. HIDE DEF first
<1>6. chain \in Seq(L1Block) /\ Len(chain) = n /\ n \in FinalHeight..MaxHeight /\ 1 \in 1..n
  <2>1. chain \in Seq(L1Block) /\ Len(chain) = n
    BY <1>2, <1>3, <1>4
  <2>. QED
    BY <1>2, <2>1
<1>7. \A h \in 1..n : chain[h].proposed \in 0..F /\ chain[h].proposed < h
  BY <1>2, <1>5
<1>8. GoodChain(chain)
  <2>1. \A h \in 1..n : chain[h].h = h /\ chain[h].proposed < h
    BY <1>5, <1>7
  <2>2. ~chain[1].proposes
    <3>1. 1 \notin 2..(F + 1)
      BY <1>2
    <3>. QED
      BY <1>5, <1>6, <3>1
  <2>3. \A h \in 2..n : ProposedBefore(chain[h]) = chain[h - 1].proposed
    <3>. TAKE h \in 2..n
    <3>1. h - 1 \in 1..n /\ h - 1 # n /\ h \in 1..n
      BY <1>2
    <3>2. chain[h - 1].proposed = h - 2
      BY <1>2, <1>5, <3>1
    <3>3. CASE h = n
      <4>2. h \notin 2..(F + 1) /\ h - 2 = F
        BY <1>2, <3>3
      <4>1. ~chain[h].proposes /\ chain[h].proposed = F /\ h - 2 = F
        BY <1>5, <3>1, <3>3, <4>2
      <4>. QED
        BY <3>2, <4>1 DEF ProposedBefore
    <3>4. CASE h # n
      <4>3. h \in 2..(F + 1)
        BY <1>2, <3>4
      <4>1. chain[h].proposes /\ chain[h].proposed = h - 1
        BY <1>5, <3>1, <3>4, <4>3
      <4>2. (h - 1) - 1 = h - 2
        BY <1>2
      <4>. QED
        BY <3>2, <4>1, <4>2 DEF ProposedBefore
    <3>. QED
      BY <3>3, <3>4
  <2>4. \A g, h \in 1..n : g <= h => chain[g].proposed <= chain[h].proposed
    <3>. SUFFICES ASSUME NEW g \in 1..n, NEW h \in 1..n, g <= h
                 PROVE  chain[g].proposed <= chain[h].proposed
      OBVIOUS
    <3>1. (IF g = n THEN F ELSE g - 1) <= (IF h = n THEN F ELSE h - 1)
      BY <1>2
    <3>. QED
      BY <1>5, <3>1
  <2>5. \A h \in 1..n : chain[h].verified <= chain[h].proposed
    <3>. TAKE h \in 1..n
    <3>1. (IF h = n THEN F ELSE 0) <= (IF h = n THEN F ELSE h - 1)
      BY <1>2
    <3>. QED
      BY <1>5, <3>1
  <2>6. \A h \in 1..n, id \in 1..MaxHeight :
          id <= chain[h].proposed => \E g \in 1..h : chain[g].proposes /\ chain[g].proposed = id
    <3>. SUFFICES ASSUME NEW h \in 1..n, NEW id \in 1..MaxHeight, id <= chain[h].proposed
                 PROVE  \E g \in 1..h : chain[g].proposes /\ chain[g].proposed = id
      OBVIOUS
    <3>1. id <= IF h = n THEN F ELSE h - 1
      BY <1>5
    <3>2. id + 1 \in 1..n /\ id + 1 \in 1..h /\ id + 1 # n /\ id + 1 \in 2..(F + 1) /\ (id + 1) - 1 = id
      BY <1>2, <3>1
    <3>3. chain[id + 1].proposes /\ chain[id + 1].proposed = id
      BY <1>5, <3>2
    <3>. QED
      BY <3>2, <3>3
  <2>. QED
    BY <1>6, <2>1, <2>2, <2>3, <2>4, <2>5, <2>6 DEF GoodChain
<1>9. base \in Seq(1..MaxHeight) /\ Len(base) \in 0..MaxReorgs
  <2>1. base \in Seq(1..MaxHeight)
    <3>. DEFINE heights == 1..MaxHeight
    <3>. HIDE DEF heights
    <3>1. base \in Seq(heights)
      BY <1>1
    <3>. QED
      BY <3>1 DEF heights
  <2>. QED
    BY <1>1, <1>2, <2>1
<1>10. n \in 1..n
  BY <1>2
<1>. QED
  BY <1>1, <1>5, <1>6, <1>8, <1>9, <1>10 DEF ChainOK, LastProposed, Last, F


\* A prefix of a chain of L2 blocks is one.
LEMMA PrefixSeq ==
  ASSUME NEW hash \in Seq(L1Block), NEW n \in 0..Len(hash)
  PROVE  /\ SubSeq(hash, 1, n) \in Seq(L1Block) /\ Len(SubSeq(hash, 1, n)) = n
         /\ \A i \in 1..n : SubSeq(hash, 1, n)[i] = hash[i]
OBVIOUS

\* The engine starts with the blocks that were verified before, and their records.
LEMMA InitEngine ==
  ASSUME ChainOK, LastProposed(chain) = Finalized, EngineInit
  PROVE  /\ EngineOK /\ target = <<>> /\ headOrigin = Len(canon)
         /\ \A id \in BlockIds :
              origin[id] # NoOrigin =>
                /\ Len(origin[id]) = id /\ id \in 1..LastProposed(chain)
                /\ L1OriginByID(id) = Proposal(chain, id)
<1>. DEFINE blocks == Proposed(chain)
            n == Synced
<1>1. /\ blocks \in Seq(L1Block) /\ Len(blocks) = Finalized
      /\ \A id \in 1..Finalized : blocks[id] = Proposal(chain, id)
  BY ProposedFacts DEF ChainOK
<1>2. n \in 0..Finalized /\ Finalized \in Nat /\ MaxHeight \in Nat /\ Finalized <= MaxHeight
  BY Bounds DEF ChainOK
<1>3. canon = SubSeq(blocks, 1, n) /\ target = <<>> /\ headOrigin = n
  BY DEF EngineInit
<1>. HIDE DEF blocks, n
<1>4. canon \in Seq(L1Block) /\ Len(canon) = n /\ \A i \in 1..n : canon[i] = blocks[i]
  BY <1>1, <1>2, <1>3, PrefixSeq
<1>5. origin = [id \in BlockIds |-> IF id <= n THEN SubSeq(canon, 1, id) ELSE <<>>]
  BY DEF EngineInit, HeaderByNumber, NoOrigin, n
<1>6. ASSUME NEW id \in BlockIds
      PROVE  /\ origin[id] \in Seq(L1Block) /\ Len(origin[id]) <= id
             /\ origin[id] # NoOrigin =>
                  /\ Len(origin[id]) = id /\ id \in 1..Finalized
                  /\ L1OriginByID(id) = Proposal(chain, id)
             /\ id <= n => Len(origin[id]) = id
  <2>1. id \in 1..MaxHeight
    BY DEF BlockIds
  <2>2. CASE id <= n
    <3>1. id \in 0..Len(canon) /\ id \in 1..id /\ id \in 1..n /\ id \in 1..Finalized
      BY <1>2, <1>4, <2>1, <2>2
    <3>2. origin[id] = SubSeq(canon, 1, id)
      BY <1>5, <2>2
    <3>3. origin[id] \in Seq(L1Block) /\ Len(origin[id]) = id /\ origin[id][id] = canon[id]
      BY <1>4, <3>1, <3>2, PrefixSeq
    <3>4. L1OriginByID(id) = Proposal(chain, id)
      BY <1>1, <1>4, <3>1, <3>3 DEF L1OriginByID, Last
    <3>. QED
      BY <2>1, <3>1, <3>3, <3>4
  <2>3. CASE ~(id <= n)
    <3>1. origin[id] = <<>>
      BY <1>5, <2>3
    <3>. QED
      BY <2>1, <2>3, <3>1 DEF NoOrigin
  <2>. QED
    BY <2>2, <2>3
<1>7. headOrigin # 0 => origin[headOrigin] # NoOrigin
  <2>. SUFFICES ASSUME headOrigin # 0 PROVE origin[headOrigin] # NoOrigin
    OBVIOUS
  <2>1. n \in BlockIds /\ n <= n /\ n # 0
    BY <1>2, <1>3 DEF BlockIds
  <2>2. Len(origin[n]) = n
    BY <1>6, <2>1
  <2>. QED
    BY <1>3, <2>1, <2>2 DEF NoOrigin
<1>8. origin \in [BlockIds -> Seq(L1Block)]
  BY <1>5, <1>6
<1>9. Len(canon) <= MaxHeight /\ headOrigin \in 0..MaxHeight /\ Len(target) <= MaxHeight
      /\ target \in Seq(L1Block)
  BY <1>2, <1>3, <1>4
<1>10. EngineOK
  BY <1>4, <1>6, <1>7, <1>8, <1>9 DEF EngineOK
<1>. QED
  BY <1>3, <1>4, <1>6, <1>10

\* The types hold in the beginning.
LEMMA InitTInv ==
  ASSUME Init
  PROVE  TInv
<1>1. ChainOK /\ LastProposed(chain) = Finalized
  BY InitGoodChain DEF Init
<1>2. EngineOK
  BY <1>1, InitEngine DEF Init
<1>3. HeadsOK
  BY <1>1, <1>2, HeadsStart DEF Init
<1>4. TrackerOK
  BY TrackerStart DEF Init
<1>5. PassOK
  <2>1. pass = [pc |-> "idle", at |-> 0, end |-> NoHeader, events |-> <<>>]
    BY DEF Init, NotPassing, Passing
  <2>2. 0 \in 0..MaxHeight /\ <<>> \in Seq(Event)
    BY <1>1, Bounds DEF ChainOK
  <2>. QED
    BY <2>1, <2>2 DEF PassOK, Runs
<1>6. faults \in 0..MaxFaults
  BY DriverAssumption DEF Init
<1>. QED
  BY <1>1, <1>2, <1>3, <1>4, <1>5, <1>6 DEF TInv

\* The heads stay when the setup does.
LEMMA HeadsSame ==
  ASSUME HeadsOK, setup' = setup, UNCHANGED <<l1Current, l1Head, l2Head, lastInserted>>
  PROVE  HeadsOK'
BY SameTypes DEF HeadsOK, FinalHeight

\* A block that is mined extends a good chain; a reorg keeps its final blocks.
LEMMA L1NextChain ==
  ASSUME ChainOK, L1Next
  PROVE  ChainOK' /\ setup' = setup
<1>1. /\ setup \in Setups /\ GoodChain(chain) /\ base \in Seq(1..MaxHeight)
      /\ Len(base) \in 0..MaxReorgs /\ MaxReorgs \in Nat /\ MaxHeight \in Nat
  BY Bounds DEF ChainOK
<1>2. setup' = setup
  BY DEF L1Next, Mine, Reorg
<1>3. CASE Mine
  <2>1. PICK p \in BOOLEAN, v \in Verifiable(chain) : chain' = NewBlock(chain, Len(base), p, v)
    BY <1>3 DEF Mine
  <2>2. GoodChain(chain')
    BY <1>1, <1>3, <2>1, GoodAppend DEF Mine
  <2>3. GoodChain(chain)'
    BY <1>2, <2>2, SameTypes DEF GoodChain, FinalHeight
  <2>4. base' = base
    BY <1>3 DEF Mine
  <2>. QED
    BY <1>1, <1>2, <2>3, <2>4, SameTypes DEF ChainOK
<1>4. CASE Reorg
  <2>1. PICK depth \in 1..MaxDepth :
          /\ Len(chain) - depth >= FinalHeight
          /\ base' = Append(base, Len(chain) - depth)
          /\ \E p \in BOOLEAN, v \in Verifiable(SubSeq(chain, 1, Len(chain) - depth)) :
               chain' = NewBlock(SubSeq(chain, 1, Len(chain) - depth), Len(base'), p, v)
    BY <1>4 DEF Reorg
  <2>. DEFINE kept == Len(chain) - depth
  <2>2. Len(chain) \in FinalHeight..MaxHeight /\ FinalHeight \in Nat /\ 2 <= FinalHeight
    BY <1>1, GoodLast, Bounds
  <2>3. depth \in Nat /\ depth >= 1
    BY L1Assumption
  <2>4. kept \in FinalHeight..Len(chain) /\ kept < MaxHeight /\ kept \in 1..MaxHeight
    BY <1>1, <2>1, <2>2, <2>3
  <2>5. /\ base' \in Seq(1..MaxHeight) /\ Len(base') = Len(base) + 1
        /\ Len(base') \in 0..MaxReorgs
    <3>. DEFINE heights == 1..MaxHeight
    <3>1. base \in Seq(heights) /\ kept \in heights /\ base' = Append(base, kept)
      BY <1>1, <2>1, <2>4
    <3>. HIDE DEF heights, kept
    <3>2. base' \in Seq(heights) /\ Len(base') = Len(base) + 1
      BY <3>1
    <3>3. Len(base) < MaxReorgs
      BY <1>4 DEF Reorg
    <3>. QED
      BY <1>1, <3>2, <3>3 DEF heights
  <2>. DEFINE rest == SubSeq(chain, 1, kept)
  <2>. HIDE DEF kept
  <2>6. GoodChain(rest) /\ Len(rest) = kept
    BY <1>1, <2>4, GoodPrefix
  <2>7. PICK p \in BOOLEAN, v \in Verifiable(rest) : chain' = NewBlock(rest, Len(base'), p, v)
    BY <2>1 DEF kept
  <2>. HIDE DEF rest
  <2>8. GoodChain(chain')
    BY <1>1, <2>4, <2>5, <2>6, <2>7, GoodAppend
  <2>9. GoodChain(chain)'
    BY <1>2, <2>8, SameTypes DEF GoodChain, FinalHeight
  <2>. QED
    BY <1>1, <1>2, <2>5, <2>9, SameTypes DEF ChainOK
<1>. QED
  BY <1>2, <1>3, <1>4 DEF L1Next

\* The chain and the engine move next to the driver.
LEMMA WorldTInv ==
  ASSUME TInv,
         \/ L1Next /\ UNCHANGED <<engineVars, driverVars, faults>>
         \/ BeaconSynced /\ UNCHANGED <<l1Vars, driverVars, faults>>
         \/ UpdateL1Head \/ UpdateL2Head \/ Track
         \/ UNCHANGED vars
  PROVE  TInv'
<1>. USE DEF TInv
<1>1. CASE L1Next /\ UNCHANGED <<engineVars, driverVars, faults>>
  BY <1>1, L1NextChain, EngineSame, HeadsSame, TrackerSame, PassSame DEF driverVars
<1>2. CASE BeaconSynced /\ UNCHANGED <<l1Vars, driverVars, faults>>
  <2>1. setup' = setup
    BY <1>2 DEF l1Vars
  <2>2. canon' = target /\ target' = <<>> /\ UNCHANGED <<origin, headOrigin>>
    BY <1>2 DEF BeaconSynced
  <2>3. 0 <= MaxHeight
    BY Bounds DEF ChainOK
  <2>4. EngineOK'
    BY <2>1, <2>2, <2>3, SameTypes DEF EngineOK
  <2>. QED
    BY <1>2, <2>1, <2>4, ChainSame, HeadsSame, TrackerSame, PassSame DEF driverVars
<1>3. CASE UpdateL1Head
  <2>1. setup' = setup /\ UNCHANGED l1Vars /\ UNCHANGED engineVars
    BY <1>3 DEF UpdateL1Head, l1Vars, engineVars
  <2>2. Last(chain) \in L1Block /\ Last(chain).h >= FinalHeight
    BY GoodLast, Bounds DEF ChainOK
  <2>3. HeadsOK'
    BY <1>3, <2>1, <2>2, SameTypes DEF HeadsOK, UpdateL1Head, FinalHeight
  <2>. QED
    BY <1>3, <2>1, <2>3, ChainSame, EngineSame, TrackerSame, PassSame DEF UpdateL1Head
<1>4. CASE UpdateL2Head
  <2>1. setup' = setup /\ UNCHANGED l1Vars /\ UNCHANGED engineVars
    BY <1>4 DEF UpdateL2Head, l1Vars, engineVars
  <2>2. Len(canon) \in 0..MaxHeight
    <3>1. Len(canon) \in Nat /\ Len(canon) <= MaxHeight /\ MaxHeight \in Nat
      BY Bounds DEF ChainOK, EngineOK
    <3>. QED
      BY <3>1
  <2>3. HeadsOK'
    BY <1>4, <2>1, <2>2, SameTypes DEF HeadsOK, UpdateL2Head, FinalHeight
  <2>. QED
    BY <1>4, <2>1, <2>3, ChainSame, EngineSame, TrackerSame, PassSame DEF UpdateL2Head
<1>5. CASE Track
  <2>1. setup' = setup /\ UNCHANGED l1Vars /\ UNCHANGED engineVars
    BY <1>5 DEF Track, l1Vars, engineVars
  <2>2. \/ tracker' = [tracker EXCEPT !.progressed = TRUE]
        \/ tracker' = [tracker EXCEPT !.outOfSync = TRUE, !.progressed = target # <<>>]
    BY <1>5 DEF Track
  <2>3. TrackerOK'
    BY <2>1, <2>2, SameTypes DEF TrackerOK
  <2>. QED
    BY <1>5, <2>1, <2>3, ChainSame, EngineSame, HeadsSame, PassSame DEF Track
<1>6. CASE UNCHANGED vars
  <2>1. setup' = setup /\ UNCHANGED l1Vars /\ UNCHANGED engineVars
    BY <1>6 DEF vars, l1Vars, engineVars
  <2>. QED
    BY <1>6, <2>1, ChainSame, EngineSame, HeadsSame, TrackerSame, PassSame DEF vars, driverVars
<1>. QED
  BY <1>1, <1>2, <1>3, <1>4, <1>5, <1>6


\* The block to sync to is one that the protocol has.
LEMMA BlockIDToSyncFacts ==
  ASSUME ChainOK
  PROVE  BlockIDToSync \in 0..LastProposed(chain) /\ LastProposed(chain) \in 0..MaxHeight
<1>1. /\ LastProposed(chain) \in 0..MaxHeight /\ LastVerified(chain) \in 0..MaxHeight
      /\ LastVerified(chain) <= LastProposed(chain) /\ MaxHeight \in Nat
  BY GoodLast, Bounds DEF ChainOK
<1>. QED
  BY <1>1 DEF BlockIDToSync

\* A beacon sync goes to a block of the protocol.
LEMMA TriggerTInv ==
  ASSUME TInv, TriggerBeaconSync
  PROVE  TInv'
<1>. USE DEF TInv
<1>. DEFINE n == BlockIDToSync
            hash == SubSeq(Proposed(chain), 1, n)
<1>1. setup' = setup /\ UNCHANGED l1Vars /\ MaxHeight \in Nat
  BY Bounds DEF TriggerBeaconSync, l1Vars, ChainOK
<1>2. hash \in Seq(L1Block) /\ Len(hash) = n /\ n \in 0..MaxHeight /\ n <= MaxHeight
  <2>1. /\ Proposed(chain) \in Seq(L1Block) /\ Len(Proposed(chain)) = LastProposed(chain)
        /\ n \in 0..LastProposed(chain) /\ LastProposed(chain) \in 0..MaxHeight
    BY ProposedFacts, BlockIDToSyncFacts DEF ChainOK
  <2>. HIDE DEF n
  <2>2. hash \in Seq(L1Block) /\ Len(hash) = n
    BY <2>1, PrefixSeq
  <2>. QED
    BY <1>1, <2>1, <2>2
<1>. HIDE DEF n
<1>3. \/ SetHead(hash) /\ UNCHANGED tracker
      \/ StartBeaconSync(hash) /\ tracker' = UpdateMeta(tracker, hash)
  BY DEF TriggerBeaconSync, n
<1>. HIDE DEF hash
<1>4. EngineOK'
  <2>1. UNCHANGED <<origin, headOrigin>>
    BY <1>3 DEF SetHead, StartBeaconSync
  <2>2. canon' \in {canon, hash} /\ target' \in {<<>>, hash}
    BY <1>3 DEF SetHead, StartBeaconSync
  <2>3. <<>> \in Seq(L1Block) /\ Len(<<>>) <= MaxHeight
    BY <1>1
  <2>4. canon' \in Seq(L1Block) /\ Len(canon') <= MaxHeight
    BY <1>2, <2>2 DEF EngineOK
  <2>5. target' \in Seq(L1Block) /\ Len(target') <= MaxHeight
    BY <1>2, <2>2, <2>3
  <2>. QED
    BY <1>1, <2>1, <2>4, <2>5, SameTypes DEF EngineOK
<1>5. TrackerOK'
  <2>1. CASE tracker' = tracker
    BY <1>1, <2>1, TrackerSame
  <2>2. CASE tracker' = UpdateMeta(tracker, hash)
    BY <1>1, <1>2, <2>2, SameTypes DEF TrackerOK, UpdateMeta
  <2>. QED
    BY <1>3, <2>1, <2>2
<1>. QED
  BY <1>1, <1>4, <1>5, ChainSame, HeadsSame, PassSame DEF TriggerBeaconSync

\* After a beacon sync the tracker holds the engine's head.
LEMMA SyncTInv ==
  ASSUME TInv, Sync
  PROVE  TInv'
<1>. USE DEF TInv
<1>1. setup' = setup /\ UNCHANGED l1Vars /\ UNCHANGED engineVars /\ setup \in Setups /\ MaxHeight \in Nat
      /\ UNCHANGED <<l1Head, l2Head, lastInserted, faults>>
  BY Bounds DEF Sync, l1Vars, engineVars, ChainOK
<1>2. CASE Go("process") /\ UNCHANGED <<l1Current, tracker>>
  BY <1>1, <1>2, PassGo, ChainSame, EngineSame, HeadsSame, TrackerSame
<1>3. CASE /\ tracker.triggered
           /\ tracker' = [tracker EXCEPT !.finished = TRUE] /\ UNCHANGED <<l1Current, pass>>
  <2>1. TrackerOK'
    BY <1>1, <1>3, SameTypes DEF TrackerOK
  <2>. QED
    BY <1>1, <1>3, <2>1, PassSame, ChainSame, EngineSame, HeadsSame
<1>4. CASE /\ ~(Len(canon) > LastProposed(chain))
           /\ l1Current' = chain[ProposedIn(Len(canon))]
           /\ tracker' = UpdateMeta([tracker EXCEPT !.finished = TRUE], canon)
           /\ Go("process")
  <2>1. Len(canon) \in Nat /\ Len(canon) <= MaxHeight /\ canon \in Seq(L1Block)
    BY DEF EngineOK
  <2>2. Len(canon) \in 0..LastProposed(chain) /\ Len(canon) \in 0..MaxHeight
    BY <1>1, <1>4, <2>1, GoodLast DEF ChainOK
  <2>3. ProposedIn(Len(canon)) \in 1..Len(chain)
    BY <2>2, ProposedInFacts
  <2>4. l1Current' \in L1Block
    BY <1>4, <2>3, GoodBlock DEF ChainOK
  <2>5. HeadsOK'
    BY <1>1, <2>4, SameTypes DEF HeadsOK, FinalHeight
  <2>6. TrackerOK'
    BY <1>1, <1>4, <2>1, <2>2, SameTypes DEF TrackerOK, UpdateMeta
  <2>. QED
    BY <1>1, <1>4, <2>5, <2>6, PassGo, ChainSame, EngineSame
<1>. QED
  BY <1>2, <1>3, <1>4 DEF Sync

\* A pass starts at a block of the chain.
LEMMA ProcessTInv ==
  ASSUME TInv, processL1Blocks
  PROVE  TInv'
<1>. USE DEF TInv
<1>. DEFINE behind == l1Current.h >= l1Head.h /\ l1Current # l1Head
            cur == IF behind THEN chain[l1Head.h - 1] ELSE l1Current
<1>1. setup' = setup /\ UNCHANGED l1Vars /\ UNCHANGED engineVars /\ setup \in Setups /\ MaxHeight \in Nat
      /\ UNCHANGED <<l1Head, l2Head, tracker, faults>>
  BY Bounds DEF processL1Blocks, l1Vars, engineVars, ChainOK
<1>2. IF behind /\ l1Head.h - 1 > Len(chain)
      THEN Go("idle") /\ UNCHANGED <<l1Current, lastInserted>>
      ELSE /\ l1Current' = cur
           /\ lastInserted' = IF behind THEN NoId ELSE lastInserted
           /\ IF l1Head.h > Len(chain) THEN Go("idle")
              ELSE pass' = Passing(cur.h, l1Head, <<>>)
  BY DEF processL1Blocks
<1>3. CASE behind /\ l1Head.h - 1 > Len(chain)
  BY <1>1, <1>2, <1>3, PassGo, ChainSame, EngineSame, HeadsSame, TrackerSame
<1>4. CASE ~(behind /\ l1Head.h - 1 > Len(chain))
  <2>1. cur \in L1Block
    <3>1. CASE ~behind
      BY <3>1 DEF HeadsOK
    <3>2. CASE behind
      <4>1. l1Head.h \in 1..MaxHeight /\ l1Head.h >= FinalHeight /\ ~(l1Head.h - 1 > Len(chain))
        BY <1>4, <3>2 DEF HeadsOK, L1Block
      <4>2. Len(chain) \in Nat /\ 2 <= FinalHeight /\ FinalHeight \in Nat
        BY GoodLast, Bounds DEF ChainOK
      <4>3. l1Head.h - 1 \in 1..Len(chain)
        BY <1>1, <4>1, <4>2
      <4>4. chain[l1Head.h - 1] \in L1Block
        BY <4>3, GoodBlock DEF ChainOK
      <4>. QED
        BY <3>2, <4>4
    <3>. QED
      BY <3>1, <3>2
  <2>2. l1Current' = cur /\ lastInserted' \in {NoId, lastInserted}
        /\ (Go("idle") \/ pass' = Passing(cur.h, l1Head, <<>>))
    BY <1>2, <1>4
  <2>. HIDE DEF cur, behind
  <2>3. HeadsOK'
    BY <1>1, <2>1, <2>2, SameTypes DEF HeadsOK, FinalHeight
  <2>4. PassOK'
    <3>1. CASE Go("idle")
      BY <1>1, <3>1, PassGo
    <3>2. CASE pass' = Passing(cur.h, l1Head, <<>>)
      <4>1. cur.h \in 1..MaxHeight /\ l1Head \in L1Block
        BY <2>1 DEF HeadsOK, L1Block
      <4>2. cur.h \in 0..MaxHeight /\ cur.h >= 1
        BY <1>1, <4>1
      <4>3. <<>> \in Seq(Event)
        OBVIOUS
      <4>4. pass' = [pc |-> "iter", at |-> cur.h, end |-> l1Head, events |-> <<>>]
        BY <3>2 DEF Passing
      <4>. QED
        BY <1>1, <4>1, <4>2, <4>3, <4>4, SameTypes DEF PassOK
    <3>. QED
      BY <2>2, <3>1, <3>2
  <2>. QED
    BY <1>1, <2>3, <2>4, ChainSame, EngineSame, TrackerSame
<1>. QED
  BY <1>3, <1>4


\* The iterator reads the proposals between two counts, in their order.
LEMMA EventsFacts ==
  ASSUME ChainOK, NEW from \in 1..Len(chain), NEW to \in 1..Len(chain), from <= to
  PROVE  /\ EventsBetween(from, to) \in Seq(Event)
         /\ ProposedBefore(chain[from]) \in Nat /\ chain[to].proposed \in Nat
         /\ Len(EventsBetween(from, to)) = chain[to].proposed - ProposedBefore(chain[from])
         /\ \A i \in 1..Len(EventsBetween(from, to)) :
              /\ ProposedBefore(chain[from]) + i \in 1..LastProposed(chain)
              /\ EventsBetween(from, to)[i] =
                   [id |-> ProposedBefore(chain[from]) + i,
                    in |-> Proposal(chain, ProposedBefore(chain[from]) + i)]
<1>. DEFINE low == ProposedBefore(chain[from])
            high == chain[to].proposed
            n == high - low
            ev == [i \in 1..n |-> [id |-> low + i, in |-> Proposal(chain, low + i)]]
<1>1. setup \in Setups /\ GoodChain(chain) /\ MaxHeight \in Nat
  BY Bounds DEF ChainOK
<1>2. EventsBetween(from, to) = ev
  BY DEF EventsBetween, Events
<1>3. low \in 0..MaxHeight /\ high \in 0..MaxHeight /\ low <= high
  <2>1. low \in 0..MaxHeight /\ chain[from].proposed \in 0..MaxHeight /\ low <= chain[from].proposed
    BY <1>1, GoodBlock
  <2>2. high \in 0..MaxHeight /\ chain[from].proposed <= high
    BY <1>1, GoodBlock, BeforeGrows
  <2>. HIDE DEF low, high
  <2>. DEFINE mid == chain[from].proposed
  <2>3. mid \in 0..MaxHeight /\ low <= mid /\ mid <= high
    BY <2>1, <2>2
  <2>. HIDE DEF mid
  <2>. QED
    BY <1>1, <2>1, <2>2, <2>3
<1>4. high <= LastProposed(chain) /\ LastProposed(chain) \in 0..MaxHeight
  <2>1. Len(chain) \in 1..Len(chain) /\ LastProposed(chain) = chain[Len(chain)].proposed
    BY <1>1, GoodLast DEF LastProposed
  <2>2. to <= Len(chain)
    BY <2>1
  <2>. QED
    BY <1>1, <2>1, <2>2, BeforeGrows, GoodLast
<1>. HIDE DEF low, high
<1>5. n \in Nat
  BY <1>1, <1>3
<1>6. ASSUME NEW i \in 1..n
      PROVE  /\ low + i \in 1..LastProposed(chain)
             /\ [id |-> low + i, in |-> Proposal(chain, low + i)] \in Event
  <2>1. low + i \in 1..LastProposed(chain)
    BY <1>1, <1>3, <1>4
  <2>. DEFINE id == low + i
  <2>2. id \in 1..LastProposed(chain)
    BY <2>1
  <2>. HIDE DEF id
  <2>3. Proposal(chain, id) \in L1Block /\ id \in BlockIds
    BY <1>1, <2>2, ProposalFacts DEF BlockIds
  <2>. QED
    BY <2>1, <2>3 DEF Event, id
<1>. HIDE DEF n
<1>7. ev \in Seq(Event) /\ Len(ev) = n /\ DOMAIN ev = 1..n
  BY <1>5, <1>6
<1>8. \A i \in 1..n : ev[i] = [id |-> low + i, in |-> Proposal(chain, low + i)]
  OBVIOUS
<1>. HIDE DEF ev
<1>. QED
  BY <1>1, <1>2, <1>3, <1>6, <1>7, <1>8 DEF n, low, high

\* A range is read once the chain has it, and a pass ends at its end.
LEMMA IterTInv ==
  ASSUME TInv, FetchEvents \/ FinishPass \/ CallbackError
  PROVE  TInv'
<1>. USE DEF TInv
<1>1. setup' = setup /\ UNCHANGED l1Vars /\ UNCHANGED engineVars /\ setup \in Setups /\ MaxHeight \in Nat
      /\ UNCHANGED <<l1Head, l2Head, lastInserted, tracker, faults>>
  BY Bounds DEF FetchEvents, FinishPass, CallbackError, l1Vars, engineVars, ChainOK
<1>2. CASE FetchEvents
  <2>1. /\ pass.pc = "iter" /\ pass.at < pass.end.h /\ pass.end.h <= Len(chain)
        /\ pass' = [pass EXCEPT !.pc = "events", !.events = EventsBetween(pass.at, pass.end.h)]
        /\ l1Current' = l1Current
    BY <1>2 DEF FetchEvents
  <2>2. pass.end \in L1Block /\ pass.at \in 0..MaxHeight /\ pass.at >= 1
    BY <2>1 DEF PassOK, Runs
  <2>3. pass.end.h \in 1..MaxHeight /\ Len(chain) \in Nat
    BY <2>2, GoodBlock, Genesis DEF L1Block, ChainOK
  <2>. DEFINE at == pass.at
              to == pass.end.h
  <2>4. at \in 1..Len(chain) /\ to \in 1..Len(chain) /\ at <= to
    <3>1. at \in 0..MaxHeight /\ at >= 1 /\ to \in 1..MaxHeight /\ at < to /\ to <= Len(chain)
          /\ Len(chain) \in Nat
      BY <2>1, <2>2, <2>3
    <3>. HIDE DEF at, to
    <3>. QED
      BY <1>1, <3>1
  <2>. HIDE DEF at, to
  <2>5. EventsBetween(at, to) \in Seq(Event)
    BY <2>4, EventsFacts
  <2>6. PassOK'
    BY <1>1, <2>1, <2>2, <2>5, SameTypes DEF PassOK, Runs, at, to
  <2>. QED
    BY <1>1, <2>1, <2>6, ChainSame, EngineSame, HeadsSame, TrackerSame
<1>3. CASE FinishPass
  <2>1. Runs /\ l1Current' = pass.end /\ Go("idle")
    BY <1>3 DEF FinishPass, Runs
  <2>2. pass.end \in L1Block
    BY <2>1 DEF PassOK
  <2>3. HeadsOK'
    BY <1>1, <2>1, <2>2, SameTypes DEF HeadsOK, FinalHeight
  <2>. QED
    BY <1>1, <2>1, <2>3, PassGo, ChainSame, EngineSame, TrackerSame
<1>4. CASE CallbackError
  <2>1. /\ Runs /\ pass' = [pc |-> "iter", at |-> pass.at, end |-> pass.end, events |-> <<>>]
        /\ l1Current' = l1Current
    BY <1>4 DEF CallbackError, Handling, Runs, Passing
  <2>2. PassOK'
    <3>1. <<>> \in Seq(Event)
      OBVIOUS
    <3>. QED
      BY <1>1, <2>1, <3>1, SameTypes DEF PassOK, Runs
  <2>. QED
    BY <1>1, <2>1, <2>2, ChainSame, EngineSame, HeadsSame, TrackerSame
<1>. QED
  BY <1>2, <1>3, <1>4

\* The event that is handled.
LEMMA HandledEvent ==
  ASSUME PassOK, Handling \/ pass.pc = "setHead"
  PROVE  /\ Runs /\ E \in Event /\ E.id \in BlockIds /\ E.in \in L1Block
         /\ Tail(pass.events) \in Seq(Event) /\ E = pass.events[1]
         /\ Len(pass.events) \in Nat /\ Len(pass.events) >= 1
         /\ Len(Tail(pass.events)) = Len(pass.events) - 1
         /\ \A i \in 1..(Len(pass.events) - 1) : Tail(pass.events)[i] = pass.events[i + 1]
<1>1. Runs
  BY DEF Handling, Runs
<1>2. pass.events \in Seq(Event) /\ pass.events # <<>>
  BY DEF PassOK, Handling
<1>. DEFINE ev == pass.events
<1>3. ev \in Seq(Event) /\ ev # <<>>
  BY <1>2
<1>. HIDE DEF ev
<1>4. /\ Head(ev) = ev[1] /\ ev[1] \in Event /\ Tail(ev) \in Seq(Event) /\ Len(ev) \in Nat /\ Len(ev) >= 1
      /\ Len(Tail(ev)) = Len(ev) - 1
      /\ \A i \in 1..(Len(ev) - 1) : Tail(ev)[i] = ev[i + 1]
  <2>1. Len(ev) \in Nat /\ Len(ev) >= 1
    BY <1>3
  <2>2. Head(ev) = ev[1] /\ ev[1] \in Event
    BY <1>3, <2>1
  <2>3. Tail(ev) \in Seq(Event) /\ Len(Tail(ev)) = Len(ev) - 1
    BY <1>3, <2>1
  <2>4. \A i \in 1..(Len(ev) - 1) : Tail(ev)[i] = ev[i + 1]
    BY <1>3, <2>1
  <2>. QED
    BY <2>1, <2>2, <2>3, <2>4
<1>5. E \in Event /\ E = ev[1]
  BY <1>4 DEF E, ev
<1>6. E.id \in BlockIds /\ E.in \in L1Block
  BY <1>5 DEF Event
<1>. QED
  BY <1>1, <1>4, <1>5, <1>6 DEF ev

\* The next event of a range.
LEMMA NextPassOK ==
  ASSUME PassOK, setup \in Setups, setup' = setup, Handling \/ pass.pc = "setHead", NextEvent
  PROVE  /\ PassOK' /\ pass'.pc = "events" /\ pass'.events = Tail(pass.events)
         /\ pass'.end = pass.end /\ pass'.at = E.in.h
<1>1. /\ Runs /\ E.in \in L1Block /\ Tail(pass.events) \in Seq(Event)
  BY HandledEvent
<1>2. E.in.h \in 0..MaxHeight /\ E.in.h >= 1
  <2>. DEFINE b == E.in
  <2>1. b \in L1Block
    BY <1>1
  <2>. HIDE DEF b
  <2>2. b.h \in 1..MaxHeight /\ MaxHeight \in Nat
    BY <2>1, Bounds DEF L1Block
  <2>. QED
    BY <2>2 DEF b
<1>3. pass' = [pass EXCEPT !.pc = "events", !.at = E.in.h, !.events = Tail(pass.events)]
  BY DEF NextEvent
<1>4. pass \in [pc : {"idle", "process", "iter", "events", "setHead", "panic"}, at : 0..MaxHeight,
                end : L1Block \cup {NoHeader}, events : Seq(Event)]
      /\ pass.end \in L1Block
  BY <1>1 DEF PassOK
<1>. QED
  BY <1>1, <1>2, <1>3, <1>4, SameTypes DEF PassOK, Runs


\* A reset goes to a block of the chain, and to a block the engine has.
LEMMA ResetTInv ==
  ASSUME TInv, ResetOnReorg
  PROVE  TInv'
<1>. USE DEF TInv
<1>1. setup' = setup /\ UNCHANGED l1Vars /\ UNCHANGED engineVars /\ setup \in Setups
      /\ UNCHANGED <<l1Head, l2Head, tracker, faults>>
  BY DEF ResetOnReorg, l1Vars, engineVars, ChainOK
<1>2. /\ Handling /\ ReorgCheck.is = "yes"
      /\ \/ Go("panic") /\ UNCHANGED <<l1Current, lastInserted>>
         \/ /\ ReorgCheck.cur # NoHeader
            /\ l1Current' = ReorgCheck.cur /\ lastInserted' = ReorgCheck.last
            /\ Go("process")
  BY DEF ResetOnReorg
<1>3. CASE Go("panic") /\ UNCHANGED <<l1Current, lastInserted>>
  BY <1>1, <1>3, PassGo, ChainSame, EngineSame, HeadsSame, TrackerSame
<1>4. CASE /\ ReorgCheck.cur # NoHeader
           /\ l1Current' = ReorgCheck.cur /\ lastInserted' = ReorgCheck.last
           /\ Go("process")
  <2>1. E.id \in BlockIds
    BY <1>2, HandledEvent
  <2>2. PICK cur, last : ReorgCheck = Reorged(cur, last) /\ BackTo(cur, last)
    BY <1>2, <1>4, <2>1, ReorgCheckYes DEF Reorged
  <2>3. l1Current' = cur /\ lastInserted' = last
    BY <1>4, <2>2 DEF Reorged
  <2>4. cur \in L1Block /\ last \in 0..MaxHeight
    BY <2>2, GoodBlock DEF BackTo, ChainOK
  <2>5. HeadsOK'
    BY <1>1, <2>3, <2>4, SameTypes DEF HeadsOK, FinalHeight
  <2>. QED
    BY <1>1, <1>4, <2>5, PassGo, ChainSame, EngineSame, TrackerSame
<1>. QED
  BY <1>2, <1>3, <1>4

\* An inserted block is passed over.
LEMMA SkipTInv ==
  ASSUME TInv, SkipInserted
  PROVE  TInv'
<1>. USE DEF TInv
<1>1. setup' = setup /\ UNCHANGED l1Vars /\ UNCHANGED engineVars /\ setup \in Setups
      /\ UNCHANGED <<l1Current, l1Head, l2Head, lastInserted, tracker, faults>>
      /\ Handling /\ NextEvent
  BY DEF SkipInserted, l1Vars, engineVars, ChainOK
<1>. QED
  BY <1>1, NextPassOK, ChainSame, EngineSame, HeadsSame, TrackerSame

\* What a block of an id may be built on has a smaller number.
LEMMA ParentFacts ==
  ASSUME ChainOK, EngineOK, TrackerOK, NEW id \in BlockIds, NEW parent,
         IF tracker.triggered THEN parent = tracker.hash /\ ~(id <= tracker.id)
                              ELSE parent \in L2ParentByBlockID(id)
  PROVE  /\ parent \in Seq(L1Block) /\ Len(parent) \in Nat /\ Len(parent) + 1 <= id
         /\ ~tracker.triggered =>
              \/ Len(parent) = id - 1
              \/ id - 1 \in BlockIds /\ origin[id - 1] # NoOrigin /\ parent = origin[id - 1]
<1>0. id \in 1..MaxHeight /\ MaxHeight \in Nat
  BY Bounds DEF ChainOK, BlockIds
<1>1. CASE tracker.triggered
  <2>1. parent \in Seq(L1Block) /\ tracker.id = Len(parent) /\ ~(id <= tracker.id)
    BY <1>1 DEF TrackerOK
  <2>2. Len(parent) \in Nat /\ ~(id <= Len(parent))
    BY <2>1
  <2>. QED
    BY <1>0, <1>1, <2>1, <2>2
<1>2. CASE ~tracker.triggered
  <2>1. parent \in L2ParentByBlockID(id)
    BY <1>2
  <2>2. CASE id = 1
    <3>1. parent = <<>>
      BY <2>1, <2>2 DEF L2ParentByBlockID
    <3>. QED
      BY <1>2, <2>2, <3>1
  <2>3. CASE id # 1 /\ origin[id - 1] # NoOrigin
    <3>. DEFINE k == id - 1
    <3>1. parent = origin[k] /\ origin[k] # NoOrigin
      BY <2>1, <2>3 DEF L2ParentByBlockID
    <3>2. k \in BlockIds /\ k + 1 = id /\ k \in Nat
      BY <1>0, <2>3 DEF BlockIds
    <3>3. id - 1 = k
      OBVIOUS
    <3>. HIDE DEF k
    <3>4. origin[k] \in Seq(L1Block) /\ Len(origin[k]) <= k
      BY <3>2 DEF EngineOK
    <3>5. parent \in Seq(L1Block) /\ Len(parent) \in Nat /\ Len(parent) <= k
      BY <3>1, <3>4
    <3>. QED
      BY <3>1, <3>2, <3>3, <3>5
  <2>4. CASE id # 1 /\ origin[id - 1] = NoOrigin
    <3>1. parent = HeaderByNumber(id - 1) /\ id - 1 <= Len(canon)
      BY <2>1, <2>4 DEF L2ParentByBlockID
    <3>2. canon \in Seq(L1Block) /\ Len(canon) \in Nat
      BY DEF EngineOK
    <3>. DEFINE k == id - 1
    <3>3. k \in 0..Len(canon) /\ k + 1 = id
      BY <1>0, <2>4, <3>1, <3>2
    <3>. HIDE DEF k
    <3>4. parent = SubSeq(canon, 1, k)
      BY <3>1 DEF HeaderByNumber, k
    <3>5. parent \in Seq(L1Block) /\ Len(parent) = k
      BY <3>2, <3>3, <3>4, PrefixSeq
    <3>6. k = id - 1
      BY DEF k
    <3>. QED
      BY <1>2, <3>2, <3>3, <3>5, <3>6
  <2>. QED
    BY <2>2, <2>3, <2>4
<1>. QED
  BY <1>1, <1>2

\* The block that is built, and its record.
LEMMA BuildFacts ==
  ASSUME ChainOK, EngineOK, TrackerOK, PassOK, BuildBlock
  PROVE  /\ setup' = setup /\ UNCHANGED <<l1Vars, canon, target, l1Current, l1Head, l2Head>>
         /\ UNCHANGED <<lastInserted, tracker, faults>>
         /\ Handling /\ pass' = [pass EXCEPT !.pc = "setHead"]
         /\ headOrigin' = E.id
         /\ \E parent :
              /\ origin' = [origin EXCEPT ![E.id] = Append(parent, E.in)]
              /\ parent \in Seq(L1Block) /\ Len(parent) \in Nat /\ Len(parent) + 1 <= E.id
              /\ ~tracker.triggered =>
                   \/ Len(parent) = E.id - 1
                   \/ E.id - 1 \in BlockIds /\ origin[E.id - 1] # NoOrigin /\ parent = origin[E.id - 1]
<1>1. PICK parent \in Parents : BuildPayload(E.id, parent, E.in)
  BY DEF BuildBlock
<1>2. E.id \in BlockIds
  BY HandledEvent DEF BuildBlock
<1>3. IF tracker.triggered THEN parent = tracker.hash /\ ~(E.id <= tracker.id)
                           ELSE parent \in L2ParentByBlockID(E.id)
  BY <1>1 DEF BuildBlock, Parents, AlreadyInserted
<1>. DEFINE id == E.id
<1>4. /\ parent \in Seq(L1Block) /\ Len(parent) \in Nat /\ Len(parent) + 1 <= id
      /\ ~tracker.triggered =>
           \/ Len(parent) = id - 1
           \/ id - 1 \in BlockIds /\ origin[id - 1] # NoOrigin /\ parent = origin[id - 1]
  <2>1. id \in BlockIds /\ (IF tracker.triggered THEN parent = tracker.hash /\ ~(id <= tracker.id)
                                                ELSE parent \in L2ParentByBlockID(id))
    BY <1>2, <1>3
  <2>. HIDE DEF id
  <2>. QED
    BY <2>1, ParentFacts
<1>5. /\ origin' = [origin EXCEPT ![E.id] = Append(parent, E.in)]
      /\ headOrigin' = E.id /\ UNCHANGED <<canon, target>>
  BY <1>1 DEF BuildPayload
<1>6. /\ setup' = setup /\ UNCHANGED <<l1Vars, l1Current, l1Head, l2Head>>
      /\ UNCHANGED <<lastInserted, tracker, faults>>
      /\ Handling /\ pass' = [pass EXCEPT !.pc = "setHead"]
  BY DEF BuildBlock, l1Vars
<1>. QED
  BY <1>4, <1>5, <1>6

\* A block is built, with its L1Origin record.
LEMMA BuildTInv ==
  ASSUME TInv, BuildBlock
  PROVE  TInv'
<1>. USE DEF TInv
<1>1. PICK parent :
        /\ origin' = [origin EXCEPT ![E.id] = Append(parent, E.in)]
        /\ parent \in Seq(L1Block) /\ Len(parent) \in Nat /\ Len(parent) + 1 <= E.id
  BY BuildFacts
<1>2. /\ setup' = setup /\ UNCHANGED <<l1Vars, canon, target, l1Current, l1Head, l2Head>>
      /\ UNCHANGED <<lastInserted, tracker, faults>>
      /\ Handling /\ pass' = [pass EXCEPT !.pc = "setHead"]
      /\ headOrigin' = E.id
  BY BuildFacts
<1>3. E.id \in BlockIds /\ E.in \in L1Block
  BY <1>2, HandledEvent
<1>. DEFINE b == E.in
            new == Append(parent, b)
            id == E.id
<1>4. new \in Seq(L1Block) /\ Len(new) = Len(parent) + 1 /\ new # <<>>
  <2>1. parent \in Seq(L1Block) /\ b \in L1Block
    BY <1>1, <1>3
  <2>. HIDE DEF b
  <2>2. new \in Seq(L1Block) /\ Len(new) = Len(parent) + 1
    BY <2>1
  <2>3. Len(parent) \in Nat
    BY <2>1
  <2>4. Len(new) # Len(<<>>)
    BY <2>2, <2>3
  <2>. QED
    BY <2>2, <2>4
<1>5. Len(new) <= id
  BY <1>1, <1>4
<1>6. origin' = [origin EXCEPT ![id] = new] /\ id \in BlockIds /\ headOrigin' = id
  BY <1>1, <1>2, <1>3
<1>. HIDE DEF new, id
<1>7. EngineOK'
  <2>1. origin' \in [BlockIds -> Seq(L1Block)]
    BY <1>4, <1>6 DEF EngineOK
  <2>2. \A k \in BlockIds : Len(origin'[k]) <= k
    BY <1>5, <1>6 DEF EngineOK
  <2>3. headOrigin' \in 0..MaxHeight /\ origin'[headOrigin'] # NoOrigin
    <3>1. id \in 0..MaxHeight
      BY <1>6, Bounds DEF BlockIds, ChainOK
    <3>2. origin'[id] = new
      BY <1>6 DEF EngineOK
    <3>. QED
      BY <1>4, <1>6, <3>1, <3>2 DEF NoOrigin
  <2>. QED
    BY <1>2, <2>1, <2>2, <2>3, SameTypes DEF EngineOK
<1>8. PassOK'
  BY <1>2, SameTypes DEF PassOK, Runs, Handling
<1>. QED
  BY <1>2, <1>7, <1>8, ChainSame, HeadsSame, TrackerSame

\* The block that was built becomes the head.
LEMMA InsertTInv ==
  ASSUME TInv, InsertBlock
  PROVE  TInv'
<1>. USE DEF TInv
<1>1. setup' = setup /\ UNCHANGED l1Vars /\ setup \in Setups /\ UNCHANGED <<origin, headOrigin>>
      /\ UNCHANGED <<l1Current, l1Head, l2Head, faults>>
      /\ pass.pc = "setHead" /\ NextEvent
      /\ canon' = origin[E.id] /\ target' = <<>> /\ lastInserted' = E.id
      /\ tracker' = IF tracker.triggered THEN ClearMeta(tracker) ELSE tracker
  BY DEF InsertBlock, SetHead, l1Vars, ChainOK
<1>2. E.id \in BlockIds
  BY <1>1, HandledEvent
<1>. DEFINE id == E.id
<1>3. id \in 1..MaxHeight /\ MaxHeight \in Nat /\ canon' = origin[id] /\ lastInserted' = id
  BY <1>1, <1>2, Bounds DEF BlockIds
<1>. HIDE DEF id
<1>4. canon' \in Seq(L1Block) /\ Len(canon') <= MaxHeight
  <2>1. id \in BlockIds
    BY <1>3 DEF BlockIds
  <2>2. origin[id] \in Seq(L1Block) /\ Len(origin[id]) <= id
    BY <2>1 DEF EngineOK
  <2>3. Len(origin[id]) \in Nat
    BY <2>2
  <2>. QED
    BY <1>3, <2>2, <2>3
<1>5. EngineOK'
  <2>1. target' \in Seq(L1Block) /\ Len(target') <= MaxHeight
    BY <1>1, <1>3
  <2>. QED
    BY <1>1, <1>4, <2>1, SameTypes DEF EngineOK
<1>6. HeadsOK'
  <2>1. lastInserted' \in 0..MaxHeight
    BY <1>3
  <2>. QED
    BY <1>1, <2>1, SameTypes DEF HeadsOK, FinalHeight
<1>7. TrackerOK'
  <2>1. CASE tracker.triggered
    <3>1. tracker' = [tracker EXCEPT !.triggered = FALSE, !.id = NoId, !.hash = <<>>, !.outOfSync = FALSE]
      BY <1>1, <2>1 DEF ClearMeta
    <3>2. <<>> \in Seq(L1Block)
      OBVIOUS
    <3>3. tracker' \in [triggered : BOOLEAN, id : 0..MaxHeight \cup {NoId}, hash : Seq(L1Block),
                        outOfSync : BOOLEAN, progressed : BOOLEAN, finished : BOOLEAN]
      BY <3>1, <3>2 DEF TrackerOK
    <3>4. tracker'.triggered = FALSE /\ tracker'.id = NoId
      BY <3>1 DEF TrackerOK
    <3>. QED
      BY <1>1, <3>3, <3>4, SameTypes DEF TrackerOK
  <2>2. CASE ~tracker.triggered
    BY <1>1, <2>2, TrackerSame
  <2>. QED
    BY <2>1, <2>2
<1>8. PassOK'
  BY <1>1, NextPassOK
<1>. QED
  BY <1>1, <1>5, <1>6, <1>7, <1>8, ChainSame

\* A driver that starts again.
LEMMA RestartTInv ==
  ASSUME TInv, Restart
  PROVE  TInv'
<1>. USE DEF TInv
<1>1. setup' = setup /\ UNCHANGED l1Vars /\ UNCHANGED engineVars /\ setup \in Setups
      /\ l1Current' \in LatestL2KnownL1Header
      /\ l1Head' = Last(chain) /\ l2Head' = Len(canon)
      /\ lastInserted' = NoId /\ tracker' = FreshTracker /\ Go("idle")
  BY DEF Restart, l1Vars, engineVars, ChainOK
<1>2. faults' \in 0..MaxFaults
  BY DriverAssumption DEF Restart
<1>3. l1Current' \in L1Block
  BY <1>1, LatestKnown
<1>4. Last(chain) \in L1Block /\ Last(chain).h >= FinalHeight
  BY GoodLast, Bounds DEF ChainOK
<1>5. Len(canon) \in 0..MaxHeight
  <2>1. Len(canon) \in Nat /\ Len(canon) <= MaxHeight /\ MaxHeight \in Nat
    BY Bounds DEF ChainOK, EngineOK
  <2>. QED
    BY <2>1
<1>6. HeadsOK'
  BY <1>1, <1>3, <1>4, <1>5, SameTypes DEF HeadsOK, FinalHeight
<1>7. TrackerOK'
  BY <1>1, SameTypes DEF TrackerOK, FreshTracker
<1>. QED
  BY <1>1, <1>2, <1>6, <1>7, ChainSame, EngineSame, PassGo

\* Every step keeps the types.
LEMMA NextTInv ==
  ASSUME TInv, [Next]_vars
  PROVE  TInv'
<1>1. CASE DriverStep
  BY <1>1, TriggerTInv, SyncTInv, ProcessTInv, IterTInv, ResetTInv, SkipTInv, BuildTInv, InsertTInv
     DEF DriverStep
<1>. QED
  BY <1>1, WorldTInv, RestartTInv DEF Next

\* The invariant holds in every state.
LEMMA TInvAlways == Spec => []TInv
<1>1. Init => TInv
  BY InitTInv
<1>2. TInv /\ [Next]_vars => TInv'
  BY NextTInv
<1>. QED
  BY <1>1, <1>2, PTL DEF Spec

\* Whatever the reorgs, their depth, the crashes and the beacon syncs, the driver's
\* variables keep their types: its records fit the chain's height, a block is never
\* built on a number it must not have, and no header is read that is not there.
THEOREM DriverTypes == Spec => []TypeOK
<1>1. TInv => TypeOK
  BY TInvType
<1>. QED
  BY <1>1, TInvAlways, PTL


--------------------------------------------------------------------------------
(* A driver without beacon sync.                                               *)

\* No block is built but on its parent.
NumbersOK == ~tracker.triggered /\ NumberIsId

\* With reorgs of one block a block that is replaced has the same blocks before it:
\* what was read of any fork still says how many proposals come before it.
SameBefore(b) ==
  b.h <= Len(chain) /\ ProposedBefore(b) = ProposedBefore(chain[b.h])

\* An L1Origin record names the block that proposed the id, on some fork.
OriginsFollow ==
  \A id \in BlockIds :
    origin[id] # NoOrigin =>
      SameBefore(L1OriginByID(id)) /\ ProposedBefore(L1OriginByID(id)) = id - 1

\* The engine has a block for each proposal before the cursor, and up to what
\* counts as inserted.
CursorFollows ==
  /\ target = <<>>
  /\ SameBefore(l1Current) /\ SameBefore(l1Head)
  /\ ProposedBefore(l1Current) <= Len(canon)
  /\ lastInserted <= Len(canon)
  /\ headOrigin <= Len(canon) + 1

\* So it has for those before the height of the iterator, which never goes back
\* before the cursor.
PassFollows ==
  Runs =>
    /\ SameBefore(pass.end)
    /\ pass.at <= Len(chain)
    /\ ProposedBefore(l1Current) <= ProposedBefore(chain[pass.at])
    /\ ProposedBefore(chain[pass.at]) <= Len(canon)

\* The events are consecutive, from the first block that the engine may lack to
\* the end of the pass.
FirstId == pass.events[1].id
EventsFollow ==
  /\ \A i \in 1..Len(pass.events) :
       /\ pass.events[i].id = FirstId + (i - 1)
       /\ SameBefore(pass.events[i].in)
       /\ ProposedBefore(pass.events[i].in) = pass.events[i].id - 1
  /\ pass.pc = "events" /\ pass.events = <<>> => ProposedBefore(pass.end) <= Len(canon)
  /\ pass.events # <<>> =>
       /\ Runs
       /\ ProposedBefore(chain[pass.at]) < FirstId
       /\ FirstId <= Len(canon) + 1
       /\ ProposedBefore(pass.end) <= FirstId + (Len(pass.events) - 1)
  /\ pass.pc = "setHead" => headOrigin = FirstId /\ origin[FirstId] # NoOrigin


\* In the beginning each record has the number of its id.
LEMMA InitNumbers ==
  ASSUME Init
  PROVE  NumbersOK
<1>1. ChainOK /\ LastProposed(chain) = Finalized
  BY InitGoodChain DEF Init
<1>2. NumberIsId
  BY <1>1, InitEngine DEF Init, NumberIsId
<1>3. ~tracker.triggered
  BY DEF Init, FreshTracker
<1>. QED
  BY <1>2, <1>3 DEF NumbersOK

\* A driver that does not sync through its peers builds each block on the one of the
\* id before it.
LEMMA NextNumbers ==
  ASSUME TInv, ~P2PSync, NumbersOK, [Next]_vars
  PROVE  NumbersOK' /\ setup' = setup
<1>1. ~tracker.triggered /\ NumberIsId
  BY DEF NumbersOK
<1>2. ~TriggerBeaconSync
  BY DEF TriggerBeaconSync, NeedNewBeaconSync
<1>3. ~Track
  BY <1>1 DEF Track
<1>4. ASSUME setup' = setup, origin' = origin PROVE NumberIsId'
  BY <1>1, <1>4, SameTypes DEF NumberIsId
<1>5. CASE BuildBlock
  <2>1. PICK parent :
          /\ origin' = [origin EXCEPT ![E.id] = Append(parent, E.in)]
          /\ parent \in Seq(L1Block)
          /\ \/ Len(parent) = E.id - 1
             \/ E.id - 1 \in BlockIds /\ origin[E.id - 1] # NoOrigin /\ parent = origin[E.id - 1]
    BY <1>1, <1>5, BuildFacts DEF TInv
  <2>2. setup' = setup /\ tracker' = tracker /\ Handling
    BY <1>5, BuildFacts DEF TInv
  <2>3. E.id \in BlockIds /\ E.in \in L1Block
    BY <2>2, HandledEvent DEF TInv
  <2>. DEFINE id == E.id
              b == E.in
              new == Append(parent, b)
  <2>4. /\ id \in BlockIds /\ id \in Nat /\ b \in L1Block /\ parent \in Seq(L1Block)
        /\ origin' = [origin EXCEPT ![id] = new]
        /\ \/ Len(parent) = id - 1
           \/ id - 1 \in BlockIds /\ origin[id - 1] # NoOrigin /\ parent = origin[id - 1]
    BY <2>1, <2>3 DEF BlockIds
  <2>. HIDE DEF b, id
  <2>5. Len(parent) = id - 1
    BY <1>1, <2>4 DEF NumberIsId
  <2>6. Len(new) = Len(parent) + 1
    BY <2>4
  <2>7. Len(new) = id
    BY <2>4, <2>5, <2>6
  <2>. HIDE DEF new
  <2>8. \A k \in BlockIds : origin'[k] = IF k = id THEN new ELSE origin[k]
    BY <2>4 DEF TInv, EngineOK
  <2>9. NumberIsId'
    BY <1>1, <2>2, <2>7, <2>8, SameTypes DEF NumberIsId
  <2>. QED
    BY <1>1, <2>2, <2>9 DEF NumbersOK
<1>6. CASE Sync
  <2>1. setup' = setup /\ origin' = origin /\ tracker' = tracker
    BY <1>1, <1>6 DEF Sync, l1Vars, engineVars
  <2>. QED
    BY <1>1, <1>4, <2>1 DEF NumbersOK
<1>7. CASE InsertBlock
  <2>1. setup' = setup /\ origin' = origin /\ tracker' = tracker
    BY <1>1, <1>7 DEF InsertBlock, SetHead, l1Vars
  <2>. QED
    BY <1>1, <1>4, <2>1 DEF NumbersOK
<1>8. CASE Restart
  <2>1. setup' = setup /\ origin' = origin /\ ~tracker'.triggered
    BY <1>8 DEF Restart, FreshTracker, l1Vars, engineVars
  <2>. QED
    BY <1>4, <2>1 DEF NumbersOK
<1>9. CASE \/ processL1Blocks \/ FetchEvents \/ FinishPass \/ ResetOnReorg
           \/ SkipInserted \/ CallbackError
  <2>1. setup' = setup /\ origin' = origin /\ tracker' = tracker
    BY <1>9 DEF processL1Blocks, FetchEvents, FinishPass, ResetOnReorg, SkipInserted,
                CallbackError, l1Vars, engineVars
  <2>. QED
    BY <1>1, <1>4, <2>1 DEF NumbersOK
<1>10. CASE \/ L1Next /\ UNCHANGED <<engineVars, driverVars, faults>>
            \/ BeaconSynced /\ UNCHANGED <<l1Vars, driverVars, faults>>
            \/ UpdateL1Head \/ UpdateL2Head \/ UNCHANGED vars
  <2>1. setup' = setup
    BY <1>10, L1NextChain DEF TInv, UpdateL1Head, UpdateL2Head, l1Vars, vars
  <2>2. origin' = origin /\ tracker' = tracker
    BY <1>10 DEF BeaconSynced, UpdateL1Head, UpdateL2Head, vars, engineVars, driverVars
  <2>. QED
    BY <1>1, <1>4, <2>1, <2>2 DEF NumbersOK
<1>. QED
  BY <1>2, <1>3, <1>5, <1>6, <1>7, <1>8, <1>9, <1>10 DEF Next, DriverStep

\* No step changes the setup.
LEMMA NextSetup ==
  ASSUME TInv, [Next]_vars
  PROVE  setup' = setup
BY L1NextChain DEF TInv, Next, DriverStep, BeaconSynced, UpdateL1Head, UpdateL2Head, Track,
   TriggerBeaconSync, Sync, processL1Blocks, FetchEvents, FinishPass, ResetOnReorg,
   SkipInserted, BuildBlock, CallbackError, InsertBlock, Restart, l1Vars, vars

\* Without beacon sync, whatever the reorgs and the crashes, a block has the number
\* of the id it was built for.
LEMMA NumbersAlways == Spec => [](~P2PSync => NumbersOK)
<1>1. Init => (~P2PSync => NumbersOK)
  BY InitNumbers
<1>2. TInv /\ (~P2PSync => NumbersOK) /\ [Next]_vars => (~P2PSync => NumbersOK)'
  <2>. SUFFICES ASSUME TInv, ~P2PSync => NumbersOK, [Next]_vars, ~P2PSync'
               PROVE  NumbersOK'
    OBVIOUS
  <2>1. setup' = setup
    BY NextSetup
  <2>2. ~P2PSync
    BY <2>1, SameTypes
  <2>. QED
    BY <2>2, NextNumbers
<1>. QED
  BY <1>1, <1>2, TInvAlways, PTL DEF Spec

\* Whatever the reorgs, their depth and the crashes, a driver that does not sync through
\* its peers never builds a block on another parent than the block of the id before
\* it: the block of an id has that number.
THEOREM DriverNumbers == Spec => [](~P2PSync => NumberIsId)
<1>1. (~P2PSync => NumbersOK) => (~P2PSync => NumberIsId)
  BY DEF NumbersOK
<1>. QED
  BY <1>1, NumbersAlways, PTL


--------------------------------------------------------------------------------
(* The cursor, with reorgs of one block and no beacon sync. *)

\* What a block that was read has before it.
LEMMA BeforeNat ==
  ASSUME ChainOK, NEW b \in L1Block, SameBefore(b)
  PROVE  /\ b.h \in 1..Len(chain) /\ ProposedBefore(b) \in 0..MaxHeight
         /\ ProposedBefore(b) \in Nat /\ MaxHeight \in Nat
<1>1. b.h \in 1..MaxHeight /\ MaxHeight \in Nat /\ Len(chain) \in Nat /\ b.h <= Len(chain)
  BY Bounds, Genesis, GoodBlock DEF ChainOK, L1Block, SameBefore
<1>. DEFINE h == b.h
<1>2. h \in 1..MaxHeight /\ h <= Len(chain)
  BY <1>1
<1>. HIDE DEF h
<1>3. h \in 1..Len(chain)
  BY <1>1, <1>2
<1>4. ProposedBefore(chain[h]) \in 0..MaxHeight
  BY <1>3, GoodBlock DEF ChainOK
<1>5. ProposedBefore(b) \in 0..MaxHeight
  BY <1>4 DEF SameBefore, h
<1>. QED
  BY <1>1, <1>3, <1>5 DEF h

\* A block of the chain itself.
LEMMA ChainBlockBefore ==
  ASSUME ChainOK, NEW h \in 1..Len(chain)
  PROVE  SameBefore(chain[h]) /\ chain[h] \in L1Block /\ chain[h].h = h
<1>1. chain[h] \in L1Block /\ chain[h].h = h
  BY GoodBlock DEF ChainOK
<1>2. h <= Len(chain)
  BY Genesis, GoodBlock DEF ChainOK
<1>. QED
  BY <1>1, <1>2 DEF SameBefore

\* A reorg of one block replaces the newest block by one with the same blocks before
\* it, and the chain never gets shorter.
LEMMA BeforeKept ==
  ASSUME ChainOK, MaxDepth <= 1, L1Next
  PROVE  /\ Len(chain) <= Len(chain')
         /\ \A h \in 1..Len(chain) : ProposedBefore(chain'[h]) = ProposedBefore(chain[h])
<1>1. /\ setup \in Setups /\ GoodChain(chain) /\ Len(base) \in 0..MaxReorgs
      /\ MaxReorgs \in Nat /\ MaxHeight \in Nat
  BY Bounds DEF ChainOK
<1>2. Len(chain) \in FinalHeight..MaxHeight /\ FinalHeight \in Nat /\ 2 <= FinalHeight
  BY <1>1, GoodLast, Bounds
<1>3. CASE Mine
  <2>1. PICK p \in BOOLEAN, v \in Verifiable(chain) : chain' = NewBlock(chain, Len(base), p, v)
    BY <1>3 DEF Mine
  <2>2. Len(chain) < MaxHeight
    BY <1>3 DEF Mine
  <2>3. Len(chain') = Len(chain) + 1 /\ \A h \in 1..Len(chain) : chain'[h] = chain[h]
    BY <1>1, <2>1, <2>2, GoodAppend
  <2>. QED
    BY <1>2, <2>3
<1>4. CASE Reorg
  <2>1. PICK depth \in 1..MaxDepth :
          /\ Len(chain) - depth >= FinalHeight
          /\ base' = Append(base, Len(chain) - depth)
          /\ \E p \in BOOLEAN, v \in Verifiable(SubSeq(chain, 1, Len(chain) - depth)) :
               chain' = NewBlock(SubSeq(chain, 1, Len(chain) - depth), Len(base'), p, v)
    BY <1>4 DEF Reorg
  <2>2. depth = 1
    BY L1Assumption
  <2>. DEFINE kept == Len(chain) - 1
              rest == SubSeq(chain, 1, kept)
  <2>3. PICK p \in BOOLEAN, v \in Verifiable(rest) : chain' = NewBlock(rest, Len(base'), p, v)
    BY <2>1, <2>2
  <2>4. kept \in FinalHeight..Len(chain) /\ kept < MaxHeight /\ kept + 1 = Len(chain) /\ kept \in Nat
        /\ kept \in 1..Len(chain) /\ Len(chain) \in 1..Len(chain) /\ Len(chain) \in 2..Len(chain)
    BY <1>1, <1>2, <2>1, <2>2
  <2>5. Len(base') \in 0..MaxReorgs
    <3>1. base' = Append(base, kept) /\ base \in Seq(1..MaxHeight) /\ Len(base) < MaxReorgs
      BY <1>4, <2>1, <2>2 DEF Reorg, ChainOK
    <3>. DEFINE heights == 1..MaxHeight
    <3>2. base \in Seq(heights)
      BY <3>1
    <3>. HIDE DEF heights, kept
    <3>3. Len(base') = Len(base) + 1
      BY <3>1, <3>2
    <3>. QED
      BY <1>1, <3>1, <3>3
  <2>6. chain[kept].proposed = ProposedBefore(chain[Len(chain)])
    BY <1>1, <2>4 DEF GoodChain
  <2>. HIDE DEF kept
  <2>7. GoodChain(rest) /\ Len(rest) = kept /\ \A h \in 1..kept : rest[h] = chain[h]
    BY <1>1, <2>4, GoodPrefix
  <2>. HIDE DEF rest
  <2>8. /\ Len(chain') = kept + 1
        /\ \A h \in 1..kept : chain'[h] = rest[h]
        /\ ProposedBefore(chain'[kept + 1]) = LastProposed(rest)
    BY <1>1, <2>3, <2>4, <2>5, <2>7, GoodAppend
  <2>9. LastProposed(rest) = chain[kept].proposed
    <3>1. kept \in 1..kept
      BY <1>2, <2>4
    <3>. QED
      BY <2>7, <3>1 DEF LastProposed, Last
  <2>10. Len(chain) <= Len(chain')
    BY <1>2, <2>4, <2>8
  <2>11. ASSUME NEW h \in 1..Len(chain) PROVE ProposedBefore(chain'[h]) = ProposedBefore(chain[h])
    <3>1. CASE h \in 1..kept
      BY <2>7, <2>8, <3>1
    <3>2. CASE h = kept + 1
      BY <2>4, <2>6, <2>8, <2>9, <3>2
    <3>. QED
      BY <2>4, <3>1, <3>2
  <2>. QED
    BY <2>10, <2>11
<1>. QED
  BY <1>3, <1>4 DEF L1Next

\* The blocks that were read stay what they say of the chain.
LEMMA SameBeforeKept ==
  ASSUME ChainOK, MaxDepth <= 1, L1Next, NEW b \in L1Block, SameBefore(b)
  PROVE  b.h <= Len(chain') /\ ProposedBefore(b) = ProposedBefore(chain'[b.h])
<1>. DEFINE h == b.h
<1>1. h \in 1..Len(chain) /\ ProposedBefore(b) = ProposedBefore(chain[h])
  BY BeforeNat DEF SameBefore
<1>2. Len(chain) \in Nat /\ Len(chain') \in Nat
  <2>1. chain \in Seq(L1Block)
    BY DEF ChainOK, GoodChain
  <2>2. chain' \in Seq(L1Block')
    BY L1NextChain DEF ChainOK, GoodChain
  <2>. QED
    BY <2>1, <2>2
<1>. HIDE DEF h
<1>3. h <= Len(chain') /\ ProposedBefore(chain'[h]) = ProposedBefore(chain[h])
  BY <1>1, <1>2, BeforeKept
<1>. QED
  BY <1>1, <1>3 DEF h

\* Where a reorg check sets the cursor to, the engine has every block before it.
LEMMA BackToFollows ==
  ASSUME ChainOK, EngineOK, OriginsFollow, NEW cur, NEW last, BackTo(cur, last)
  PROVE  cur \in L1Block /\ SameBefore(cur) /\ ProposedBefore(cur) <= Len(canon) /\ last <= Len(canon)
<1>1. PICK height \in 1..Len(chain) :
        /\ cur = chain[height]
        /\ \/ height = 1
           \/ last \in BlockIds /\ origin[last] # NoOrigin /\ height = L1OriginByID(last).h
           \/ last \in 1..LastProposed(chain) /\ height = ProposedIn(last)
  BY DEF BackTo
<1>2. cur \in L1Block /\ SameBefore(cur)
  BY <1>1, ChainBlockBefore
<1>3. last \in 0..MaxHeight /\ last <= Len(canon) /\ Len(canon) \in Nat /\ MaxHeight \in Nat
  BY Bounds DEF BackTo, EngineOK, ChainOK
<1>4. ProposedBefore(cur) \in Nat
  BY <1>2, BeforeNat
<1>5. CASE height = 1
  BY <1>1, <1>2, <1>3, <1>5, Genesis
<1>6. CASE last \in BlockIds /\ origin[last] # NoOrigin /\ height = L1OriginByID(last).h
  <2>1. ProposedBefore(cur) = last - 1
    BY <1>1, <1>6 DEF OriginsFollow, SameBefore
  <2>. QED
    BY <1>2, <1>3, <2>1
<1>7. CASE last \in 1..LastProposed(chain) /\ height = ProposedIn(last)
  <2>1. last \in 0..LastProposed(chain) /\ last # 0
    BY <1>3, <1>7, GoodLast DEF ChainOK
  <2>2. ProposedBefore(cur) <= last - 1
    BY <1>1, <1>7, <2>1, ProposedInFacts
  <2>. QED
    BY <1>2, <1>3, <1>4, <2>2
<1>. QED
  BY <1>1, <1>5, <1>6, <1>7


\* The invariant of a driver without beacon sync: Follows(x) of each of its parts.
Follows == OriginsFollow /\ CursorFollows /\ PassFollows /\ EventsFollow
FState == TInv /\ NumbersOK /\ Follows

\* What a step does not touch stays.
LEMMA OriginsSame ==
  ASSUME OriginsFollow, setup' = setup, chain' = chain, origin' = origin
  PROVE  OriginsFollow'
BY SameTypes DEF OriginsFollow, SameBefore, ProposedBefore, L1OriginByID

\* (likewise)
LEMMA PassFollowsSame ==
  ASSUME PassFollows, EventsFollow, chain' = chain, pass' = pass, l1Current' = l1Current,
         canon' = canon, origin' = origin, headOrigin' = headOrigin
  PROVE  PassFollows' /\ EventsFollow'
BY DEF PassFollows, EventsFollow, Runs, SameBefore, ProposedBefore, FirstId

\* Outside a pass there is nothing to follow.
LEMMA GoFollows ==
  ASSUME NEW pc \in {"idle", "process", "panic"}, setup \in Setups, setup' = setup, Go(pc)
  PROVE  PassFollows' /\ EventsFollow'
<1>1. ~Runs' /\ pass'.pc = pc /\ pass'.events = <<>>
  BY PassGo
<1>2. PassFollows'
  BY <1>1 DEF PassFollows
<1>3. Len(pass'.events) = 0 /\ 1..0 = {}
  BY <1>1
<1>4. pass'.pc # "events" /\ pass'.pc # "setHead"
  BY <1>1
<1>5. EventsFollow'
  BY <1>1, <1>3, <1>4 DEF EventsFollow
<1>. QED
  BY <1>2, <1>5

\* The first blocks of a driver.
LEMMA InitFollows ==
  ASSUME Init
  PROVE  Follows
<1>1. ChainOK /\ LastProposed(chain) = Finalized /\ EngineInit /\ TInv
  BY InitGoodChain, InitTInv DEF Init
<1>2. /\ EngineOK /\ target = <<>> /\ headOrigin = Len(canon) /\ Len(canon) \in Nat
      /\ \A id \in BlockIds :
           origin[id] # NoOrigin =>
             /\ Len(origin[id]) = id /\ id \in 1..LastProposed(chain)
             /\ L1OriginByID(id) = Proposal(chain, id)
  BY <1>1, InitEngine DEF EngineOK
<1>3. OriginsFollow
  <2>1. ASSUME NEW id \in BlockIds, origin[id] # NoOrigin
        PROVE  SameBefore(L1OriginByID(id)) /\ ProposedBefore(L1OriginByID(id)) = id - 1
    <3>. DEFINE b == Proposal(chain, id)
    <3>1. id \in 1..LastProposed(chain) /\ L1OriginByID(id) = b
      BY <1>2, <2>1
    <3>2. b.h \in 2..Len(chain) /\ chain[b.h] = b /\ ProposedBefore(b) = id - 1
      BY <1>1, <3>1, ProposalFacts DEF ChainOK
    <3>3. Len(chain) \in Nat
      BY <1>1, Genesis, GoodBlock DEF ChainOK
    <3>. HIDE DEF b
    <3>4. b.h <= Len(chain)
      BY <3>2, <3>3
    <3>. QED
      BY <3>1, <3>2, <3>4 DEF SameBefore
  <2>. QED
    BY <2>1 DEF OriginsFollow
<1>4. CursorFollows
  <2>1. l1Current \in LatestL2KnownL1Header /\ l1Head = Last(chain) /\ lastInserted = NoId
    BY DEF Init
  <2>2. SameBefore(l1Head)
    <3>1. Len(chain) \in 1..Len(chain) /\ l1Head = chain[Len(chain)]
      BY <1>1, <2>1, GoodLast DEF ChainOK
    <3>. QED
      BY <1>1, <3>1, ChainBlockBefore
  <2>3. SameBefore(l1Current) /\ ProposedBefore(l1Current) <= Len(canon)
    <3>1. CASE l1Current = chain[1]
      BY <1>1, <1>2, <3>1, Genesis, ChainBlockBefore
    <3>2. CASE headOrigin \in BlockIds /\ origin[headOrigin] # NoOrigin /\ l1Current = L1OriginByID(headOrigin)
      BY <1>2, <1>3, <3>2 DEF OriginsFollow
    <3>. QED
      BY <1>1, <1>2, <2>1, <3>1, <3>2, LatestKnown
  <2>4. lastInserted <= Len(canon) /\ headOrigin <= Len(canon) + 1
    BY <1>2, <2>1 DEF NoId
  <2>. QED
    BY <1>2, <2>2, <2>3, <2>4 DEF CursorFollows
<1>5. PassFollows /\ EventsFollow
  <2>1. pass.pc = "idle" /\ pass.events = <<>>
    BY DEF Init, NotPassing, Passing
  <2>2. Len(pass.events) = 0 /\ 1..0 = {}
    BY <2>1
  <2>. QED
    BY <2>1, <2>2 DEF PassFollows, EventsFollow, Runs
<1>. QED
  BY <1>3, <1>4, <1>5 DEF Follows

\* Where a driver starts again the engine has every block before it, even when it
\* crashed between the L1Origin of a block and the new head.
LEMMA RestartFollows ==
  ASSUME FState, Restart
  PROVE  Follows'
<1>. USE DEF FState, Follows, TInv
<1>1. setup' = setup /\ UNCHANGED <<chain, origin, canon, target, headOrigin>> /\ setup \in Setups
      /\ l1Current' \in LatestL2KnownL1Header
      /\ l1Head' = Last(chain) /\ lastInserted' = NoId /\ Go("idle")
  BY DEF Restart, l1Vars, engineVars, ChainOK
<1>2. OriginsFollow'
  BY <1>1, OriginsSame
<1>3. PassFollows' /\ EventsFollow'
  BY <1>1, GoFollows
<1>4. Len(canon) \in Nat
  BY DEF EngineOK
<1>5. SameBefore(l1Head')
  <2>1. Len(chain) \in 1..Len(chain) /\ l1Head' = chain[Len(chain)]
    BY <1>1, GoodLast DEF ChainOK
  <2>. QED
    BY <2>1, ChainBlockBefore
<1>6. SameBefore(l1Current') /\ ProposedBefore(l1Current') <= Len(canon)
  <2>1. CASE l1Current' = chain[1]
    BY <1>4, <2>1, Genesis, ChainBlockBefore
  <2>2. CASE headOrigin \in BlockIds /\ origin[headOrigin] # NoOrigin /\ l1Current' = L1OriginByID(headOrigin)
    <3>1. SameBefore(l1Current') /\ ProposedBefore(l1Current') = headOrigin - 1
      BY <2>2 DEF OriginsFollow
    <3>2. headOrigin <= Len(canon) + 1 /\ headOrigin \in Int
      BY <2>2, Bounds DEF CursorFollows, BlockIds, ChainOK
    <3>. QED
      BY <1>4, <3>1, <3>2
  <2>. QED
    BY <1>1, <2>1, <2>2, LatestKnown
<1>7. lastInserted' <= Len(canon)
  BY <1>1, <1>4 DEF NoId
<1>8. CursorFollows'
  BY <1>1, <1>5, <1>6, <1>7 DEF CursorFollows, SameBefore, ProposedBefore
<1>. QED
  BY <1>2, <1>3, <1>8


\* A block that is mined, or replaced by a reorg of one block, changes nothing of
\* what was read.
LEMMA L1NextFollows ==
  ASSUME FState, MaxDepth <= 1, L1Next, UNCHANGED <<engineVars, driverVars, faults>>
  PROVE  Follows'
<1>. USE DEF FState, Follows, TInv
<1>1. setup' = setup
  BY L1NextChain
<1>2. /\ UNCHANGED <<canon, origin, headOrigin, target>>
      /\ UNCHANGED <<l1Current, l1Head, lastInserted, pass>>
  BY DEF engineVars, driverVars
<1>3. ASSUME NEW b \in L1Block, SameBefore(b)
      PROVE  b.h <= Len(chain') /\ ProposedBefore(b) = ProposedBefore(chain'[b.h])
  BY <1>3, SameBeforeKept
<1>4. OriginsFollow'
  <2>. SUFFICES ASSUME NEW id \in BlockIds, origin[id] # NoOrigin
               PROVE  /\ L1OriginByID(id).h <= Len(chain')
                      /\ ProposedBefore(L1OriginByID(id)) = ProposedBefore(chain'[L1OriginByID(id).h])
                      /\ ProposedBefore(L1OriginByID(id)) = id - 1
    BY <1>1, <1>2, SameTypes DEF OriginsFollow, SameBefore, ProposedBefore, L1OriginByID
  <2>1. L1OriginByID(id) \in L1Block
    BY OriginBlock
  <2>2. SameBefore(L1OriginByID(id)) /\ ProposedBefore(L1OriginByID(id)) = id - 1
    BY DEF OriginsFollow
  <2>. DEFINE b == L1OriginByID(id)
  <2>3. b \in L1Block /\ SameBefore(b) /\ ProposedBefore(b) = id - 1
    BY <2>1, <2>2
  <2>. HIDE DEF b
  <2>4. b.h <= Len(chain') /\ ProposedBefore(b) = ProposedBefore(chain'[b.h])
    BY <1>3, <2>3
  <2>. QED
    BY <2>3, <2>4 DEF b
<1>5. CursorFollows'
  <2>1. l1Current \in L1Block /\ l1Head \in L1Block /\ SameBefore(l1Current) /\ SameBefore(l1Head)
    BY DEF HeadsOK, CursorFollows
  <2>2. /\ l1Current.h <= Len(chain') /\ ProposedBefore(l1Current) = ProposedBefore(chain'[l1Current.h])
        /\ l1Head.h <= Len(chain') /\ ProposedBefore(l1Head) = ProposedBefore(chain'[l1Head.h])
    BY <1>3, <2>1
  <2>. QED
    BY <1>2, <2>2 DEF CursorFollows, SameBefore, ProposedBefore
<1>6. ASSUME Runs
      PROVE  /\ pass.end.h <= Len(chain') /\ ProposedBefore(pass.end) = ProposedBefore(chain'[pass.end.h])
             /\ pass.at <= Len(chain') /\ ProposedBefore(chain[pass.at]) = ProposedBefore(chain'[pass.at])
  <2>1. pass.end \in L1Block /\ pass.at \in 0..MaxHeight /\ pass.at >= 1
        /\ SameBefore(pass.end) /\ pass.at <= Len(chain)
    BY <1>6 DEF PassOK, PassFollows
  <2>. DEFINE at == pass.at
  <2>2. Len(chain) \in Nat /\ Len(chain') \in Nat /\ MaxHeight \in Nat
    <3>1. chain \in Seq(L1Block)
      BY DEF ChainOK, GoodChain
    <3>2. chain' \in Seq(L1Block')
      BY L1NextChain DEF ChainOK, GoodChain
    <3>. QED
      BY <3>1, <3>2, Bounds DEF ChainOK
  <2>3. at \in 0..MaxHeight /\ at >= 1 /\ at <= Len(chain)
    BY <2>1
  <2>. HIDE DEF at
  <2>4. at \in 1..Len(chain)
    BY <2>2, <2>3
  <2>5. at <= Len(chain') /\ ProposedBefore(chain'[at]) = ProposedBefore(chain[at])
    BY <2>2, <2>4, BeforeKept
  <2>. QED
    BY <1>3, <2>1, <2>5 DEF at
<1>7. PassFollows'
  BY <1>2, <1>6 DEF PassFollows, Runs, SameBefore, ProposedBefore
<1>8. ASSUME NEW i \in 1..Len(pass.events)
      PROVE  /\ pass.events[i].in.h <= Len(chain')
             /\ ProposedBefore(pass.events[i].in) = ProposedBefore(chain'[pass.events[i].in.h])
  <2>1. pass.events[i] \in Event
    BY DEF PassOK
  <2>2. pass.events[i].in \in L1Block
    BY <2>1 DEF Event
  <2>3. SameBefore(pass.events[i].in)
    BY DEF EventsFollow
  <2>. QED
    BY <1>3, <2>2, <2>3
<1>9. pass.events # <<>> => ProposedBefore(chain[pass.at]) = ProposedBefore(chain'[pass.at])
  BY <1>6 DEF EventsFollow
<1>10. EventsFollow'
  <2>. DEFINE ev == pass.events
  <2>1. ev' = ev /\ FirstId' = FirstId /\ pass' = pass /\ Runs' = Runs
    BY <1>2 DEF FirstId, Runs
  <2>2. \A i \in 1..Len(ev) :
          /\ ev[i].id = FirstId + (i - 1)
          /\ ev[i].in.h <= Len(chain') /\ ProposedBefore(ev[i].in) = ProposedBefore(chain'[ev[i].in.h])
          /\ ProposedBefore(ev[i].in) = ev[i].id - 1
    BY <1>8 DEF EventsFollow
  <2>3. (\A i \in 1..Len(ev) :
          /\ ev[i].id = FirstId + (i - 1)
          /\ SameBefore(ev[i].in)
          /\ ProposedBefore(ev[i].in) = ev[i].id - 1)'
    BY <2>1, <2>2 DEF SameBefore, ProposedBefore
  <2>4. (pass.pc = "events" /\ ev = <<>> => ProposedBefore(pass.end) <= Len(canon))'
    BY <1>2 DEF EventsFollow, ProposedBefore
  <2>5. (ev # <<>> =>
           /\ Runs
           /\ ProposedBefore(chain[pass.at]) < FirstId
           /\ FirstId <= Len(canon) + 1
           /\ ProposedBefore(pass.end) <= FirstId + (Len(ev) - 1))'
    <3>. SUFFICES ASSUME ev # <<>>
                 PROVE  /\ Runs
                        /\ ProposedBefore(chain'[pass.at]) < FirstId
                        /\ FirstId <= Len(canon) + 1
                        /\ ProposedBefore(pass.end) <= FirstId + (Len(ev) - 1)
      BY <1>2, <2>1 DEF ProposedBefore
    <3>. QED
      BY <1>9 DEF EventsFollow
  <2>6. (pass.pc = "setHead" => headOrigin = FirstId /\ origin[FirstId] # NoOrigin)'
    BY <1>2, <2>1 DEF EventsFollow
  <2>. QED
    BY <2>3, <2>4, <2>5, <2>6 DEF EventsFollow
<1>. QED
  BY <1>4, <1>5, <1>7, <1>10


\* The event loop, and the steps that a driver without beacon sync does not take.
LEMMA LoopFollows ==
  ASSUME FState, ~P2PSync,
         \/ BeaconSynced /\ UNCHANGED <<l1Vars, driverVars, faults>>
         \/ UpdateL1Head \/ UpdateL2Head \/ Track \/ TriggerBeaconSync
         \/ UNCHANGED vars
  PROVE  Follows'
<1>. USE DEF FState, Follows, TInv
<1>1. ~BeaconSynced /\ ~Track /\ ~TriggerBeaconSync
  BY DEF BeaconSynced, CursorFollows, Track, NumbersOK, TriggerBeaconSync, NeedNewBeaconSync
<1>2. /\ setup' = setup
      /\ UNCHANGED <<chain, canon, origin, headOrigin, target, l1Current, lastInserted, pass>>
      /\ l1Head' \in {l1Head, Last(chain)}
  BY <1>1 DEF UpdateL1Head, UpdateL2Head, vars, l1Vars, engineVars, driverVars
<1>3. SameBefore(l1Head')
  <2>1. Len(chain) \in 1..Len(chain) /\ Last(chain) = chain[Len(chain)]
    BY GoodLast DEF ChainOK
  <2>2. SameBefore(Last(chain))
    BY <2>1, ChainBlockBefore
  <2>. QED
    BY <1>2, <2>2 DEF CursorFollows
<1>4. CursorFollows'
  BY <1>2, <1>3 DEF CursorFollows, SameBefore, ProposedBefore
<1>. QED
  BY <1>2, <1>4, OriginsSame, PassFollowsSame

\* A pass starts at the cursor, or at the block before the head.
LEMMA ProcessFollows ==
  ASSUME FState, processL1Blocks
  PROVE  Follows'
<1>. USE DEF FState, Follows, TInv
<1>. DEFINE behind == l1Current.h >= l1Head.h /\ l1Current # l1Head
            cur == IF behind THEN chain[l1Head.h - 1] ELSE l1Current
<1>1. /\ setup' = setup /\ setup \in Setups /\ GoodChain(chain)
      /\ UNCHANGED <<chain, canon, origin, headOrigin, target, l1Head>>
  BY DEF processL1Blocks, l1Vars, engineVars, ChainOK
<1>2. IF behind /\ l1Head.h - 1 > Len(chain)
      THEN Go("idle") /\ UNCHANGED <<l1Current, lastInserted>>
      ELSE /\ l1Current' = cur
           /\ lastInserted' = IF behind THEN NoId ELSE lastInserted
           /\ IF l1Head.h > Len(chain) THEN Go("idle")
              ELSE pass' = Passing(cur.h, l1Head, <<>>)
  BY DEF processL1Blocks
<1>3. l1Current \in L1Block /\ l1Head \in L1Block /\ SameBefore(l1Current) /\ SameBefore(l1Head)
      /\ ProposedBefore(l1Current) <= Len(canon) /\ Len(canon) \in Nat
  BY DEF HeadsOK, CursorFollows, EngineOK
<1>4. l1Current.h \in 1..Len(chain) /\ l1Head.h \in 1..Len(chain) /\ l1Head.h >= FinalHeight
      /\ Len(chain) \in Nat /\ FinalHeight \in Nat /\ 2 <= FinalHeight
  BY <1>1, <1>3, BeforeNat, Genesis, GoodBlock, Bounds DEF HeadsOK
<1>. DEFINE h == l1Head.h
            c == l1Current.h
<1>5. h \in 2..Len(chain) /\ h - 1 \in 1..Len(chain) /\ ~(h - 1 > Len(chain)) /\ c \in 1..Len(chain)
  <2>1. h \in 1..Len(chain) /\ h >= FinalHeight /\ c \in 1..Len(chain)
    BY <1>4
  <2>. HIDE DEF h, c
  <2>. QED
    BY <1>4, <2>1
<1>6. /\ cur \in L1Block /\ SameBefore(cur) /\ ProposedBefore(cur) <= Len(canon)
  <2>1. CASE ~behind
    BY <1>3, <2>1
  <2>2. CASE behind
    <3>1. c >= h
      BY <2>2
    <3>2. chain[h - 1] \in L1Block /\ SameBefore(chain[h - 1])
      BY <1>5, ChainBlockBefore
    <3>3. ProposedBefore(chain[c]) = ProposedBefore(l1Current)
      BY <1>3 DEF SameBefore
    <3>4. cur = chain[h - 1]
      BY <2>2
    <3>. HIDE DEF h, c, cur
    <3>5. h - 1 <= c
      BY <1>4, <1>5, <3>1
    <3>6. ProposedBefore(chain[h - 1]) <= ProposedBefore(chain[c])
      BY <1>1, <1>5, <3>5, BeforeGrows
    <3>7. ProposedBefore(chain[h - 1]) \in Nat /\ ProposedBefore(l1Current) \in Nat
      BY <1>3, <3>2, BeforeNat
    <3>8. ProposedBefore(chain[h - 1]) <= Len(canon)
      BY <1>3, <3>3, <3>6, <3>7
    <3>. QED
      BY <3>2, <3>4, <3>8
  <2>. QED
    BY <2>1, <2>2
<1>7. /\ l1Current' = cur
      /\ lastInserted' = IF behind THEN NoId ELSE lastInserted
      /\ Go("idle") \/ pass' = Passing(cur.h, l1Head, <<>>)
  BY <1>2, <1>5
<1>. HIDE DEF cur, h, c
<1>8. lastInserted' <= Len(canon)
  BY <1>3, <1>7 DEF NoId, CursorFollows
<1>9. CursorFollows'
  BY <1>1, <1>3, <1>6, <1>7, <1>8 DEF CursorFollows, SameBefore, ProposedBefore
<1>10. PassFollows' /\ EventsFollow'
  <2>1. CASE Go("idle")
    BY <1>1, <2>1, GoFollows
  <2>2. CASE pass' = Passing(cur.h, l1Head, <<>>)
    <3>1. pass'.pc = "iter" /\ pass'.at = cur.h /\ pass'.end = l1Head /\ pass'.events = <<>>
      BY <2>2 DEF Passing
    <3>2. cur.h <= Len(chain) /\ ProposedBefore(chain[cur.h]) = ProposedBefore(cur)
      BY <1>6 DEF SameBefore
    <3>3. ProposedBefore(cur) \in Nat
      BY <1>6, BeforeNat
    <3>. DEFINE n == ProposedBefore(cur)
    <3>4. n <= n
      BY <3>3
    <3>5. PassFollows'
      BY <1>1, <1>3, <1>6, <1>7, <3>1, <3>2, <3>4 DEF PassFollows, SameBefore, ProposedBefore
    <3>6. Len(pass'.events) = 0 /\ 1..0 = {} /\ pass'.pc # "events" /\ pass'.pc # "setHead"
      BY <3>1
    <3>7. EventsFollow'
      BY <3>1, <3>6 DEF EventsFollow
    <3>. QED
      BY <3>5, <3>7
  <2>. QED
    BY <1>7, <2>1, <2>2
<1>. QED
  BY <1>1, <1>9, <1>10, OriginsSame

\* Sync and a reset only move the cursor.
LEMMA SyncFollows ==
  ASSUME FState, Sync
  PROVE  Follows'
<1>. USE DEF FState, Follows, TInv
<1>1. /\ setup' = setup /\ setup \in Setups
      /\ UNCHANGED <<chain, canon, origin, headOrigin, target, l1Current, l1Head, lastInserted>>
      /\ Go("process")
  BY DEF Sync, NumbersOK, l1Vars, engineVars, ChainOK
<1>2. CursorFollows'
  BY <1>1 DEF CursorFollows, SameBefore, ProposedBefore
<1>. QED
  BY <1>1, <1>2, OriginsSame, GoFollows

\* (likewise)
LEMMA ResetFollows ==
  ASSUME FState, ResetOnReorg
  PROVE  Follows'
<1>. USE DEF FState, Follows, TInv
<1>1. /\ setup' = setup /\ setup \in Setups
      /\ UNCHANGED <<chain, canon, origin, headOrigin, target, l1Head>>
      /\ Handling /\ ReorgCheck.is = "yes"
      /\ \/ Go("panic") /\ UNCHANGED <<l1Current, lastInserted>>
         \/ /\ ReorgCheck.cur # NoHeader
            /\ l1Current' = ReorgCheck.cur /\ lastInserted' = ReorgCheck.last
            /\ Go("process")
  BY DEF ResetOnReorg, l1Vars, engineVars, ChainOK
<1>2. PassFollows' /\ EventsFollow'
  BY <1>1, GoFollows
<1>3. CASE UNCHANGED <<l1Current, lastInserted>>
  <2>1. CursorFollows'
    BY <1>1, <1>3 DEF CursorFollows, SameBefore, ProposedBefore
  <2>. QED
    BY <1>1, <1>2, <2>1, OriginsSame
<1>4. CASE /\ ReorgCheck.cur # NoHeader
           /\ l1Current' = ReorgCheck.cur /\ lastInserted' = ReorgCheck.last
  <2>1. E.id \in BlockIds
    BY <1>1, HandledEvent
  <2>2. PICK cur, last : ReorgCheck = Reorged(cur, last) /\ BackTo(cur, last)
    BY <1>1, <1>4, <2>1, ReorgCheckYes DEF Reorged
  <2>3. l1Current' = cur /\ lastInserted' = last
    BY <1>4, <2>2 DEF Reorged
  <2>4. SameBefore(cur) /\ ProposedBefore(cur) <= Len(canon) /\ last <= Len(canon)
    BY <2>2, BackToFollows
  <2>5. CursorFollows'
    BY <1>1, <2>3, <2>4 DEF CursorFollows, SameBefore, ProposedBefore
  <2>. QED
    BY <1>1, <1>2, <2>5, OriginsSame
<1>. QED
  BY <1>1, <1>3, <1>4


\* What a pass knows of the event it handles.
LEMMA HandledFollows ==
  ASSUME FState, Handling \/ pass.pc = "setHead"
  PROVE  /\ E.id = FirstId /\ FirstId \in 1..MaxHeight /\ FirstId \in BlockIds /\ FirstId \in Nat
         /\ E.in \in L1Block /\ SameBefore(E.in) /\ ProposedBefore(E.in) = FirstId - 1
         /\ FirstId <= Len(canon) + 1 /\ Len(canon) \in Nat
         /\ ProposedBefore(l1Current) \in Nat /\ ProposedBefore(l1Current) < FirstId
         /\ SameBefore(pass.end) /\ ProposedBefore(pass.end) \in Nat
         /\ ProposedBefore(pass.end) <= FirstId + (Len(pass.events) - 1)
<1>. USE DEF FState, Follows, TInv
<1>1. /\ Runs /\ E \in Event /\ E.id \in BlockIds /\ E.in \in L1Block /\ E = pass.events[1]
      /\ Len(pass.events) \in Nat /\ Len(pass.events) >= 1
  BY HandledEvent
<1>2. E.id = FirstId /\ FirstId \in BlockIds
  BY <1>1 DEF FirstId
<1>3. FirstId \in 1..MaxHeight /\ FirstId \in Nat /\ MaxHeight \in Nat
  BY <1>2, Bounds DEF BlockIds, ChainOK
<1>4. 1 \in 1..Len(pass.events) /\ pass.events # <<>>
  BY <1>1
<1>5. SameBefore(E.in) /\ ProposedBefore(E.in) = FirstId - 1
  BY <1>1, <1>2, <1>4 DEF EventsFollow
<1>6. /\ FirstId <= Len(canon) + 1 /\ Len(canon) \in Nat
      /\ ProposedBefore(chain[pass.at]) < FirstId
      /\ ProposedBefore(pass.end) <= FirstId + (Len(pass.events) - 1)
      /\ ProposedBefore(l1Current) <= ProposedBefore(chain[pass.at])
      /\ SameBefore(pass.end) /\ pass.at <= Len(chain)
  BY <1>1, <1>4 DEF EventsFollow, PassFollows, EngineOK
<1>7. pass.end \in L1Block /\ pass.at \in 0..MaxHeight /\ pass.at >= 1
  BY <1>1 DEF PassOK
<1>8. ProposedBefore(pass.end) \in Nat /\ ProposedBefore(l1Current) \in Nat
  BY <1>6, <1>7, BeforeNat DEF HeadsOK, CursorFollows
<1>9. ProposedBefore(chain[pass.at]) \in Nat
  <2>. DEFINE at == pass.at
  <2>1. at \in 0..MaxHeight /\ at >= 1 /\ at <= Len(chain) /\ Len(chain) \in Nat
    BY <1>6, <1>7, Genesis, GoodBlock DEF ChainOK
  <2>. HIDE DEF at
  <2>2. at \in 1..Len(chain)
    BY <1>3, <2>1
  <2>3. ProposedBefore(chain[at]) \in 0..MaxHeight
    BY <2>2, GoodBlock DEF ChainOK
  <2>. QED
    BY <1>3, <2>3 DEF at
<1>10. ProposedBefore(l1Current) < FirstId
  <2>. DEFINE x == ProposedBefore(l1Current)
              y == ProposedBefore(chain[pass.at])
              z == FirstId
  <2>1. x \in Nat /\ y \in Nat /\ z \in Nat /\ x <= y /\ y < z
    BY <1>3, <1>6, <1>8, <1>9
  <2>. HIDE DEF x, y, z
  <2>2. x < z
    BY <2>1
  <2>. QED
    BY <2>2 DEF x, z
<1>. QED
  BY <1>1, <1>2, <1>3, <1>5, <1>6, <1>8, <1>10

\* Once the engine has the block of an event, the pass goes on to the next one.
LEMMA NextEventFollows ==
  ASSUME FState, Handling \/ pass.pc = "setHead", NextEvent, setup' = setup, chain' = chain,
         l1Current' = l1Current, Len(canon') \in Nat, E.id <= Len(canon')
  PROVE  PassFollows' /\ EventsFollow'
<1>. USE DEF FState, Follows, TInv
<1>. DEFINE ev == pass.events
            first == FirstId
            n == Len(ev)
            new == Len(canon')
            before == ProposedBefore(pass.end)
            b == E.in
<1>1. /\ E.id = first /\ first \in Nat /\ SameBefore(b) /\ ProposedBefore(b) = first - 1
      /\ ProposedBefore(l1Current) \in Nat /\ ProposedBefore(l1Current) < first
      /\ SameBefore(pass.end) /\ before \in Nat /\ before <= first + (n - 1)
  BY HandledFollows
<1>2. /\ Tail(ev) \in Seq(Event) /\ n \in Nat /\ n >= 1 /\ Len(Tail(ev)) = n - 1
      /\ \A i \in 1..(n - 1) : Tail(ev)[i] = ev[i + 1]
  BY HandledEvent
<1>3. /\ pass'.pc = "events" /\ pass'.events = Tail(ev) /\ pass'.end = pass.end /\ pass'.at = b.h
  BY NextPassOK DEF ChainOK
<1>4. new \in Nat /\ first <= new
  BY <1>1
<1>5. \A i \in 1..n : ev[i].id = first + (i - 1) /\ SameBefore(ev[i].in)
                      /\ ProposedBefore(ev[i].in) = ev[i].id - 1
  BY DEF EventsFollow
<1>6. b.h <= Len(chain) /\ ProposedBefore(chain[b.h]) = first - 1
  BY <1>1 DEF SameBefore
<1>. DEFINE x == ProposedBefore(l1Current)
            rest == Tail(ev)
<1>7. x <= first - 1 /\ first - 1 <= new
  <2>1. x \in Nat /\ x < first /\ first \in Nat /\ first <= new /\ new \in Nat
    BY <1>1, <1>4
  <2>. HIDE DEF x, first, new
  <2>. QED
    BY <2>1
<1>8. PassFollows'
  BY <1>1, <1>3, <1>6, <1>7 DEF PassFollows, SameBefore, ProposedBefore
<1>9. Runs'
  BY <1>3 DEF Runs
<1>10. \A i \in 1..Len(rest) :
         /\ rest[i].id = (first + 1) + (i - 1)
         /\ SameBefore(rest[i].in) /\ ProposedBefore(rest[i].in) = rest[i].id - 1
  <2>. TAKE i \in 1..Len(rest)
  <2>1. i + 1 \in 1..n /\ rest[i] = ev[i + 1] /\ i \in Nat
    BY <1>2
  <2>2. rest[i].id = first + ((i + 1) - 1)
    BY <1>5, <2>1
  <2>3. first + ((i + 1) - 1) = (first + 1) + (i - 1)
    <3>. HIDE DEF first
    <3>. QED
      BY <1>1, <2>1
  <2>. QED
    BY <1>5, <2>1, <2>2, <2>3
<1>11. CASE rest = <<>>
  <2>1. n = 1
    <3>1. Len(rest) = 0
      <4>1. Len(<<>>) = 0
        OBVIOUS
      <4>. HIDE DEF rest
      <4>. QED
        BY <1>11, <4>1
    <3>2. 0 = n - 1 /\ n \in Nat
      BY <1>2, <3>1
    <3>. HIDE DEF n
    <3>. QED
      BY <3>2
  <2>2. before <= new
    <3>1. before \in Nat /\ first \in Nat /\ new \in Nat /\ before <= first + (1 - 1) /\ first <= new
      BY <1>1, <1>4, <2>1
    <3>. HIDE DEF before, first, new
    <3>. QED
      BY <3>1
  <2>3. pass'.events = <<>> /\ 1..Len(<<>>) = {} /\ pass'.pc # "setHead"
    BY <1>3, <1>11
  <2>. HIDE DEF rest
  <2>4. EventsFollow'
    BY <1>3, <2>2, <2>3 DEF EventsFollow, ProposedBefore
  <2>. QED
    BY <1>8, <2>4
<1>12. CASE rest # <<>>
  <2>1. Len(rest) >= 1 /\ Len(rest) = n - 1 /\ Len(rest) \in Nat /\ 1 \in 1..Len(rest)
    <3>. DEFINE m == Len(rest)
    <3>1. rest \in Seq(Event) /\ rest # <<>>
      BY <1>2, <1>12
    <3>. HIDE DEF rest
    <3>2. m \in Nat /\ m # 0
      BY <3>1
    <3>. HIDE DEF m
    <3>3. m >= 1 /\ 1 \in 1..m
      BY <3>2
    <3>4. m = n - 1
      BY <1>2 DEF m, rest
    <3>. QED
      BY <3>2, <3>3, <3>4 DEF m
  <2>2. FirstId' = first + 1
    <3>1. FirstId' = rest[1].id
      BY <1>3 DEF FirstId
    <3>2. rest[1].id = (first + 1) + (1 - 1)
      BY <1>10, <2>1
    <3>3. (first + 1) + (1 - 1) = first + 1
      <4>. HIDE DEF first
      <4>. QED
        BY <1>1
    <3>. QED
      BY <3>1, <3>2, <3>3
  <2>3. first - 1 < first + 1 /\ first + 1 <= new + 1 /\ before <= (first + 1) + (Len(rest) - 1)
    <3>1. before \in Nat /\ first \in Nat /\ new \in Nat /\ before <= first + (n - 1) /\ first <= new
          /\ Len(rest) = n - 1 /\ n \in Nat
      BY <1>1, <1>2, <1>4
    <3>. HIDE DEF before, first, new, n, rest
    <3>. QED
      BY <3>1
  <2>4. pass'.events = rest /\ pass'.pc = "events" /\ pass'.at = b.h /\ pass'.end = pass.end
    BY <1>3
  <2>5. (\A i \in 1..Len(pass.events) :
           /\ pass.events[i].id = FirstId + (i - 1)
           /\ SameBefore(pass.events[i].in)
           /\ ProposedBefore(pass.events[i].in) = pass.events[i].id - 1)'
    <3>. HIDE DEF rest, first
    <3>. QED
      BY <1>10, <2>2, <2>4 DEF SameBefore, ProposedBefore
  <2>6. (pass.events # <<>> =>
           /\ Runs
           /\ ProposedBefore(chain[pass.at]) < FirstId
           /\ FirstId <= Len(canon) + 1
           /\ ProposedBefore(pass.end) <= FirstId + (Len(pass.events) - 1))'
    <3>. HIDE DEF rest, first, b
    <3>. QED
      BY <1>6, <1>9, <2>2, <2>3, <2>4 DEF ProposedBefore
  <2>7. EventsFollow'
    BY <1>12, <2>4, <2>5, <2>6 DEF EventsFollow
  <2>. QED
    BY <1>8, <2>7
<1>. QED
  BY <1>11, <1>12

\* A block that counts as inserted is one that the engine has.
LEMMA SkipFollows ==
  ASSUME FState, SkipInserted
  PROVE  Follows'
<1>. USE DEF FState, Follows, TInv
<1>1. /\ setup' = setup
      /\ UNCHANGED <<chain, canon, origin, headOrigin, target, l1Current, l1Head, lastInserted>>
      /\ Handling /\ NextEvent /\ E.id <= lastInserted
  BY DEF SkipInserted, AlreadyInserted, NumbersOK, l1Vars, engineVars
<1>2. CursorFollows'
  BY <1>1 DEF CursorFollows, SameBefore, ProposedBefore
<1>3. Len(canon') \in Nat /\ E.id <= Len(canon')
  <2>1. lastInserted \in 0..MaxHeight \cup {NoId} /\ lastInserted <= Len(canon) /\ Len(canon) \in Nat
        /\ MaxHeight \in Nat
    BY Bounds DEF HeadsOK, CursorFollows, EngineOK, ChainOK
  <2>2. E.id \in Nat /\ E.id <= lastInserted
    BY <1>1, HandledFollows
  <2>. DEFINE id == E.id
  <2>3. id \in Nat /\ id <= lastInserted
    BY <2>2
  <2>. HIDE DEF id
  <2>4. id <= Len(canon)
    BY <2>1, <2>3 DEF NoId
  <2>. QED
    BY <1>1, <2>1, <2>4 DEF id
<1>. QED
  BY <1>1, <1>2, <1>3, OriginsSame, NextEventFollows

\* What the engine writes down of a block that it builds.
LEMMA BuildFollows ==
  ASSUME FState, BuildBlock
  PROVE  Follows'
<1>. USE DEF FState, Follows, TInv
<1>1. /\ setup' = setup
      /\ UNCHANGED <<chain, canon, target, l1Current, l1Head, lastInserted>>
      /\ Handling /\ pass' = [pass EXCEPT !.pc = "setHead"] /\ headOrigin' = E.id
  BY BuildFacts DEF l1Vars
<1>2. PICK parent :
        /\ origin' = [origin EXCEPT ![E.id] = Append(parent, E.in)]
        /\ parent \in Seq(L1Block)
  BY BuildFacts
<1>3. /\ E.id = FirstId /\ FirstId \in BlockIds /\ FirstId \in Nat
      /\ E.in \in L1Block /\ SameBefore(E.in) /\ ProposedBefore(E.in) = FirstId - 1
      /\ FirstId <= Len(canon) + 1
  BY <1>1, HandledFollows
<1>. DEFINE b == E.in
            new == Append(parent, b)
            id == FirstId
<1>4. new # <<>> /\ Last(new) = b
  <2>1. parent \in Seq(L1Block) /\ b \in L1Block
    BY <1>2, <1>3
  <2>. HIDE DEF b
  <2>2. Len(new) = Len(parent) + 1 /\ Len(parent) \in Nat /\ new[Len(parent) + 1] = b
    BY <2>1
  <2>3. Len(new) # Len(<<>>)
    BY <2>2
  <2>. QED
    BY <2>2, <2>3 DEF Last
<1>5. /\ origin' = [origin EXCEPT ![id] = new] /\ id \in BlockIds /\ headOrigin' = id
      /\ SameBefore(b) /\ ProposedBefore(b) = id - 1 /\ id <= Len(canon) + 1
  BY <1>1, <1>2, <1>3
<1>6. origin \in [BlockIds -> Seq(L1Block)] /\ BlockIds' = BlockIds
  BY <1>1, SameTypes DEF EngineOK
<1>7. pass'.pc = "setHead" /\ pass'.events = pass.events /\ pass'.at = pass.at /\ pass'.end = pass.end
      /\ FirstId' = id /\ Runs /\ Runs' /\ pass.events # <<>>
  BY <1>1 DEF PassOK, Runs, Handling, FirstId
<1>. HIDE DEF new, id, b
<1>8. \A k \in BlockIds : origin'[k] = IF k = id THEN new ELSE origin[k]
  BY <1>5, <1>6
<1>9. OriginsFollow'
  <2>1. ASSUME NEW k \in BlockIds, origin'[k] # NoOrigin
        PROVE  (SameBefore(L1OriginByID(k)) /\ ProposedBefore(L1OriginByID(k)) = k - 1)'
    <3>1. CASE k = id
      BY <1>1, <1>4, <1>5, <1>8, <3>1 DEF L1OriginByID, SameBefore, ProposedBefore
    <3>2. CASE k # id
      BY <1>1, <1>8, <2>1, <3>2 DEF OriginsFollow, L1OriginByID, SameBefore, ProposedBefore
    <3>. QED
      BY <3>1, <3>2
  <2>. QED
    BY <1>6, <2>1 DEF OriginsFollow, NoOrigin
<1>10. CursorFollows'
  BY <1>1, <1>5 DEF CursorFollows, SameBefore, ProposedBefore
<1>11. PassFollows'
  BY <1>1, <1>7 DEF PassFollows, SameBefore, ProposedBefore
<1>12. EventsFollow'
  <2>1. origin'[id] # NoOrigin
    BY <1>4, <1>5, <1>8 DEF NoOrigin
  <2>2. FirstId = id
    BY DEF id
  <2>3. (\A i \in 1..Len(pass.events) :
           /\ pass.events[i].id = FirstId + (i - 1)
           /\ SameBefore(pass.events[i].in)
           /\ ProposedBefore(pass.events[i].in) = pass.events[i].id - 1)'
    BY <1>1, <1>7, <2>2 DEF EventsFollow, SameBefore, ProposedBefore
  <2>4. (pass.events # <<>> =>
           /\ Runs
           /\ ProposedBefore(chain[pass.at]) < FirstId
           /\ FirstId <= Len(canon) + 1
           /\ ProposedBefore(pass.end) <= FirstId + (Len(pass.events) - 1))'
    BY <1>1, <1>7, <2>2 DEF EventsFollow, ProposedBefore
  <2>. QED
    BY <1>5, <1>7, <2>1, <2>3, <2>4 DEF EventsFollow
<1>. QED
  BY <1>9, <1>10, <1>11, <1>12

\* The block that becomes the head has the number of its event.
LEMMA InsertFollows ==
  ASSUME FState, InsertBlock
  PROVE  Follows'
<1>. USE DEF FState, Follows, TInv
<1>1. /\ setup' = setup /\ UNCHANGED <<chain, origin, headOrigin, l1Current, l1Head>>
      /\ pass.pc = "setHead" /\ NextEvent
      /\ canon' = origin[E.id] /\ target' = <<>> /\ lastInserted' = E.id
  BY DEF InsertBlock, SetHead, l1Vars
<1>2. /\ E.id = FirstId /\ FirstId \in BlockIds /\ FirstId \in Nat
      /\ ProposedBefore(l1Current) \in Nat /\ ProposedBefore(l1Current) < FirstId
  BY <1>1, HandledFollows
<1>3. headOrigin = FirstId /\ origin[FirstId] # NoOrigin
  BY <1>1 DEF EventsFollow
<1>4. Len(origin[FirstId]) = FirstId
  BY <1>2, <1>3 DEF NumbersOK, NumberIsId
<1>5. Len(canon') = FirstId /\ lastInserted' = FirstId /\ headOrigin' = FirstId
  BY <1>1, <1>2, <1>3, <1>4
<1>6. ProposedBefore(l1Current) <= Len(canon') /\ lastInserted' <= Len(canon')
      /\ headOrigin' <= Len(canon') + 1 /\ E.id <= Len(canon') /\ Len(canon') \in Nat
  <2>. DEFINE id == FirstId
              x == ProposedBefore(l1Current)
  <2>1. id \in Nat /\ x \in Nat /\ x < id /\ Len(canon') = id /\ E.id = id
        /\ lastInserted' = id /\ headOrigin' = id
    BY <1>2, <1>5
  <2>. HIDE DEF id, x
  <2>2. x <= id /\ id <= id /\ id <= id + 1
    BY <2>1
  <2>. QED
    BY <2>1, <2>2 DEF x
<1>7. CursorFollows'
  BY <1>1, <1>6 DEF CursorFollows, SameBefore, ProposedBefore
<1>. QED
  BY <1>1, <1>6, <1>7, OriginsSame, NextEventFollows

\* After an error the iterator starts at the height of the last event again.
LEMMA ErrorFollows ==
  ASSUME FState, CallbackError
  PROVE  Follows'
<1>. USE DEF FState, Follows, TInv
<1>1. /\ setup' = setup
      /\ UNCHANGED <<chain, canon, origin, headOrigin, target, l1Current, l1Head, lastInserted>>
      /\ Runs /\ pass' = [pc |-> "iter", at |-> pass.at, end |-> pass.end, events |-> <<>>]
  BY DEF CallbackError, Handling, Runs, Passing, l1Vars, engineVars
<1>2. CursorFollows'
  BY <1>1 DEF CursorFollows, SameBefore, ProposedBefore
<1>3. pass'.pc = "iter" /\ pass'.at = pass.at /\ pass'.end = pass.end /\ pass'.events = <<>>
  BY <1>1
<1>4. PassFollows'
  BY <1>1, <1>3 DEF PassFollows, SameBefore, ProposedBefore
<1>5. Len(pass'.events) = 0 /\ 1..0 = {} /\ pass'.pc # "events" /\ pass'.pc # "setHead"
  BY <1>3
<1>6. EventsFollow'
  BY <1>3, <1>5 DEF EventsFollow
<1>. QED
  BY <1>1, <1>2, <1>4, <1>6, OriginsSame

\* A pass that ends has handled what comes before its end.
LEMMA FinishFollows ==
  ASSUME FState, FinishPass
  PROVE  Follows'
<1>. USE DEF FState, Follows, TInv
<1>1. /\ setup' = setup /\ setup \in Setups /\ GoodChain(chain)
      /\ UNCHANGED <<chain, canon, origin, headOrigin, target, l1Head, lastInserted>>
      /\ l1Current' = pass.end /\ Go("idle") /\ Runs
      /\ \/ pass.pc = "iter" /\ pass.at >= pass.end.h
         \/ pass.pc = "events" /\ pass.events = <<>>
  BY DEF FinishPass, Runs, l1Vars, engineVars, ChainOK
<1>2. pass.end \in L1Block /\ SameBefore(pass.end) /\ pass.at <= Len(chain) /\ pass.at >= 1
      /\ pass.at \in 0..MaxHeight /\ ProposedBefore(chain[pass.at]) <= Len(canon)
  BY <1>1 DEF PassOK, PassFollows
<1>3. pass.end.h \in 1..Len(chain) /\ ProposedBefore(pass.end) \in Nat /\ Len(canon) \in Nat
      /\ Len(chain) \in Nat /\ MaxHeight \in Nat
  BY <1>2, BeforeNat, Genesis, GoodBlock DEF ChainOK, EngineOK
<1>4. ProposedBefore(pass.end) <= Len(canon)
  <2>1. CASE pass.pc = "iter" /\ pass.at >= pass.end.h
    <3>. DEFINE at == pass.at
                to == pass.end.h
    <3>1. at \in 0..MaxHeight /\ at >= 1 /\ at <= Len(chain) /\ to \in 1..Len(chain) /\ to <= at
      BY <1>2, <1>3, <2>1
    <3>2. ProposedBefore(pass.end) = ProposedBefore(chain[to]) /\ ProposedBefore(chain[at]) <= Len(canon)
      BY <1>2 DEF SameBefore
    <3>. HIDE DEF at, to
    <3>3. at \in 1..Len(chain)
      BY <1>3, <3>1
    <3>. DEFINE x == ProposedBefore(chain[to])
                y == ProposedBefore(chain[at])
    <3>4. x <= y
      BY <1>1, <3>1, <3>3, BeforeGrows
    <3>5. x \in 0..MaxHeight /\ y \in 0..MaxHeight /\ y <= Len(canon)
      BY <1>1, <3>1, <3>2, <3>3, GoodBlock
    <3>. HIDE DEF x, y
    <3>6. x <= Len(canon)
      BY <1>3, <3>4, <3>5
    <3>. QED
      BY <3>2, <3>6 DEF x
  <2>2. CASE pass.pc = "events" /\ pass.events = <<>>
    BY <2>2 DEF EventsFollow
  <2>. QED
    BY <1>1, <2>1, <2>2
<1>5. CursorFollows'
  BY <1>1, <1>2, <1>4 DEF CursorFollows, SameBefore, ProposedBefore
<1>. QED
  BY <1>1, <1>5, OriginsSame, GoFollows

\* The iterator reads every proposal from the height it is at to the end.
LEMMA FetchFollows ==
  ASSUME FState, FetchEvents
  PROVE  Follows'
<1>. USE DEF FState, Follows, TInv
<1>1. /\ setup' = setup /\ setup \in Setups /\ GoodChain(chain)
      /\ UNCHANGED <<chain, canon, origin, headOrigin, target, l1Current, l1Head, lastInserted>>
      /\ pass.pc = "iter" /\ Runs /\ pass.at < pass.end.h /\ pass.end.h <= Len(chain)
      /\ pass' = [pass EXCEPT !.pc = "events", !.events = EventsBetween(pass.at, pass.end.h)]
  BY DEF FetchEvents, Runs, l1Vars, engineVars, ChainOK
<1>2. pass.end \in L1Block /\ SameBefore(pass.end) /\ pass.at >= 1 /\ pass.at \in 0..MaxHeight
      /\ pass.at <= Len(chain) /\ ProposedBefore(chain[pass.at]) <= Len(canon)
      /\ ProposedBefore(l1Current) <= ProposedBefore(chain[pass.at])
  BY <1>1 DEF PassOK, PassFollows
<1>3. pass.end.h \in 1..Len(chain) /\ Len(canon) \in Nat /\ Len(chain) \in Nat /\ MaxHeight \in Nat
  BY <1>2, BeforeNat, Genesis, GoodBlock DEF ChainOK, EngineOK
<1>. DEFINE at == pass.at
            to == pass.end.h
            low == ProposedBefore(chain[at])
            high == chain[to].proposed
            ev == EventsBetween(at, to)
            n == Len(ev)
<1>4. at \in 1..Len(chain) /\ to \in 1..Len(chain) /\ at <= to /\ SameBefore(pass.end)
      /\ ProposedBefore(pass.end) = ProposedBefore(chain[to])
      /\ low <= Len(canon) /\ ProposedBefore(l1Current) <= low
  <2>1. at \in 0..MaxHeight /\ at >= 1 /\ at < to /\ at <= Len(chain) /\ to \in 1..Len(chain)
    BY <1>1, <1>2, <1>3
  <2>2. ProposedBefore(pass.end) = ProposedBefore(chain[to])
    BY <1>2 DEF SameBefore
  <2>3. low <= Len(canon) /\ ProposedBefore(l1Current) <= low /\ SameBefore(pass.end)
    BY <1>2
  <2>. HIDE DEF at, to, low
  <2>4. at \in 1..Len(chain) /\ at <= to
    BY <1>3, <2>1
  <2>. QED
    BY <2>1, <2>2, <2>3, <2>4
<1>5. pass'.pc = "events" /\ pass'.events = ev /\ pass'.at = at /\ pass'.end = pass.end
  BY <1>1 DEF PassOK
<1>. HIDE DEF at, to
<1>6. /\ ev \in Seq(Event) /\ low \in Nat /\ high \in Nat /\ n = high - low
      /\ \A i \in 1..n :
           /\ low + i \in 1..LastProposed(chain)
           /\ ev[i] = [id |-> low + i, in |-> Proposal(chain, low + i)]
  BY <1>4, EventsFacts
<1>7. ProposedBefore(pass.end) \in Nat /\ ProposedBefore(pass.end) <= high
  <2>1. ProposedBefore(chain[to]) \in 0..MaxHeight /\ ProposedBefore(chain[to]) <= high
    BY <1>1, <1>4, GoodBlock
  <2>. HIDE DEF high
  <2>. QED
    BY <1>3, <1>4, <2>1
<1>. HIDE DEF low, high, ev
<1>8. n \in Nat
  BY <1>6
<1>. HIDE DEF n
<1>9. ASSUME NEW i \in 1..n
      PROVE  /\ ev[i].id = low + i
             /\ SameBefore(ev[i].in) /\ ProposedBefore(ev[i].in) = ev[i].id - 1
  <2>. DEFINE id == low + i
              b == Proposal(chain, id)
  <2>1. id \in 1..LastProposed(chain) /\ ev[i] = [id |-> id, in |-> b]
    BY <1>6
  <2>. HIDE DEF id
  <2>2. b.h \in 2..Len(chain) /\ chain[b.h] = b /\ ProposedBefore(b) = id - 1
    BY <1>1, <2>1, ProposalFacts
  <2>. HIDE DEF b
  <2>3. b.h <= Len(chain)
    BY <1>3, <2>2
  <2>4. SameBefore(b)
    BY <2>2, <2>3 DEF SameBefore
  <2>. QED
    BY <2>1, <2>2, <2>4 DEF id
<1>10. CursorFollows' /\ OriginsFollow'
  BY <1>1, OriginsSame DEF CursorFollows, SameBefore, ProposedBefore
<1>11. Runs'
  BY <1>5 DEF Runs
<1>12. PassFollows'
  BY <1>1, <1>2, <1>5 DEF PassFollows, SameBefore, ProposedBefore, at
<1>13. CASE ev = <<>>
  <2>1. n = 0 /\ 1..0 = {}
    BY <1>13 DEF n
  <2>2. high = low
    BY <1>6, <2>1
  <2>3. ProposedBefore(pass.end) <= Len(canon)
    <3>. DEFINE x == ProposedBefore(pass.end)
    <3>1. x \in Nat /\ x <= high /\ high = low /\ low <= Len(canon)
      BY <1>4, <1>7, <2>2
    <3>. HIDE DEF x
    <3>2. x <= Len(canon)
      BY <1>3, <1>6, <3>1
    <3>. QED
      BY <3>2 DEF x
  <2>4. pass'.events = <<>> /\ Len(<<>>) = 0 /\ pass'.pc # "setHead"
    BY <1>5, <1>13
  <2>5. EventsFollow'
    BY <1>1, <1>5, <2>1, <2>3, <2>4 DEF EventsFollow, ProposedBefore
  <2>. QED
    BY <1>10, <1>12, <2>5
<1>14. CASE ev # <<>>
  <2>1. n >= 1 /\ 1 \in 1..n
    <3>1. n \in Nat /\ n # 0
      BY <1>6, <1>14 DEF n
    <3>. QED
      BY <3>1
  <2>2. FirstId' = low + 1
    BY <1>5, <1>9, <2>1 DEF FirstId
  <2>3. \A i \in 1..n : ev[i].id = (low + 1) + (i - 1)
    <3>. TAKE i \in 1..n
    <3>1. ev[i].id = low + i
      BY <1>9
    <3>2. low + i = (low + 1) + (i - 1)
      BY <1>6, <1>8
    <3>. QED
      BY <3>1, <3>2
  <2>4. (\A i \in 1..Len(pass.events) :
           /\ pass.events[i].id = FirstId + (i - 1)
           /\ SameBefore(pass.events[i].in)
           /\ ProposedBefore(pass.events[i].in) = pass.events[i].id - 1)'
    BY <1>1, <1>5, <1>9, <2>2, <2>3 DEF SameBefore, ProposedBefore, n
  <2>5. low < low + 1 /\ low + 1 <= Len(canon) + 1
        /\ ProposedBefore(pass.end) <= (low + 1) + (n - 1)
    <3>. DEFINE x == ProposedBefore(pass.end)
    <3>1. x \in Nat /\ x <= high /\ n = high - low /\ low <= Len(canon)
      BY <1>4, <1>6, <1>7 DEF n
    <3>. HIDE DEF x
    <3>2. low < low + 1 /\ low + 1 <= Len(canon) + 1 /\ x <= (low + 1) + (n - 1)
      BY <1>3, <1>6, <3>1
    <3>. QED
      BY <3>2 DEF x
  <2>6. (pass.events # <<>> =>
           /\ Runs
           /\ ProposedBefore(chain[pass.at]) < FirstId
           /\ FirstId <= Len(canon) + 1
           /\ ProposedBefore(pass.end) <= FirstId + (Len(pass.events) - 1))'
    <3>1. ProposedBefore(chain[at]) < low + 1
      BY <2>5 DEF low
    <3>. QED
      BY <1>1, <1>5, <1>11, <2>2, <2>5, <3>1 DEF ProposedBefore, n
  <2>7. EventsFollow'
    BY <1>5, <1>14, <2>4, <2>6 DEF EventsFollow
  <2>. QED
    BY <1>10, <1>12, <2>7
<1>. QED
  BY <1>13, <1>14

\* Every step of a driver without beacon sync keeps what its cursor follows.
LEMMA NextFollows ==
  ASSUME FState, ~P2PSync, MaxDepth <= 1, [Next]_vars
  PROVE  Follows'
<1>1. CASE DriverStep
  BY <1>1, LoopFollows, SyncFollows, ProcessFollows, FetchFollows, FinishFollows, ResetFollows,
     SkipFollows, BuildFollows, ErrorFollows, InsertFollows DEF DriverStep
<1>2. CASE Restart
  BY <1>2, RestartFollows
<1>3. CASE L1Next /\ UNCHANGED <<engineVars, driverVars, faults>>
  BY <1>3, L1NextFollows
<1>4. CASE \/ BeaconSynced /\ UNCHANGED <<l1Vars, driverVars, faults>>
           \/ UpdateL1Head \/ UpdateL2Head \/ Track \/ UNCHANGED vars
  BY <1>4, LoopFollows
<1>. QED
  BY <1>1, <1>2, <1>3, <1>4 DEF Next

\* So it holds in every state.
LEMMA FollowsAlways ==
  MaxDepth <= 1 => (Spec => [](~P2PSync => Follows))
<1>. SUFFICES ASSUME MaxDepth <= 1 PROVE Spec => [](~P2PSync => Follows)
  OBVIOUS
<1>1. Init => (~P2PSync => Follows)
  BY InitFollows
<1>2. /\ TInv /\ (~P2PSync => NumbersOK) /\ (~P2PSync => Follows) /\ [Next]_vars
      => (~P2PSync => Follows)'
  <2>. SUFFICES ASSUME TInv, ~P2PSync => NumbersOK, ~P2PSync => Follows, [Next]_vars, ~P2PSync'
               PROVE  Follows'
    OBVIOUS
  <2>1. setup' = setup
    BY NextSetup
  <2>2. ~P2PSync
    BY <2>1, SameTypes
  <2>. QED
    BY <2>2, NextFollows DEF FState
<1>. QED
  BY <1>1, <1>2, TInvAlways, NumbersAlways, PTL DEF Spec

\* A driver without beacon sync, on a chain whose reorgs replace one block: whatever the
\* order of its goroutines, the reorgs and the crashes, its cursor is never past an L1
\* block whose earlier proposals its engine lacks, so no proposal is passed over.
THEOREM DriverCursor ==
  MaxDepth <= 1 => (Spec => [](~P2PSync => CursorNotAhead))
<1>. SUFFICES ASSUME MaxDepth <= 1 PROVE Spec => [](~P2PSync => CursorNotAhead)
  OBVIOUS
<1>1. (~P2PSync => Follows) => (~P2PSync => CursorNotAhead)
  BY DEF Follows, CursorFollows, CursorNotAhead
<1>. QED
  BY <1>1, FollowsAlways, PTL
================================================================================
