------------------------------ MODULE SignalService ------------------------------
(***************************************************************************)
(* The SignalService contracts of several chains: signals sent, roots of   *)
(* one chain synced to another, and signals proven over one or more hops,  *)
(* with the roots of the hops cached.  slots[c] is the contract's storage  *)
(* on chain c and blocks[c][h] that storage at the end of block h: a root  *)
(* <<kind, c, h>> stands for the hash of the latter.                       *)
(***************************************************************************)
EXTENDS Integers, SequencesExt

CONSTANTS
  Chains,
  SyncedTo,   \* pairs <<c, d>>: a contract authorized on c syncs the roots of d
  Apps,       \* senders of signals, the same address on every chain
  Signals,
  Options,    \* CacheOption values that provers use
  Senders,    \* bound: the chains where signals are sent
  MaxBlocks,  \* bound: [Chains -> Nat], blocks of each chain
  MaxHops     \* bound: hops of a proof

Service == "signal_service"
Kinds == {"state", "signal"}
Data(d, kind, blockId) == <<"data", d, kind, blockId>>  \* signalForChainData
Forged(kind) == <<kind, "none", 0>>     \* the root of a trie a prover made up
BlockIds == 1 .. Max(Range(MaxBlocks))
Roots == (Kinds \X Chains \X BlockIds) \cup {Forged(kind) : kind \in Kinds}

\* The slot of a signal depends on the chain that stores it.
GetSignalSlot(c, app, signal) == <<c, app, signal>>

CacheOption == {"NOTHING", "SIGNAL_ROOT", "STATE_ROOT", "BOTH"}

\* A prover's claim about one hop: with an account proof the root is a state
\* root, without one it is a signal root.
Hop == [chainId : Chains, blockId : BlockIds, rootHash : Roots, cacheOption : Options]
IsFullProof(hop) == hop.rootHash[1] = "state"

NoValue == <<>>  \* bytes32(0)

ASSUME SignalAssumption ==
  /\ SyncedTo \subseteq {pair \in Chains \X Chains : pair[1] # pair[2]}
  /\ Options \subseteq CacheOption /\ Senders \subseteq Chains
  /\ MaxBlocks \in [Chains -> Nat] /\ MaxHops \in Nat
  /\ "none" \notin Chains /\ Service \notin Apps
  /\ NoValue \notin Signals  \* nonZeroValue
  /\ IsFiniteSet(Chains)

VARIABLES
  slots,       \* [Chains -> slot -> value], what is not in the domain is 0
  topBlockId,  \* [Chains -> [Chains \X Kinds -> block id]]
  blocks,      \* [Chains -> Seq(storage)]: the history behind the roots
  received     \* history: <<c, src, app, signal>> that proveSignalReceived accepted

vars == <<slots, topBlockId, blocks, received>>

Load(storage, slot) == IF slot \in DOMAIN storage THEN storage[slot] ELSE NoValue
Store(storage, slot, value) ==
  [x \in DOMAIN storage \cup {slot} |-> IF x = slot THEN value ELSE storage[x]]

Init ==
  /\ slots = [c \in Chains |-> <<>>]
  /\ topBlockId = [c \in Chains |-> [data \in Chains \X Kinds |-> 0]]
  /\ blocks = [c \in Chains |-> <<>>]
  /\ received = {}

SendSignal(c, app, signal) ==
  /\ slots' = [slots EXCEPT ![c] = Store(@, GetSignalSlot(c, app, signal), signal)]
  /\ UNCHANGED <<topBlockId, blocks, received>>

\* Chain c ends a block: its storage gets a root.  A block that leaves the
\* storage as it was is not counted.
Seal(c) ==
  /\ Len(blocks[c]) < MaxBlocks[c]
  /\ slots[c] # (IF blocks[c] = <<>> THEN <<>> ELSE Last(blocks[c]))
  /\ blocks' = [blocks EXCEPT ![c] = Append(@, slots[c])]
  /\ UNCHANGED <<slots, topBlockId, received>>

----------------------------------------------------------------------------------
(* Chain data.  `items` are records [d, kind, blockId, value] to store.    *)
SyncedSlots(c, items) ==
  LET slotOf(item) == GetSignalSlot(c, Service, Data(item.d, item.kind, item.blockId))
      written == {slotOf(item) : item \in items}
  IN  [slot \in DOMAIN slots[c] \cup written |->
         IF slot \in written THEN (CHOOSE item \in items : slotOf(item) = slot).value
         ELSE slots[c][slot]]

SyncedTop_Latest(c, items) == \* mutation: the last one synced is the top
  [data \in Chains \X Kinds |->
     LET ids == {item.blockId : item \in {x \in items : <<x.d, x.kind>> = data}}
     IN  IF ids = {} THEN topBlockId[c][data] ELSE Max(ids)]
SyncedTop(c, items) ==
  [data \in Chains \X Kinds |->
     Max({topBlockId[c][data]} \cup {item.blockId : item \in {x \in items : <<x.d, x.kind>> = data}})]

Synced(c, items) ==
  /\ slots' = [slots EXCEPT ![c] = SyncedSlots(c, items)]
  /\ topBlockId' = [topBlockId EXCEPT ![c] = SyncedTop(c, items)]

\* TaikoL1 and TaikoL2 sync the state root of a block of the other chain.
SyncChainData(c, d, blockId) ==
  /\ <<c, d>> \in SyncedTo
  /\ blockId \in DOMAIN blocks[d]
  /\ Synced(c, {[d |-> d, kind |-> "state", blockId |-> blockId, value |-> <<"state", d, blockId>>]})
  /\ UNCHANGED <<blocks, received>>

----------------------------------------------------------------------------------
(* Proofs.  Hop i is a step from chain ChainAt(i) to hops[i].chainId.      *)
ChainAt(src, hops, i) == IF i = 1 THEN src ELSE hops[i - 1].chainId

\* The signal by which hop i is known on hops[i].chainId.
HopSignal(src, hops, i) ==
  Data(ChainAt(src, hops, i), hops[i].rootHash[1], hops[i].blockId)

\* A Merkle proof shows what the trie behind a root holds; a prover can make
\* one up for a root that is no block's.
VerifyMerkleProof(root, slot, value) ==
  root # Forged(root[1]) =>
    /\ root[3] \in DOMAIN blocks[root[2]]
    /\ Load(blocks[root[2]][root[3]], slot) = value

VerifyHopProof_RootsOnly(src, app, signal, hops, i) == \* mutation: the signal itself is not checked
  i # 1 => VerifyMerkleProof(hops[i].rootHash,
                             GetSignalSlot(hops[i - 1].chainId, Service, HopSignal(src, hops, i - 1)),
                             hops[i - 1].rootHash)
VerifyHopProof(src, app, signal, hops, i) ==
  LET chainId == ChainAt(src, hops, i)
  IN  IF i = 1
      THEN VerifyMerkleProof(hops[1].rootHash, GetSignalSlot(chainId, app, signal), signal)
      ELSE VerifyMerkleProof(hops[i].rootHash,
                             GetSignalSlot(chainId, Service, HopSignal(src, hops, i - 1)),
                             hops[i - 1].rootHash)

VerifySignalReceived(c, src, app, signal, hops) ==
  LET n == Len(hops)
  IN  /\ n > 0 /\ src # c
      /\ hops[n].chainId = c
      /\ Load(slots[c], GetSignalSlot(c, Service, HopSignal(src, hops, n))) = hops[n].rootHash
      /\ \A i \in 1 .. n : VerifyHopProof(src, app, signal, hops, i)
      /\ \A i, j \in 1 .. n : i < j => hops[i].chainId # hops[j].chainId

CachesStateRoot(hops, i) ==
  /\ hops[i].cacheOption \in {"BOTH", "STATE_ROOT"}
  /\ IsFullProof(hops[i]) /\ i # Len(hops)
CachesSignalRoot(hops, i) ==
  /\ hops[i].cacheOption \in {"BOTH", "SIGNAL_ROOT"}
  /\ IsFullProof(hops[i]) \/ i # Len(hops)

\* mutation: cached for the chain a hop leads to
Cached_WrongChain(src, hops) ==
  {[d |-> hops[i].chainId, kind |-> "state", blockId |-> hops[i].blockId,
    value |-> hops[i].rootHash] : i \in {j \in DOMAIN hops : CachesStateRoot(hops, j)}}
  \cup
  {[d |-> hops[i].chainId, kind |-> "signal", blockId |-> hops[i].blockId,
    value |-> [hops[i].rootHash EXCEPT ![1] = "signal"]] :
      i \in {j \in DOMAIN hops : CachesSignalRoot(hops, j)}}
Cached(src, hops) ==
  {[d |-> ChainAt(src, hops, i), kind |-> "state", blockId |-> hops[i].blockId,
    value |-> hops[i].rootHash] : i \in {j \in DOMAIN hops : CachesStateRoot(hops, j)}}
  \cup
  {[d |-> ChainAt(src, hops, i), kind |-> "signal", blockId |-> hops[i].blockId,
    value |-> [hops[i].rootHash EXCEPT ![1] = "signal"]] :
      i \in {j \in DOMAIN hops : CachesSignalRoot(hops, j)}}

ProveSignalReceived(c, src, app, signal, hops) ==
  /\ VerifySignalReceived(c, src, app, signal, hops)
  /\ Synced(c, Cached(src, hops))
  /\ received' = received \cup {<<c, src, app, signal>>}
  /\ UNCHANGED blocks

\* The proofs worth trying: any other names a root that is no block's and not
\* made up, or ends in a root that c has not stored, and reverts.
Proofs(c) ==
  LET last == {h \in Hop : h.chainId = c /\ h.rootHash \in Range(slots[c])}
      before == {h \in Hop : /\ h.chainId # c
                             /\ h.rootHash[2] \in Chains =>
                                  h.rootHash[3] \in DOMAIN blocks[h.rootHash[2]]}
  IN  UNION {{Append(hops, h) : hops \in [1 .. n - 1 -> before], h \in last} : n \in 1 .. MaxHops}

Next ==
  \/ \E c \in Senders, app \in Apps, signal \in Signals : SendSignal(c, app, signal)
  \/ \E c \in Chains : Seal(c)
  \/ \E c, d \in Chains, blockId \in BlockIds : SyncChainData(c, d, blockId)
  \/ \E c \in Chains : \E hops \in Proofs(c), src \in Chains, app \in Apps, signal \in Signals :
       ProveSignalReceived(c, src, app, signal, hops)

Spec == Init /\ [][Next]_vars

----------------------------------------------------------------------------------
(* Properties *)

\* A signal accepted from a chain was sent on that chain by that app, over
\* whatever hops, roots made up on the way and cached roots it was proven.
ProvenWasSent ==
  \A r \in received : Load(slots[r[2]], GetSignalSlot(r[2], r[3], r[4])) = r[4]

\* What a chain stores as the data of block b of chain d is a root of that
\* block, and d is another chain: proofs never make a made-up or misplaced
\* root trusted by caching it (_cache, _syncChainData).
ChainDataTrue ==
  \A c, d \in Chains, kind \in Kinds, b \in BlockIds :
    LET root == Load(slots[c], GetSignalSlot(c, Service, Data(d, kind, b)))
    IN  root # NoValue => root = <<kind, d, b>> /\ b \in DOMAIN blocks[d] /\ c # d

\* topBlockId is the newest stored block: getSyncedChainData(.., 0) never
\* reverts with SS_SIGNAL_NOT_FOUND, in whatever order blocks are synced.
TopIsStored ==
  \A c, d \in Chains, kind \in Kinds :
    LET stored == {b \in BlockIds :
                     Load(slots[c], GetSignalSlot(c, Service, Data(d, kind, b))) # NoValue}
    IN  topBlockId[c][<<d, kind>>] = Max(stored \cup {0})

==================================================================================
