----------------------------- MODULE ServicesProofs -----------------------------
(***************************************************************************)
(* Proofs about the two contracts that the bridge calls.                   *)
(*                                                                         *)
(* SignalService, for any chains, whichever of them sync each other, any   *)
(* number of blocks and proofs over any number of hops: a chain stores     *)
(* roots of other chains' blocks only, accepts only signals that were      *)
(* sent, and knows the newest block it stores.                             *)
(*                                                                         *)
(* QuotaManager, for any tokens, quotas, periods and amounts, and any      *)
(* number of consumptions: a quota never wraps, no window of time releases *)
(* more than the quota and the refill of the window, and what was consumed *)
(* a period ago is available again but for the rounding of the             *)
(* consumptions since.                                                     *)
(***************************************************************************)
EXTENDS SignalService, QuotaManager, TotalsProofs

--------------------------------------------------------------------------------
(* SignalService *)

\* What a contract may hold: signals of apps and roots of blocks.
DataSignals == {Data(d, kind, b) : d \in Chains, kind \in Kinds, b \in BlockIds}
Storages ==
  UNION {[S -> Signals \cup Roots] : S \in SUBSET (Chains \X (Apps \cup {Service})
                                                    \X (Signals \cup DataSignals))}

\* What storage s of chain c has for block b of chain d.
SyncedData(s, c, d, kind, b) == Load(s, GetSignalSlot(c, Service, Data(d, kind, b)))

\* Storage s of chain c holds true roots only.
TrueRoots(s, c) ==
  \A d \in Chains, kind \in Kinds, b \in BlockIds :
    SyncedData(s, c, d, kind, b) # NoValue =>
      /\ SyncedData(s, c, d, kind, b) = <<kind, d, b>>
      /\ b \in DOMAIN blocks[d] /\ c # d

\* The signals that apps sent by the time of storage s of chain c are in its storage t.
Kept(s, t, c) ==
  \A app \in Apps, signal \in Signals :
    Load(s, GetSignalSlot(c, app, signal)) = signal => Load(t, GetSignalSlot(c, app, signal)) = signal

\* topBlockId of chain c is a stored block and no stored block is newer.
Newest(s, tops, c) ==
  \A d \in Chains, kind \in Kinds :
    /\ tops[<<d, kind>>] \in BlockIds \cup {0}
    /\ tops[<<d, kind>>] # 0 => SyncedData(s, c, d, kind, tops[<<d, kind>>]) # NoValue
    /\ \A b \in BlockIds : SyncedData(s, c, d, kind, b) # NoValue => b <= tops[<<d, kind>>]

StorageOK ==
  /\ slots \in [Chains -> Storages]
  /\ DOMAIN topBlockId = Chains
  /\ \A c \in Chains : DOMAIN topBlockId[c] = Chains \X Kinds
  /\ blocks \in [Chains -> Seq(Storages)]
  /\ received \subseteq Chains \X Chains \X Apps \X Signals

\* What holds of a chain's storage held of it at the end of each of its blocks, which is
\* what makes a proof against a root of the block worth as much as the storage.
HistoryOK ==
  \A c \in Chains : \A h \in DOMAIN blocks[c] :
    TrueRoots(blocks[c][h], c) /\ Kept(blocks[c][h], slots[c], c)

IInv ==
  /\ StorageOK
  /\ HistoryOK
  /\ \A c \in Chains : TrueRoots(slots[c], c)
  /\ \A c \in Chains : Newest(slots[c], topBlockId[c], c)
  /\ ProvenWasSent

----------------------------------------------------------------------------------
(* Numbers of blocks *)

\* The values of a function with a finite domain are finitely many.
LEMMA FiniteRange ==
  ASSUME NEW f, IsFiniteSet(DOMAIN f)
  PROVE  IsFiniteSet({f[x] : x \in DOMAIN f})
<1>. DEFINE T == {f[x] : x \in DOMAIN f}
            g == [x \in DOMAIN f |-> f[x]]
<1>1. g \in Surjection(DOMAIN f, T)
  BY DEF Surjection
<1>. HIDE DEF T, g
<1>2. IsFiniteSet(T)
  BY <1>1, FS_Surjection
<1>. QED
  BY <1>2 DEF T

\* An upper bound that is a member is the maximum.
LEMMA MaxOf ==
  ASSUME NEW S, S \subseteq Int, NEW m \in S, \A x \in S : x <= m
  PROVE  Max(S) = m
<1>1. \E x \in S : \A y \in S : x >= y
  OBVIOUS
<1>2. Max(S) \in S /\ \A y \in S : Max(S) >= y
  BY <1>1 DEF Max
<1>3. Max(S) \in Int /\ m \in Int /\ Max(S) >= m /\ Max(S) <= m
  BY <1>2
<1>. QED
  BY <1>3

\* 0 is no block: it asks for the newest one.
LEMMA BlockIdsArePositive ==
  ASSUME NEW c \in Chains
  PROVE  BlockIds \subseteq Nat \ {0}
<1>1. Range(MaxBlocks) = {MaxBlocks[d] : d \in Chains}
  BY SignalAssumption DEF Range
<1>2. IsFiniteSet(Range(MaxBlocks)) /\ Range(MaxBlocks) \subseteq Int
  BY <1>1, SignalAssumption, FiniteRange
<1>3. PICK m \in Range(MaxBlocks) : \A x \in Range(MaxBlocks) : x <= m
  BY <1>1, <1>2, GreatestExists
<1>4. Max(Range(MaxBlocks)) \in Int
  BY <1>2, <1>3, MaxOf
<1>. QED
  BY <1>4 DEF BlockIds

----------------------------------------------------------------------------------
(* Storage *)

\* Reading after a write.
LEMMA LoadAfterStore ==
  ASSUME NEW s, NEW slot, NEW value, NEW x
  PROVE  Load(Store(s, slot, value), x) = IF x = slot THEN value ELSE Load(s, x)
BY DEF Load, Store

\* Storages are partial functions.
LEMMA StorageHasDomain ==
  ASSUME NEW s
  PROVE  s \in Storages <=>
           /\ s = [x \in DOMAIN s |-> s[x]]
           /\ DOMAIN s \subseteq Chains \X (Apps \cup {Service}) \X (Signals \cup DataSignals)
           /\ \A x \in DOMAIN s : s[x] \in Signals \cup Roots
<1>1. ASSUME s \in Storages
      PROVE  /\ s = [x \in DOMAIN s |-> s[x]]
             /\ DOMAIN s \subseteq Chains \X (Apps \cup {Service}) \X (Signals \cup DataSignals)
             /\ \A x \in DOMAIN s : s[x] \in Signals \cup Roots
  BY <1>1 DEF Storages
<1>2. ASSUME s = [x \in DOMAIN s |-> s[x]],
             DOMAIN s \subseteq Chains \X (Apps \cup {Service}) \X (Signals \cup DataSignals),
             \A x \in DOMAIN s : s[x] \in Signals \cup Roots
      PROVE  s \in Storages
  <2>1. s \in [DOMAIN s -> Signals \cup Roots]
    BY <1>2
  <2>. QED
    BY <1>2, <2>1 DEF Storages
<1>. QED
  BY <1>1, <1>2

\* The slots of chain data are distinct from each other and from those of signals.
LEMMA DataSlots ==
  ASSUME NEW c, NEW d, NEW kind, NEW b, NEW d2, NEW kind2, NEW b2
  PROVE  GetSignalSlot(c, Service, Data(d, kind, b)) = GetSignalSlot(c, Service, Data(d2, kind2, b2))
           <=> d = d2 /\ kind = kind2 /\ b = b2
BY DEF GetSignalSlot, Data

\* An application and the service never share a slot.
LEMMA AppSlots ==
  ASSUME NEW c, NEW app \in Apps, NEW signal, NEW data
  PROVE  GetSignalSlot(c, app, signal) # GetSignalSlot(c, Service, data)
BY SignalAssumption DEF GetSignalSlot

\* Records of data to store that are true: the data of other chains' blocks.
GoodItems(c, items) ==
  /\ IsFiniteSet(items)
  /\ \A item \in items :
       /\ item.d \in Chains /\ item.d # c
       /\ item.kind \in Kinds
       /\ item.blockId \in BlockIds /\ item.blockId \in DOMAIN blocks[item.d]
       /\ item.value = <<item.kind, item.d, item.blockId>>

\* Chain data after a sync is what was synced, or what was there.
LEMMA LoadAfterSync ==
  ASSUME NEW c \in Chains, NEW items, GoodItems(c, items)
  PROVE  \A d \in Chains, kind \in Kinds, b \in BlockIds :
           SyncedData(SyncedSlots(c, items), c, d, kind, b) =
             IF \E item \in items : item.d = d /\ item.kind = kind /\ item.blockId = b
             THEN <<kind, d, b>> ELSE SyncedData(slots[c], c, d, kind, b)
<1>. TAKE d \in Chains, kind \in Kinds, b \in BlockIds
<1>. DEFINE slotOf(item) == GetSignalSlot(c, Service, Data(item.d, item.kind, item.blockId))
            slot == GetSignalSlot(c, Service, Data(d, kind, b))
            written == {slotOf(item) : item \in items}
<1>1. \A item \in items : slotOf(item) = slot <=> item.d = d /\ item.kind = kind /\ item.blockId = b
  BY DataSlots
<1>2. SyncedSlots(c, items) =
        [x \in DOMAIN slots[c] \cup written |->
           IF x \in written THEN (CHOOSE item \in items : slotOf(item) = x).value
           ELSE slots[c][x]]
  BY DEF SyncedSlots
<1>. HIDE DEF slotOf, slot
<1>3. CASE \E item \in items : item.d = d /\ item.kind = kind /\ item.blockId = b
  <2>. DEFINE it == CHOOSE item \in items : slotOf(item) = slot
  <2>1. slot \in written /\ it \in items /\ slotOf(it) = slot
    BY <1>1, <1>3
  <2>2. it.value = <<kind, d, b>>
    BY <1>1, <2>1 DEF GoodItems
  <2>3. Load(SyncedSlots(c, items), slot) = it.value
    BY <1>2, <2>1 DEF Load
  <2>. QED
    BY <1>3, <2>2, <2>3 DEF slot, SyncedData
<1>4. CASE ~ \E item \in items : item.d = d /\ item.kind = kind /\ item.blockId = b
  <2>1. slot \notin written
    BY <1>1, <1>4
  <2>2. Load(SyncedSlots(c, items), slot) = Load(slots[c], slot)
    BY <1>2, <2>1 DEF Load
  <2>. QED
    BY <1>4, <2>2 DEF slot, SyncedData
<1>. QED
  BY <1>3, <1>4

\* A sync leaves the signals of apps alone.
LEMMA SyncKeepsSignals ==
  ASSUME NEW c \in Chains, NEW items, NEW app \in Apps, NEW signal
  PROVE  Load(SyncedSlots(c, items), GetSignalSlot(c, app, signal))
           = Load(slots[c], GetSignalSlot(c, app, signal))
<1>. DEFINE slotOf(item) == GetSignalSlot(c, Service, Data(item.d, item.kind, item.blockId))
            slot == GetSignalSlot(c, app, signal)
            written == {slotOf(item) : item \in items}
<1>1. slot \notin written
  BY AppSlots
<1>2. SyncedSlots(c, items) =
        [x \in DOMAIN slots[c] \cup written |->
           IF x \in written THEN (CHOOSE item \in items : slotOf(item) = x).value
           ELSE slots[c][x]]
  BY DEF SyncedSlots
<1>. HIDE DEF slotOf, slot
<1>3. Load(SyncedSlots(c, items), slot) = Load(slots[c], slot)
  BY <1>1, <1>2 DEF Load
<1>. QED
  BY <1>3 DEF slot

\* Syncing chain data writes slots of the service only.
LEMMA SyncedSlotsType ==
  ASSUME NEW c \in Chains, slots[c] \in Storages, NEW items, GoodItems(c, items)
  PROVE  SyncedSlots(c, items) \in Storages
<1>. DEFINE slotOf(item) == GetSignalSlot(c, Service, Data(item.d, item.kind, item.blockId))
            written == {slotOf(item) : item \in items}
            it(x) == CHOOSE item \in items : slotOf(item) = x
            new == SyncedSlots(c, items)
<1>1. new = [x \in DOMAIN slots[c] \cup written |-> IF x \in written THEN it(x).value ELSE slots[c][x]]
  BY DEF SyncedSlots
<1>2. ASSUME NEW x \in written
      PROVE  /\ x \in Chains \X (Apps \cup {Service}) \X (Signals \cup DataSignals)
             /\ it(x).value \in Roots
  <2>1. PICK item \in items : it(x) = item /\ slotOf(item) = x
    OBVIOUS
  <2>. HIDE DEF it
  <2>2. /\ item.d \in Chains /\ item.kind \in Kinds /\ item.blockId \in BlockIds
        /\ item.value = <<item.kind, item.d, item.blockId>>
    BY DEF GoodItems
  <2>3. Data(item.d, item.kind, item.blockId) \in DataSignals
    BY <2>2 DEF DataSignals
  <2>4. x \in Chains \X (Apps \cup {Service}) \X (Signals \cup DataSignals)
    BY <2>1, <2>3 DEF GetSignalSlot
  <2>5. it(x).value \in Kinds \X Chains \X BlockIds
    BY <2>1, <2>2
  <2>. QED
    BY <2>4, <2>5 DEF Roots
<1>3. /\ DOMAIN slots[c] \subseteq Chains \X (Apps \cup {Service}) \X (Signals \cup DataSignals)
      /\ \A x \in DOMAIN slots[c] : slots[c][x] \in Signals \cup Roots
  BY StorageHasDomain
<1>. HIDE DEF written, it, new
<1>4. DOMAIN new = DOMAIN slots[c] \cup written
  BY <1>1
<1>5. DOMAIN new \subseteq Chains \X (Apps \cup {Service}) \X (Signals \cup DataSignals)
  BY <1>2, <1>3, <1>4
<1>6. \A x \in DOMAIN new : new[x] \in Signals \cup Roots
  BY <1>1, <1>2, <1>3
<1>7. new = [x \in DOMAIN new |-> new[x]]
  BY <1>1
<1>8. new \in Storages
  BY <1>5, <1>6, <1>7, StorageHasDomain
<1>. QED
  BY <1>8 DEF new

----------------------------------------------------------------------------------
(* Syncs *)

\* The newest block after a sync is still a stored one, and the newest.
LEMMA SyncKeepsNewest ==
  ASSUME NEW c \in Chains, NEW items, GoodItems(c, items),
         Newest(slots[c], topBlockId[c], c)
  PROVE  Newest(SyncedSlots(c, items), SyncedTop(c, items), c)
<1>. SUFFICES ASSUME NEW d \in Chains, NEW kind \in Kinds
              PROVE  LET tops == SyncedTop(c, items)
                         has(b) == SyncedData(SyncedSlots(c, items), c, d, kind, b) # NoValue
                     IN  /\ tops[<<d, kind>>] \in BlockIds \cup {0}
                         /\ tops[<<d, kind>>] # 0 => has(tops[<<d, kind>>])
                         /\ \A b \in BlockIds : has(b) => b <= tops[<<d, kind>>]
  BY DEF Newest
<1>. DEFINE old == topBlockId[c][<<d, kind>>]
            mine == {x \in items : <<x.d, x.kind>> = <<d, kind>>}
            ids == {item.blockId : item \in mine}
            tops == {old} \cup ids
            top == SyncedTop(c, items)[<<d, kind>>]
            has(b) == SyncedData(SyncedSlots(c, items), c, d, kind, b) # NoValue
            had(b) == SyncedData(slots[c], c, d, kind, b) # NoValue
<1>1. /\ old \in BlockIds \cup {0}
      /\ old # 0 => had(old)
      /\ \A b \in BlockIds : had(b) => b <= old
  BY DEF Newest
<1>2. BlockIds \subseteq Nat \ {0}
  BY BlockIdsArePositive
<1>3. ids \subseteq BlockIds /\ IsFiniteSet(ids)
  <2>. DEFINE f == [item \in mine |-> item.blockId]
  <2>1. IsFiniteSet(mine)
    BY FS_Subset DEF GoodItems
  <2>2. ids = {f[x] : x \in DOMAIN f} /\ DOMAIN f = mine
    OBVIOUS
  <2>. HIDE DEF f
  <2>3. IsFiniteSet(ids)
    BY <2>1, <2>2, FiniteRange
  <2>. QED
    BY <2>3 DEF GoodItems
<1>4. \A b \in BlockIds : has(b) <=> had(b) \/ b \in ids
  <2>. SUFFICES ASSUME NEW b \in BlockIds PROVE has(b) <=> had(b) \/ b \in ids
    OBVIOUS
  <2>1. SyncedData(SyncedSlots(c, items), c, d, kind, b) =
          IF \E item \in items : item.d = d /\ item.kind = kind /\ item.blockId = b
          THEN <<kind, d, b>> ELSE SyncedData(slots[c], c, d, kind, b)
    BY LoadAfterSync
  <2>2. b \in ids <=> \E item \in items : item.d = d /\ item.kind = kind /\ item.blockId = b
    OBVIOUS
  <2>. QED
    BY <2>1, <2>2 DEF NoValue
<1>5. top = Max(tops)
  BY DEF SyncedTop
<1>. HIDE DEF old, ids, top, has, had, tops
<1>6. IsFiniteSet(tops) /\ tops # {} /\ tops \subseteq Int /\ tops \subseteq BlockIds \cup {0}
  <2>1. IsFiniteSet({old})
    BY FS_Singleton
  <2>2. IsFiniteSet(tops)
    BY <1>3, <2>1, FS_Union DEF tops
  <2>3. tops # {} /\ tops \subseteq BlockIds \cup {0}
    BY <1>1, <1>3 DEF tops
  <2>. QED
    BY <1>2, <2>2, <2>3
<1>7. PICK m \in tops : \A x \in tops : x <= m
  BY <1>6, GreatestExists
<1>8. top = m
  BY <1>5, <1>6, <1>7, MaxOf
<1>9. top \in BlockIds \cup {0}
  BY <1>6, <1>8
<1>10. top # 0 => has(top)
  BY <1>1, <1>4, <1>6, <1>8 DEF tops
<1>11. ASSUME NEW b \in BlockIds, has(b)
       PROVE  b <= top
  <2>1. old <= top /\ (b \in ids => b <= top)
    BY <1>7, <1>8 DEF tops
  <2>2. CASE b \in ids
    BY <2>1, <2>2
  <2>3. CASE had(b)
    <3>1. b <= old /\ b \in Int /\ old \in Int /\ top \in Int
      BY <1>1, <1>2, <1>9, <2>3
    <3>. QED
      BY <2>1, <3>1
  <2>. QED
    BY <1>4, <1>11, <2>2, <2>3
<1>. QED
  BY <1>9, <1>10, <1>11 DEF top, has

\* Syncing true data keeps the invariant of the storage.
LEMMA SyncKeepsStorage ==
  ASSUME IInv, NEW c \in Chains, NEW items, GoodItems(c, items), Synced(c, items),
         blocks' = blocks
  PROVE  /\ slots' \in [Chains -> Storages]
         /\ DOMAIN topBlockId' = Chains
         /\ \A e \in Chains : DOMAIN topBlockId'[e] = Chains \X Kinds
         /\ HistoryOK'
         /\ \A e \in Chains : TrueRoots(slots[e], e)'
         /\ \A e \in Chains : Newest(slots[e], topBlockId[e], e)'
         /\ \A e \in Chains : Kept(slots[e], slots'[e], e)
<1>1. slots \in [Chains -> Storages] /\ DOMAIN topBlockId = Chains
  BY DEF IInv, StorageOK
<1>2. /\ slots' = [slots EXCEPT ![c] = SyncedSlots(c, items)]
      /\ topBlockId' = [topBlockId EXCEPT ![c] = SyncedTop(c, items)]
  BY DEF Synced
<1>3. slots' \in [Chains -> Storages]
  BY <1>1, <1>2, SyncedSlotsType
<1>4. DOMAIN topBlockId' = Chains /\ \A e \in Chains : DOMAIN topBlockId'[e] = Chains \X Kinds
  BY <1>1, <1>2 DEF IInv, StorageOK, SyncedTop
<1>5. /\ slots'[c] = SyncedSlots(c, items) /\ topBlockId'[c] = SyncedTop(c, items)
      /\ \A e \in Chains : e # c => slots'[e] = slots[e] /\ topBlockId'[e] = topBlockId[e]
  BY <1>1, <1>2
<1>6. ASSUME NEW e \in Chains
      PROVE  Kept(slots[e], slots'[e], e)
  BY <1>5, SyncKeepsSignals DEF Kept
<1>7. ASSUME NEW e \in Chains
      PROVE  Newest(slots[e], topBlockId[e], e)'
  <2>1. Newest(slots[e], topBlockId[e], e)
    BY DEF IInv
  <2>2. CASE e = c
    <3>1. Newest(SyncedSlots(c, items), SyncedTop(c, items), c)
      BY <2>1, <2>2, SyncKeepsNewest
    <3>. QED
      BY <1>5, <2>2, <3>1 DEF Newest
  <2>3. CASE e # c
    BY <1>5, <2>1, <2>3 DEF Newest
  <2>. QED
    BY <2>2, <2>3
<1>8. ASSUME NEW e \in Chains
      PROVE  TrueRoots(slots[e], e)'
  <2>1. TrueRoots(slots[e], e)
    BY DEF IInv
  <2>2. CASE e = c
    <3>. SUFFICES ASSUME NEW d \in Chains, NEW kind \in Kinds, NEW b \in BlockIds,
                         SyncedData(slots'[c], c, d, kind, b) # NoValue
                  PROVE  /\ SyncedData(slots'[c], c, d, kind, b) = <<kind, d, b>>
                         /\ b \in DOMAIN blocks'[d] /\ c # d
      BY <2>2 DEF TrueRoots
    <3>1. SyncedData(slots'[c], c, d, kind, b) =
            IF \E item \in items : item.d = d /\ item.kind = kind /\ item.blockId = b
            THEN <<kind, d, b>> ELSE SyncedData(slots[c], c, d, kind, b)
      BY <1>5, LoadAfterSync
    <3>2. CASE \E item \in items : item.d = d /\ item.kind = kind /\ item.blockId = b
      BY <3>1, <3>2 DEF GoodItems
    <3>3. CASE ~ \E item \in items : item.d = d /\ item.kind = kind /\ item.blockId = b
      BY <2>1, <2>2, <3>1, <3>3 DEF TrueRoots
    <3>. QED
      BY <3>2, <3>3
  <2>3. CASE e # c
    BY <1>5, <2>1, <2>3 DEF TrueRoots
  <2>. QED
    BY <2>2, <2>3
<1>9. HistoryOK'
  <2>. SUFFICES ASSUME NEW e \in Chains, NEW h \in DOMAIN blocks[e]
                PROVE  TrueRoots(blocks[e][h], e)' /\ Kept(blocks[e][h], slots'[e], e)
    BY DEF HistoryOK, Kept
  <2>1. TrueRoots(blocks[e][h], e) /\ Kept(blocks[e][h], slots[e], e)
    BY DEF IInv, HistoryOK
  <2>2. TrueRoots(blocks[e][h], e)'
    BY <2>1 DEF TrueRoots
  <2>3. Kept(blocks[e][h], slots'[e], e)
    BY <1>6, <2>1 DEF Kept
  <2>. QED
    BY <2>2, <2>3
<1>. QED
  BY <1>3, <1>4, <1>6, <1>7, <1>8, <1>9

\* What chains have kept they have still sent.
LEMMA KeptWasSent ==
  ASSUME IInv, \A e \in Chains : Kept(slots[e], slots'[e], e),
         \A r \in received' \ received :
           /\ r \in Chains \X Chains \X Apps \X Signals
           /\ Load(slots[r[2]], GetSignalSlot(r[2], r[3], r[4])) = r[4]
  PROVE  ProvenWasSent' /\ received' \subseteq Chains \X Chains \X Apps \X Signals
<1>1. ASSUME NEW r \in received'
      PROVE  /\ r \in Chains \X Chains \X Apps \X Signals
             /\ Load(slots[r[2]], GetSignalSlot(r[2], r[3], r[4])) = r[4]
  BY DEF IInv, StorageOK, ProvenWasSent
<1>2. ASSUME NEW r \in received'
      PROVE  Load(slots'[r[2]], GetSignalSlot(r[2], r[3], r[4])) = r[4]
  <2>1. r[2] \in Chains /\ r[3] \in Apps /\ r[4] \in Signals
    BY <1>1
  <2>. QED
    BY <1>1, <2>1 DEF Kept
<1>. QED
  BY <1>1, <1>2 DEF ProvenWasSent

----------------------------------------------------------------------------------
(* Proofs of signals *)

\* The proofs the model enumerates are sequences of hops.
LEMMA ProofsAreSequences ==
  ASSUME StorageOK, NEW c \in Chains, NEW hops \in Proofs(c)
  PROVE  hops \in Seq(Hop)
<1>1. PICK n \in 1 .. MaxHops :
        \E first \in [1 .. n - 1 -> Hop], h \in Hop : hops = Append(first, h)
  BY DEF Proofs
<1>2. PICK first \in [1 .. n - 1 -> Hop], h \in Hop : hops = Append(first, h)
  BY <1>1
<1>3. n - 1 \in Nat
  BY SignalAssumption
<1>4. first \in Seq(Hop)
  BY <1>2, <1>3
<1>. QED
  BY <1>2, <1>4

\* The root of hop i is that of a block of the chain that the hop starts from.
RootTrue(src, hops, i) ==
  LET d == ChainAt(src, hops, i)
  IN  /\ hops[i].rootHash = <<hops[i].rootHash[1], d, hops[i].blockId>>
      /\ hops[i].blockId \in DOMAIN blocks[d]

\* The fields of a hop.
LEMMA HopFields ==
  ASSUME NEW hops \in Seq(Hop), NEW src \in Chains, NEW i \in 1 .. Len(hops)
  PROVE  /\ ChainAt(src, hops, i) \in Chains
         /\ hops[i].chainId \in Chains /\ hops[i].blockId \in BlockIds
         /\ hops[i].rootHash \in Roots /\ hops[i].rootHash[1] \in Kinds
         /\ hops[i].rootHash # NoValue
<1>0. Len(hops) \in Nat /\ (i # 1 => i - 1 \in 1 .. Len(hops))
  OBVIOUS
<1>1. hops[i] \in Hop /\ (i # 1 => hops[i - 1] \in Hop)
  BY <1>0
<1>2. \A root \in Roots : root[1] \in Kinds /\ root # NoValue
  BY DEF Roots, Forged, NoValue
<1>. QED
  BY <1>1, <1>2 DEF Hop, ChainAt

\* In an accepted proof every root is true: the last one because the chain stores
\* it, and each one before because the block of the next root does.
LEMMA AcceptedRootsAreTrue ==
  ASSUME IInv, NEW c \in Chains, NEW src \in Chains, NEW app, NEW signal,
         NEW hops \in Seq(Hop), VerifySignalReceived(c, src, app, signal, hops)
  PROVE  \A i \in 1 .. Len(hops) : RootTrue(src, hops, i)
<1>. DEFINE n == Len(hops)
            bad == {i \in 1 .. n : ~RootTrue(src, hops, i)}
<1>0. n \in Nat /\ n > 0 /\ hops[n].chainId = c
  BY DEF VerifySignalReceived
<1>1. RootTrue(src, hops, n)
  <2>. DEFINE d == ChainAt(src, hops, n)
              kind == hops[n].rootHash[1]
              b == hops[n].blockId
  <2>1. d \in Chains /\ kind \in Kinds /\ b \in BlockIds /\ hops[n].rootHash # NoValue
    BY <1>0, HopFields
  <2>2. SyncedData(slots[c], c, d, kind, b) = hops[n].rootHash
    BY DEF VerifySignalReceived, HopSignal, SyncedData
  <2>3. TrueRoots(slots[c], c)
    BY DEF IInv
  <2>. HIDE DEF d, kind, b
  <2>4. hops[n].rootHash = <<kind, d, b>> /\ b \in DOMAIN blocks[d]
    BY <2>1, <2>2, <2>3 DEF TrueRoots
  <2>. QED
    BY <2>4 DEF RootTrue, d, kind, b
<1>2. ASSUME NEW i \in 1 .. n, i # n, RootTrue(src, hops, i + 1)
      PROVE  RootTrue(src, hops, i)
  <2>. DEFINE d == ChainAt(src, hops, i)
              e == ChainAt(src, hops, i + 1)
              kind == hops[i].rootHash[1]
              b == hops[i].blockId
              h == hops[i + 1].blockId
  <2>0. i + 1 \in 1 .. n /\ i + 1 # 1 /\ (i + 1) - 1 = i
    BY <1>0, <1>2
  <2>1. d \in Chains /\ kind \in Kinds /\ b \in BlockIds /\ hops[i].rootHash # NoValue
    BY <1>2, HopFields
  <2>2. e = hops[i].chainId /\ e \in Chains /\ hops[i + 1].rootHash[1] \in Kinds
    BY <2>0, HopFields DEF ChainAt
  <2>3. hops[i + 1].rootHash = <<hops[i + 1].rootHash[1], e, h>> /\ h \in DOMAIN blocks[e]
    BY <1>2 DEF RootTrue
  <2>4. VerifyHopProof(src, app, signal, hops, i + 1)
    BY <2>0 DEF VerifySignalReceived
  <2>5. VerifyMerkleProof(hops[i + 1].rootHash, GetSignalSlot(e, Service, HopSignal(src, hops, i)),
                          hops[i].rootHash)
    BY <2>0, <2>4 DEF VerifyHopProof
  <2>6. hops[i + 1].rootHash # Forged(hops[i + 1].rootHash[1])
    BY <2>2, <2>3, SignalAssumption DEF Forged
  <2>7. SyncedData(blocks[e][h], e, d, kind, b) = hops[i].rootHash
    BY <2>3, <2>5, <2>6 DEF VerifyMerkleProof, HopSignal, SyncedData
  <2>8. TrueRoots(blocks[e][h], e)
    BY <2>2, <2>3 DEF IInv, HistoryOK
  <2>. HIDE DEF d, e, kind, b, h
  <2>9. hops[i].rootHash = <<kind, d, b>> /\ b \in DOMAIN blocks[d]
    BY <2>1, <2>7, <2>8 DEF TrueRoots
  <2>. QED
    BY <2>9 DEF RootTrue, d, kind, b
<1>3. IsFiniteSet(bad) /\ bad \subseteq Int
  <2>1. IsFiniteSet(1 .. n)
    BY <1>0, FS_Interval
  <2>. QED
    BY <2>1, FS_Subset
<1>4. ASSUME bad # {}
      PROVE  FALSE
  <2>. HIDE DEF bad
  <2>1. PICK m \in bad : \A x \in bad : x <= m
    BY <1>3, <1>4, GreatestExists
  <2>. USE DEF bad
  <2>2. m \in 1 .. n /\ ~RootTrue(src, hops, m)
    OBVIOUS
  <2>3. m # n /\ m + 1 \in 1 .. n
    BY <1>0, <1>1, <2>2
  <2>4. RootTrue(src, hops, m + 1)
    BY <2>1, <2>2, <2>3
  <2>. QED
    BY <1>2, <2>2, <2>3, <2>4
<1>. QED
  BY <1>4

\* verifySignalReceived accepts only what the source chain has stored.
LEMMA AcceptedSignalWasSent ==
  ASSUME IInv, NEW c \in Chains, NEW src \in Chains, NEW app \in Apps, NEW signal \in Signals,
         NEW hops \in Seq(Hop), VerifySignalReceived(c, src, app, signal, hops)
  PROVE  Load(slots[src], GetSignalSlot(src, app, signal)) = signal
<1>. DEFINE h == hops[1].blockId
            root == hops[1].rootHash
<1>1. 1 \in 1 .. Len(hops) /\ ChainAt(src, hops, 1) = src
  BY DEF VerifySignalReceived, ChainAt
<1>2. root = <<root[1], src, h>> /\ h \in DOMAIN blocks[src]
  BY <1>1, AcceptedRootsAreTrue DEF RootTrue
<1>3. root # Forged(root[1])
  BY <1>2, SignalAssumption DEF Forged
<1>4. VerifyMerkleProof(root, GetSignalSlot(src, app, signal), signal)
  BY <1>1 DEF VerifySignalReceived, VerifyHopProof
<1>5. Load(blocks[src][h], GetSignalSlot(src, app, signal)) = signal
  BY <1>2, <1>3, <1>4 DEF VerifyMerkleProof
<1>6. Kept(blocks[src][h], slots[src], src)
  BY <1>2 DEF IInv, HistoryOK
<1>. QED
  BY <1>5, <1>6 DEF Kept

\* What an accepted proof caches is true data of other chains.
LEMMA CachedIsTrue ==
  ASSUME IInv, NEW c \in Chains, NEW src \in Chains, NEW app, NEW signal,
         NEW hops \in Seq(Hop), VerifySignalReceived(c, src, app, signal, hops)
  PROVE  GoodItems(c, Cached(src, hops))
<1>. DEFINE S == {j \in DOMAIN hops : CachesStateRoot(hops, j)}
            R == {j \in DOMAIN hops : CachesSignalRoot(hops, j)}
            state(i) == [d |-> ChainAt(src, hops, i), kind |-> "state",
                         blockId |-> hops[i].blockId, value |-> hops[i].rootHash]
            signalRoot(i) == [d |-> ChainAt(src, hops, i), kind |-> "signal",
                              blockId |-> hops[i].blockId,
                              value |-> [hops[i].rootHash EXCEPT ![1] = "signal"]]
            fs == [i \in S |-> state(i)]
            fr == [i \in R |-> signalRoot(i)]
<1>0. Len(hops) \in Nat /\ DOMAIN hops = 1 .. Len(hops)
  OBVIOUS
<1>1. Cached(src, hops) = {fs[i] : i \in DOMAIN fs} \cup {fr[i] : i \in DOMAIN fr}
  BY DEF Cached
<1>2. IsFiniteSet(S) /\ IsFiniteSet(R)
  <2>1. IsFiniteSet(DOMAIN hops)
    BY <1>0, FS_Interval
  <2>. QED
    BY <2>1, FS_Subset
<1>3. DOMAIN fs = S /\ DOMAIN fr = R
  OBVIOUS
<1>4. IsFiniteSet(Cached(src, hops))
  <2>. HIDE DEF fs, fr, S, R
  <2>1. IsFiniteSet({fs[i] : i \in DOMAIN fs})
    BY <1>2, <1>3, FiniteRange
  <2>2. IsFiniteSet({fr[i] : i \in DOMAIN fr})
    BY <1>2, <1>3, FiniteRange
  <2>. QED
    BY <1>1, <2>1, <2>2, FS_Union
<1>5. ASSUME NEW i \in 1 .. Len(hops)
      PROVE  /\ ChainAt(src, hops, i) \in Chains /\ ChainAt(src, hops, i) # c
             /\ hops[i].blockId \in BlockIds
             /\ hops[i].blockId \in DOMAIN blocks[ChainAt(src, hops, i)]
             /\ hops[i].rootHash = <<hops[i].rootHash[1], ChainAt(src, hops, i), hops[i].blockId>>
  <2>1. RootTrue(src, hops, i)
    BY AcceptedRootsAreTrue
  <2>2. ChainAt(src, hops, i) # c
    <3>1. CASE i = 1
      BY <3>1 DEF ChainAt, VerifySignalReceived
    <3>2. CASE i # 1
      <4>1. i - 1 \in 1 .. Len(hops) /\ Len(hops) \in 1 .. Len(hops) /\ i - 1 < Len(hops)
        BY <1>0, <3>2
      <4>. QED
        BY <3>2, <4>1 DEF ChainAt, VerifySignalReceived
    <3>. QED
      BY <3>1, <3>2
  <2>. QED
    BY <2>1, <2>2, HopFields DEF RootTrue
<1>6. ASSUME NEW item \in Cached(src, hops)
      PROVE  /\ item.d \in Chains /\ item.d # c
             /\ item.kind \in Kinds
             /\ item.blockId \in BlockIds /\ item.blockId \in DOMAIN blocks[item.d]
             /\ item.value = <<item.kind, item.d, item.blockId>>
  <2>1. CASE \E i \in S : item = state(i)
    <3>1. PICK i \in S : item = state(i)
      BY <2>1
    <3>2. i \in 1 .. Len(hops) /\ hops[i].rootHash[1] = "state"
      BY <1>0 DEF CachesStateRoot, IsFullProof
    <3>. QED
      BY <1>5, <3>1, <3>2 DEF Kinds
  <2>2. CASE \E i \in R : item = signalRoot(i)
    <3>1. PICK i \in R : item = signalRoot(i)
      BY <2>2
    <3>2. i \in 1 .. Len(hops)
      BY <1>0
    <3>3. [hops[i].rootHash EXCEPT ![1] = "signal"]
            = <<"signal", ChainAt(src, hops, i), hops[i].blockId>>
      BY <1>5, <3>2
    <3>. QED
      BY <1>5, <3>1, <3>2, <3>3 DEF Kinds
  <2>. QED
    BY <1>1, <2>1, <2>2
<1>. QED
  BY <1>4, <1>6 DEF GoodItems

----------------------------------------------------------------------------------
(* The invariant *)

\* Nothing is stored and no block has ended initially.
LEMMA InitInv ==
  ASSUME Init
  PROVE  IInv
<1>1. <<>> \in Storages
  <2>1. DOMAIN <<>> = {} /\ <<>> = [x \in {} |-> <<>>[x]]
    OBVIOUS
  <2>. QED
    BY <2>1, StorageHasDomain
<1>2. StorageOK
  BY <1>1 DEF Init, StorageOK
<1>3. HistoryOK
  BY DEF Init, HistoryOK
<1>4. \A c, d \in Chains, kind \in Kinds, b \in BlockIds : SyncedData(slots[c], c, d, kind, b) = NoValue
  BY DEF Init, SyncedData, Load
<1>5. \A c \in Chains : TrueRoots(slots[c], c)
  BY <1>4 DEF TrueRoots
<1>6. \A c \in Chains : Newest(slots[c], topBlockId[c], c)
  BY <1>4 DEF Newest, Init
<1>7. ProvenWasSent
  BY DEF Init, ProvenWasSent
<1>. QED
  BY <1>2, <1>3, <1>5, <1>6, <1>7 DEF IInv

\* Sending a signal adds it to what the chain has kept and touches no chain data.
LEMMA SendSignalKeeps ==
  ASSUME IInv, NEW c \in Chains, NEW app \in Apps, NEW signal \in Signals,
         SendSignal(c, app, signal)
  PROVE  IInv'
<1>. DEFINE slot == GetSignalSlot(c, app, signal)
            new == Store(slots[c], slot, signal)
<1>1. slots \in [Chains -> Storages] /\ slots' = [slots EXCEPT ![c] = new]
  BY DEF IInv, StorageOK, SendSignal
<1>2. new \in Storages
  <2>1. /\ DOMAIN slots[c] \subseteq Chains \X (Apps \cup {Service}) \X (Signals \cup DataSignals)
        /\ \A x \in DOMAIN slots[c] : slots[c][x] \in Signals \cup Roots
    BY <1>1, StorageHasDomain
  <2>2. slot \in Chains \X (Apps \cup {Service}) \X (Signals \cup DataSignals)
    BY DEF GetSignalSlot
  <2>. HIDE DEF slot
  <2>3. /\ new = [x \in DOMAIN new |-> new[x]] /\ DOMAIN new = DOMAIN slots[c] \cup {slot}
        /\ \A x \in DOMAIN new : new[x] \in Signals \cup Roots
    BY <2>1 DEF Store
  <2>. HIDE DEF new
  <2>. QED
    BY <2>1, <2>2, <2>3, StorageHasDomain
<1>3. \A x : Load(new, x) = IF x = slot THEN signal ELSE Load(slots[c], x)
  BY LoadAfterStore
<1>. HIDE DEF new
<1>4. slots' \in [Chains -> Storages] /\ slots'[c] = new /\ \A e \in Chains : e # c => slots'[e] = slots[e]
  BY <1>1, <1>2
<1>5. \A d, kind, b : SyncedData(new, c, d, kind, b) = SyncedData(slots[c], c, d, kind, b)
  BY <1>3, AppSlots DEF SyncedData
<1>6. ASSUME NEW e \in Chains
      PROVE  Kept(slots[e], slots'[e], e)
  <2>1. CASE e = c
    <3>. SUFFICES ASSUME NEW a \in Apps, NEW s \in Signals,
                         Load(slots[c], GetSignalSlot(c, a, s)) = s
                  PROVE  Load(new, GetSignalSlot(c, a, s)) = s
      BY <1>4, <2>1 DEF Kept
    <3>. QED
      BY <1>3 DEF GetSignalSlot
  <2>2. CASE e # c
    BY <1>4, <2>2 DEF Kept
  <2>. QED
    BY <2>1, <2>2
<1>7. UNCHANGED <<topBlockId, blocks, received>>
  BY DEF SendSignal
<1>8. StorageOK'
  BY <1>4, <1>7 DEF IInv, StorageOK
<1>9. HistoryOK'
  BY <1>6, <1>7 DEF IInv, HistoryOK, TrueRoots, Kept
<1>10. \A e \in Chains : TrueRoots(slots[e], e)'
  BY <1>4, <1>5, <1>7 DEF IInv, TrueRoots
<1>11. \A e \in Chains : Newest(slots[e], topBlockId[e], e)'
  <2>. SUFFICES ASSUME NEW e \in Chains
                PROVE  Newest(slots'[e], topBlockId[e], e)
    BY <1>7 DEF Newest
  <2>1. Newest(slots[e], topBlockId[e], e)
    BY DEF IInv
  <2>2. CASE e = c
    <3>1. ASSUME NEW d \in Chains, NEW kind \in Kinds
          PROVE  /\ topBlockId[c][<<d, kind>>] \in BlockIds \cup {0}
                 /\ topBlockId[c][<<d, kind>>] # 0 =>
                      SyncedData(new, c, d, kind, topBlockId[c][<<d, kind>>]) # NoValue
                 /\ \A b \in BlockIds : SyncedData(new, c, d, kind, b) # NoValue =>
                      b <= topBlockId[c][<<d, kind>>]
      <4>. DEFINE top == topBlockId[c][<<d, kind>>]
      <4>1. /\ top \in BlockIds \cup {0}
            /\ top # 0 => SyncedData(slots[c], c, d, kind, top) # NoValue
            /\ \A b \in BlockIds : SyncedData(slots[c], c, d, kind, b) # NoValue => b <= top
        BY <2>1, <2>2 DEF Newest
      <4>. HIDE DEF top
      <4>2. /\ top # 0 => SyncedData(new, c, d, kind, top) # NoValue
            /\ \A b \in BlockIds : SyncedData(new, c, d, kind, b) # NoValue => b <= top
        BY <1>5, <4>1
      <4>. QED
        BY <4>1, <4>2 DEF top
    <3>2. Newest(new, topBlockId[c], c)
      BY <3>1 DEF Newest
    <3>. QED
      BY <1>4, <2>2, <3>2
  <2>3. CASE e # c
    BY <1>4, <2>1, <2>3
  <2>. QED
    BY <2>2, <2>3
<1>12. received' \ received = {}
  BY <1>7
<1>13. ProvenWasSent'
  BY <1>6, <1>12, KeptWasSent
<1>. QED
  BY <1>8, <1>9, <1>10, <1>11, <1>13 DEF IInv

\* The block that ends has the storage of the moment.
LEMMA SealKeeps ==
  ASSUME IInv, NEW c \in Chains, Seal(c)
  PROVE  IInv'
<1>1. slots \in [Chains -> Storages] /\ blocks \in [Chains -> Seq(Storages)]
  BY DEF IInv, StorageOK
<1>2. /\ blocks' = [blocks EXCEPT ![c] = Append(@, slots[c])]
      /\ UNCHANGED <<slots, topBlockId, received>>
  BY DEF Seal
<1>3. /\ blocks'[c] = Append(blocks[c], slots[c])
      /\ \A e \in Chains : e # c => blocks'[e] = blocks[e]
      /\ blocks' \in [Chains -> Seq(Storages)]
  BY <1>1, <1>2
<1>4. \A h \in DOMAIN blocks[c] : h \in DOMAIN blocks'[c] /\ blocks'[c][h] = blocks[c][h]
  BY <1>1, <1>3
<1>5. \A h \in DOMAIN blocks'[c] : h \in DOMAIN blocks[c] \/ blocks'[c][h] = slots[c]
  BY <1>1, <1>3
<1>11. \A e \in Chains : \A h \in DOMAIN blocks[e] : h \in DOMAIN blocks'[e] /\ blocks'[e][h] = blocks[e][h]
  BY <1>3, <1>4
<1>12. \A e \in Chains : \A h \in DOMAIN blocks'[e] : h \in DOMAIN blocks[e] \/ blocks'[e][h] = slots[e]
  BY <1>3, <1>5
<1>6. ASSUME NEW e \in Chains, NEW s, TrueRoots(s, e)
      PROVE  \A d \in Chains, kind \in Kinds, b \in BlockIds :
               SyncedData(s, e, d, kind, b) # NoValue =>
                 /\ SyncedData(s, e, d, kind, b) = <<kind, d, b>>
                 /\ b \in DOMAIN blocks'[d] /\ e # d
  BY <1>11, <1>6 DEF TrueRoots
<1>7. \A e \in Chains : TrueRoots(slots[e], e)'
  BY <1>2, <1>6 DEF IInv, TrueRoots
<1>8. HistoryOK'
  <2>. SUFFICES ASSUME NEW e \in Chains, NEW h \in DOMAIN blocks'[e]
                PROVE  TrueRoots(blocks[e][h], e)' /\ Kept(blocks'[e][h], slots[e], e)
    BY <1>2 DEF HistoryOK, Kept
  <2>1. CASE h \in DOMAIN blocks[e]
    <3>1. TrueRoots(blocks[e][h], e) /\ Kept(blocks[e][h], slots[e], e)
      BY <2>1 DEF IInv, HistoryOK
    <3>2. blocks'[e][h] = blocks[e][h]
      BY <1>11, <2>1
    <3>. QED
      BY <1>6, <3>1, <3>2 DEF TrueRoots
  <2>2. CASE blocks'[e][h] = slots[e]
    <3>1. Kept(slots[e], slots[e], e)
      BY DEF Kept
    <3>. QED
      BY <1>2, <1>7, <2>2, <3>1 DEF TrueRoots
  <2>. QED
    BY <1>12, <2>1, <2>2
<1>9. StorageOK'
  BY <1>2, <1>3 DEF IInv, StorageOK
<1>10. (\A e \in Chains : Newest(slots[e], topBlockId[e], e)') /\ ProvenWasSent'
  BY <1>2 DEF IInv, Newest, ProvenWasSent
<1>. QED
  BY <1>7, <1>8, <1>9, <1>10 DEF IInv

\* syncChainData stores roots of a block the other chain has.
LEMMA SyncChainDataKeeps ==
  ASSUME IInv, NEW c \in Chains, NEW d \in Chains, NEW blockId \in BlockIds,
         SyncChainData(c, d, blockId)
  PROVE  IInv'
<1>. DEFINE item == [d |-> d, kind |-> "state", blockId |-> blockId, value |-> <<"state", d, blockId>>]
<1>1. c # d
  <2>1. <<c, d>> \in {pair \in Chains \X Chains : pair[1] # pair[2]}
    BY SignalAssumption DEF SyncChainData
  <2>. QED
    BY <2>1
<1>2. GoodItems(c, {item})
  <2>1. IsFiniteSet({item})
    BY FS_Singleton
  <2>. QED
    BY <1>1, <2>1 DEF GoodItems, SyncChainData, Kinds
<1>3. Synced(c, {item}) /\ UNCHANGED <<blocks, received>>
  BY DEF SyncChainData
<1>. HIDE DEF item
<1>4. /\ slots' \in [Chains -> Storages]
      /\ DOMAIN topBlockId' = Chains
      /\ \A e \in Chains : DOMAIN topBlockId'[e] = Chains \X Kinds
      /\ HistoryOK'
      /\ \A e \in Chains : TrueRoots(slots[e], e)'
      /\ \A e \in Chains : Newest(slots[e], topBlockId[e], e)'
      /\ \A e \in Chains : Kept(slots[e], slots'[e], e)
  BY <1>2, <1>3, SyncKeepsStorage
<1>5. received' \ received = {}
  BY <1>3
<1>6. ProvenWasSent'
  BY <1>4, <1>5, KeptWasSent
<1>. QED
  BY <1>3, <1>4, <1>6 DEF IInv, StorageOK

\* proveSignalReceived caches roots that the hops show to be true.
LEMMA ProveSignalReceivedKeeps ==
  ASSUME IInv, NEW c \in Chains, NEW src \in Chains, NEW app \in Apps, NEW signal \in Signals,
         NEW hops \in Proofs(c), ProveSignalReceived(c, src, app, signal, hops)
  PROVE  IInv'
<1>1. hops \in Seq(Hop)
  BY ProofsAreSequences DEF IInv
<1>2. /\ VerifySignalReceived(c, src, app, signal, hops)
      /\ Synced(c, Cached(src, hops))
      /\ received' = received \cup {<<c, src, app, signal>>}
      /\ blocks' = blocks
  BY DEF ProveSignalReceived
<1>3. GoodItems(c, Cached(src, hops))
  BY <1>1, <1>2, CachedIsTrue
<1>4. /\ slots' \in [Chains -> Storages]
      /\ DOMAIN topBlockId' = Chains
      /\ \A e \in Chains : DOMAIN topBlockId'[e] = Chains \X Kinds
      /\ HistoryOK'
      /\ \A e \in Chains : TrueRoots(slots[e], e)'
      /\ \A e \in Chains : Newest(slots[e], topBlockId[e], e)'
      /\ \A e \in Chains : Kept(slots[e], slots'[e], e)
  BY <1>2, <1>3, SyncKeepsStorage
<1>5. Load(slots[src], GetSignalSlot(src, app, signal)) = signal
  BY <1>1, <1>2, AcceptedSignalWasSent
<1>6. \A r \in received' \ received :
        /\ r \in Chains \X Chains \X Apps \X Signals
        /\ Load(slots[r[2]], GetSignalSlot(r[2], r[3], r[4])) = r[4]
  BY <1>2, <1>5
<1>7. ProvenWasSent' /\ received' \subseteq Chains \X Chains \X Apps \X Signals
  BY <1>4, <1>6, KeptWasSent
<1>. QED
  BY <1>2, <1>4, <1>7 DEF IInv, StorageOK

\* A stuttering step.
LEMMA StutterKeeps ==
  ASSUME IInv, UNCHANGED vars
  PROVE  IInv'
BY DEF vars, IInv, StorageOK, HistoryOK, TrueRoots, Newest, Kept, ProvenWasSent

\* The inductive invariant in every reachable state.
LEMMA Invariant == Spec => []IInv
<1>1. Init => IInv
  BY InitInv
<1>2. IInv /\ [Next]_vars => IInv'
  <2>. SUFFICES ASSUME IInv, [Next]_vars PROVE IInv'
    OBVIOUS
  <2>1. ASSUME NEW c \in Senders, NEW app \in Apps, NEW signal \in Signals,
               SendSignal(c, app, signal)
        PROVE  IInv'
    BY <2>1, SignalAssumption, SendSignalKeeps
  <2>2. ASSUME NEW c \in Chains, Seal(c)
        PROVE  IInv'
    BY <2>2, SealKeeps
  <2>3. ASSUME NEW c \in Chains, NEW d \in Chains, NEW blockId \in BlockIds,
               SyncChainData(c, d, blockId)
        PROVE  IInv'
    BY <2>3, SyncChainDataKeeps
  <2>4. ASSUME NEW c \in Chains, NEW hops \in Proofs(c), NEW src \in Chains, NEW app \in Apps,
               NEW signal \in Signals, ProveSignalReceived(c, src, app, signal, hops)
        PROVE  IInv'
    BY <2>4, ProveSignalReceivedKeeps
  <2>5. CASE UNCHANGED vars
    BY <2>5, StutterKeeps
  <2>. QED
    BY <2>1, <2>2, <2>3, <2>4, <2>5 DEF Next
<1>. QED
  BY <1>1, <1>2, PTL DEF Spec

----------------------------------------------------------------------------------
(* Theorems *)

\* A signal is accepted only if its app sent it on the chain it is said to come from,
\* over any number of hops and with whatever made-up roots a prover comes with
\* (proveSignalReceived, _verifySignalReceived).
THEOREM AcceptedSignalsWereSent == Spec => []ProvenWasSent
<1>1. IInv => ProvenWasSent
  BY DEF IInv
<1>. QED
  BY <1>1, Invariant, PTL

\* No sequence of syncs and proofs makes a chain store a root that is not the root of
\* the block it is stored for (_syncChainData, _cache).
THEOREM StoredRootsAreTrue == Spec => []ChainDataTrue
<1>1. IInv => ChainDataTrue
  BY DEF IInv, ChainDataTrue, TrueRoots, SyncedData
<1>. QED
  BY <1>1, Invariant, PTL

\* topBlockId names the newest block that is stored, in whatever order blocks are
\* synced and cached (getSyncedChainData).
THEOREM TopBlockIsStored == Spec => []TopIsStored
<1>1. IInv => TopIsStored
  <2>. SUFFICES ASSUME IInv, NEW c \in Chains, NEW d \in Chains, NEW kind \in Kinds
                PROVE  topBlockId[c][<<d, kind>>] =
                         Max({b \in BlockIds : SyncedData(slots[c], c, d, kind, b) # NoValue} \cup {0})
    BY DEF TopIsStored, SyncedData
  <2>. DEFINE top == topBlockId[c][<<d, kind>>]
              S == {b \in BlockIds : SyncedData(slots[c], c, d, kind, b) # NoValue} \cup {0}
  <2>1. /\ top \in BlockIds \cup {0}
        /\ top # 0 => SyncedData(slots[c], c, d, kind, top) # NoValue
        /\ \A b \in BlockIds : SyncedData(slots[c], c, d, kind, b) # NoValue => b <= top
    BY DEF IInv, Newest
  <2>2. BlockIds \subseteq Nat \ {0}
    BY BlockIdsArePositive
  <2>0. S \subseteq BlockIds \cup {0} /\ BlockIds \cup {0} \subseteq Nat
    BY <2>2
  <2>3. S \subseteq Int /\ top \in Int /\ 0 <= top
    <3>. HIDE DEF S, top
    <3>. QED
      BY <2>0, <2>1
  <2>5. top \in S
    BY <2>1
  <2>6. \A x \in S : x <= top
    BY <2>1, <2>3
  <2>. HIDE DEF S, top
  <2>4. Max(S) = top
    BY <2>3, <2>5, <2>6, MaxOf
  <2>. QED
    BY <2>4 DEF S, top
<1>. QED
  BY <1>1, Invariant, PTL

--------------------------------------------------------------------------------
(* QuotaManager *)

\* The clock does not run back, neither for a quota nor for a history.
UpdatedBy(q, t) == q.updatedAt <= t
EndsBy(history, last) == \A i \in Nat : i \in DOMAIN history => history[i].at <= last

\* What was consumed since a time, and what was left of the quota by its last
\* consumption, is at most the quota and the refill of the time between the two.
WindowOf(q, history, period, setAt) ==
  \A from \in Nat : setAt <= from /\ 1 <= from /\ from <= q.updatedAt =>
    AmountSince(history, from) + q.available <= q.quota + (q.quota * (q.updatedAt - from)) \div period

\* What was left of the quota by its last consumption, with what was consumed after a
\* time and a unit for each of these consumptions.
Accounted(q, history, from) ==
  q.available + AmountSince(history, from + 1) + Cardinality(Recent(history, from + 1))

\* It is at least the refill since that time, and in any case the quota once it is full.
RefillOf(q, history, period, setAt) ==
  \A from \in Nat : setAt <= from /\ from < q.updatedAt =>
    \/ q.quota <= Accounted(q, history, from)
    \/ q.quota * (q.updatedAt - from) <= period * Accounted(q, history, from)

\* A token's quota and its history, with the period set at setAt, at time t.
TokenOK(q, history, period, setAt, t) ==
  /\ q \in Quota /\ history \in Seq(Consumption)
  /\ q.available <= q.quota /\ UpdatedBy(q, t)
  /\ \A i \in Nat : i \in DOMAIN history => history[i].at >= 1
  /\ ~Unlimited(q) => /\ EndsBy(history, q.updatedAt)
                      /\ WindowOf(q, history, period, setAt)
                      /\ RefillOf(q, history, period, setAt)

TimesOK ==
  /\ quotaPeriod \in Periods /\ paused \in BOOLEAN
  /\ now \in Nat /\ now >= 1 /\ periodSetAt \in Nat /\ periodSetAt <= now
  /\ tokenQuota = [token \in Tokens |-> tokenQuota[token]]
  /\ consumed = [token \in Tokens |-> consumed[token]]

QuotaInv ==
  /\ TimesOK
  /\ \A token \in Tokens :
       TokenOK(tokenQuota[token], consumed[token], quotaPeriod, periodSetAt, now)

---------------------------------------------------------------------------------
(* A quota *)

\* What availableQuota returns: the whole quota, or what is left and the refill.
LEMMA AvailableCases ==
  ASSUME NEW q \in Quota, NEW period \in Nat \ {0}, NEW t \in Nat, UpdatedBy(q, t),
         NEW refill, refill = (q.quota * (t - q.updatedAt)) \div period
  PROVE  LET available == AvailableQuota(q, period, t)
         IN  /\ refill \in Nat /\ available \in Nat /\ available <= q.quota
             /\ q.updatedAt # 0 => available <= q.available + refill
             /\ q.updatedAt = 0 => available = q.quota
             /\ available = q.quota \/ available = q.available + refill
<1>1. q.quota \in Nat /\ q.available \in Nat /\ q.updatedAt \in Nat
  BY DEF Quota
<1>2. t - q.updatedAt \in Nat
  BY <1>1 DEF UpdatedBy
<1>3. q.quota * (t - q.updatedAt) \in Nat
  BY <1>1, <1>2
<1>4. refill \in Nat
  BY <1>3, DivBounds
<1>5. AvailableQuota(q, period, t) =
        IF q.updatedAt = 0 THEN q.quota
        ELSE IF refill + q.available <= q.quota THEN refill + q.available ELSE q.quota
  BY DEF AvailableQuota
<1>. QED
  BY <1>1, <1>4, <1>5

\* What consumeQuota leaves of a limited quota: its subtraction never wraps.
LEMMA ConsumedParts ==
  ASSUME NEW q \in Quota, NEW period \in Nat \ {0}, NEW t \in Nat, UpdatedBy(q, t),
         NEW amount \in Nat, CanConsume(q, period, t, amount), ~Unlimited(q)
  PROVE  LET p == Consumed(q, period, t, amount)
         IN  /\ p \in Quota /\ p.quota = q.quota /\ p.updatedAt = t
             /\ p.available + amount = AvailableQuota(q, period, t)
             /\ p.available <= p.quota
<1>. DEFINE available == AvailableQuota(q, period, t)
<1>1. available \in Nat /\ available <= q.quota
  BY AvailableCases
<1>2. amount <= available
  BY DEF CanConsume
<1>. DEFINE left == available - amount
<1>3. left \in Nat /\ left + amount = available /\ left <= q.quota
  <2>1. q.quota \in Nat
    BY DEF Quota
  <2>. HIDE DEF available
  <2>. QED
    BY <1>1, <1>2, <2>1
<1>4. Consumed(q, period, t, amount) = [q EXCEPT !.available = left, !.updatedAt = t]
  BY DEF Consumed
<1>5. available = AvailableQuota(q, period, t)
  OBVIOUS
<1>. HIDE DEF left, available
<1>. DEFINE p == [q EXCEPT !.available = left, !.updatedAt = t]
<1>6. p \in Quota /\ p.quota = q.quota /\ p.updatedAt = t /\ p.available = left
  BY <1>3 DEF Quota
<1>. HIDE DEF p
<1>. QED
  BY <1>3, <1>4, <1>5, <1>6 DEF p

---------------------------------------------------------------------------------
(* Histories *)

\* The fields of an entry of the history.
LEMMA EntryType ==
  ASSUME NEW history \in Seq(Consumption), NEW i \in DOMAIN history
  PROVE  i \in Nat /\ history[i].at \in Nat /\ history[i].amount \in Nat
<1>1. i \in Nat /\ history[i] \in Consumption
  OBVIOUS
<1>. QED
  BY <1>1 DEF Consumption

\* The entries of a window are finitely many, so their sum is a number.
LEMMA RecentFinite ==
  ASSUME NEW history \in Seq(Consumption), NEW from \in Nat
  PROVE  /\ IsFiniteSet(Recent(history, from))
         /\ AmountSince(history, from) \in Nat
         /\ Cardinality(Recent(history, from)) \in Nat
<1>. DEFINE n == Len(history)
<1>1. n \in Nat /\ DOMAIN history = 1 .. n
  OBVIOUS
<1>. HIDE DEF n
<1>2. IsFiniteSet(1 .. n)
  BY <1>1, FS_Interval
<1>3. Recent(history, from) \subseteq 1 .. n
  BY <1>1 DEF Recent
<1>4. IsFiniteSet(Recent(history, from))
  BY <1>2, <1>3, FS_Subset
<1>. DEFINE w == [i \in DOMAIN history |-> history[i].amount]
<1>5. \A i \in Recent(history, from) : w[i] \in Nat
  BY EntryType DEF Recent
<1>. HIDE DEF w
<1>6. Total(w, Recent(history, from)) \in Nat
  BY <1>4, <1>5, TotalNat
<1>. QED
  BY <1>4, <1>6, FS_CardinalityType DEF AmountSince, w

\* A consumption counts in the windows that reach back to its time.
LEMMA AppendCounts ==
  ASSUME NEW history \in Seq(Consumption), NEW at \in Nat, NEW amount \in Nat, NEW from \in Nat,
         from <= at
  PROVE  LET longer == Append(history, [at |-> at, amount |-> amount])
         IN  /\ AmountSince(longer, from) = AmountSince(history, from) + amount
             /\ Cardinality(Recent(longer, from)) = Cardinality(Recent(history, from)) + 1
<1>. DEFINE longer == Append(history, [at |-> at, amount |-> amount])
            n == Len(history) + 1
            r == Recent(history, from)
            w == [i \in DOMAIN history |-> history[i].amount]
            v == [i \in DOMAIN longer |-> longer[i].amount]
<1>1. /\ n \in Nat /\ n \notin DOMAIN history /\ DOMAIN longer = DOMAIN history \cup {n}
      /\ \A i \in DOMAIN history : longer[i] = history[i]
      /\ longer[n].at = at /\ longer[n].amount = amount
  OBVIOUS
<1>2. IsFiniteSet(r) /\ n \notin r /\ \A i \in r : w[i] \in Nat /\ v[i] = w[i]
  <2>1. r \subseteq DOMAIN history
    BY DEF Recent
  <2>2. \A i \in DOMAIN history : w[i] \in Nat /\ v[i] = w[i]
    BY <1>1, EntryType
  <2>3. IsFiniteSet(r)
    BY RecentFinite
  <2>. QED
    BY <1>1, <2>1, <2>2, <2>3
<1>3. v[n] = amount
  BY <1>1
<1>4. Recent(longer, from) = r \cup {n}
  BY <1>1 DEF Recent
<1>6. AmountSince(history, from) = Total(w, r) /\ AmountSince(longer, from) = Total(v, Recent(longer, from))
  BY DEF AmountSince
<1>5. r = Recent(history, from)
  OBVIOUS
<1>. HIDE DEF longer, n, r, w, v
<1>7. Total(v, r) = Total(w, r)
  BY <1>2, TotalSame
<1>8. Total(v, r \cup {n}) = Total(v, r) + amount
  <2>1. \A i \in r \cup {n} : v[i] \in Nat
    BY <1>2, <1>3
  <2>. QED
    BY <1>2, <1>3, <2>1, TotalAdd
<1>9. Cardinality(r \cup {n}) = Cardinality(r) + 1
  BY <1>2, FS_AddElement
<1>. QED
  BY <1>4, <1>5, <1>6, <1>7, <1>8, <1>9 DEF longer

\* Nothing was consumed after the last consumption.
LEMMA NothingRecent ==
  ASSUME NEW history \in Seq(Consumption), NEW last \in Nat, EndsBy(history, last),
         NEW from \in Nat, from > last
  PROVE  AmountSince(history, from) = 0 /\ Cardinality(Recent(history, from)) = 0
<1>1. ASSUME NEW i \in Recent(history, from)
      PROVE  FALSE
  <2>1. i \in DOMAIN history /\ history[i].at >= from
    BY DEF Recent
  <2>2. i \in Nat /\ history[i].at \in Nat
    BY <2>1, EntryType
  <2>. QED
    BY <2>1, <2>2 DEF EndsBy
<1>2. Recent(history, from) = {}
  BY <1>1
<1>. QED
  BY <1>2, TotalEmpty, FS_EmptySet DEF AmountSince

---------------------------------------------------------------------------------
(* A consumption *)

\* The refills of two spans of time are no more than the refill of both.
LEMMA RefillSum ==
  ASSUME NEW quota \in Nat, NEW period \in Nat \ {0},
         NEW from \in Nat, NEW u \in Nat, NEW t \in Nat, from <= u, u <= t
  PROVE  /\ (quota * (u - from)) \div period + (quota * (t - u)) \div period
               <= (quota * (t - from)) \div period
         /\ (quota * (u - from)) \div period \in Nat
         /\ (quota * (t - from)) \div period \in Nat
<1>. DEFINE a == quota * (u - from)
            b == quota * (t - u)
<1>1. u - from \in Nat /\ t - u \in Nat
  OBVIOUS
<1>2. a \in Nat /\ b \in Nat /\ a + b = quota * (t - from)
  BY <1>1
<1>. HIDE DEF a, b
<1>3. a \div period + b \div period <= (a + b) \div period /\ a \div period \in Nat /\ (a + b) \div period \in Nat
  BY <1>2, DivSum, DivBounds
<1>. QED
  BY <1>2, <1>3 DEF a, b

\* A refill rounded down, and a unit, make up for the time since the last one.
LEMMA RefillLoss ==
  ASSUME NEW quota \in Nat, NEW period \in Nat \ {0},
         NEW from \in Nat, NEW u \in Nat, NEW t \in Nat, from < t, u <= t,
         NEW y \in Nat, from < u => quota <= y \/ quota * (u - from) <= period * y,
         NEW refill \in Nat, quota * (t - u) < period * refill + period
  PROVE  quota <= y + refill + 1 \/ quota * (t - from) <= period * (y + refill + 1)
<1>1. period * (y + refill + 1) = period * y + period * refill + period
  OBVIOUS
<1>2. period * y \in Nat /\ period * refill \in Nat
  OBVIOUS
<1>3. CASE from < u
  <2>1. quota * (t - from) = quota * (u - from) + quota * (t - u)
    OBVIOUS
  <2>2. quota * (t - from) \in Int /\ quota * (u - from) \in Int /\ quota * (t - u) \in Int
    OBVIOUS
  <2>3. quota <= y => quota <= y + refill + 1
    OBVIOUS
  <2>4. quota * (u - from) <= period * y => quota * (t - from) <= period * (y + refill + 1)
    BY <1>1, <1>2, <2>1, <2>2
  <2>. QED
    BY <1>3, <2>3, <2>4
<1>4. CASE u <= from
  <2>1. t - from \in Nat /\ t - u \in Nat /\ t - from <= t - u
    BY <1>4
  <2>2. quota * (t - from) <= quota * (t - u)
    BY <2>1, TimesLe
  <2>3. quota * (t - from) \in Int /\ quota * (t - u) \in Int
    OBVIOUS
  <2>. QED
    BY <1>1, <1>2, <2>2, <2>3
<1>. QED
  BY <1>3, <1>4

\* What is left of a quota, counted with what was consumed.
LEMMA WindowSum ==
  ASSUME NEW x \in Nat, NEW left \in Nat, NEW quota \in Nat, NEW before \in Nat, NEW refill \in Nat,
         NEW whole \in Nat, NEW rest \in Nat,
         x + left <= quota + before, rest <= left + refill, before + refill <= whole
  PROVE  x + rest <= quota + whole
OBVIOUS

\* A consumption of a limited quota keeps the bound of each window.
LEMMA WindowStep ==
  ASSUME NEW q \in Quota, ~Unlimited(q), NEW period \in Nat \ {0}, NEW t \in Nat, UpdatedBy(q, t),
         NEW setAt \in Nat, NEW amount \in Nat,
         NEW history \in Seq(Consumption), EndsBy(history, q.updatedAt)
  PROVE  CanConsume(q, period, t, amount) /\ WindowOf(q, history, period, setAt) =>
           WindowOf(Consumed(q, period, t, amount), Append(history, [at |-> t, amount |-> amount]),
                period, setAt)
<1>. DEFINE p == Consumed(q, period, t, amount)
            longer == Append(history, [at |-> t, amount |-> amount])
            available == AvailableQuota(q, period, t)
            refill == (q.quota * (t - q.updatedAt)) \div period
<1>0. SUFFICES ASSUME CanConsume(q, period, t, amount), WindowOf(q, history, period, setAt)
               PROVE  WindowOf(p, longer, period, setAt)
  OBVIOUS
<1>1. p.quota = q.quota /\ p.updatedAt = t /\ p \in Quota /\ p.available + amount = available
  BY <1>0, ConsumedParts
<1>2. q.quota \in Nat /\ q.available \in Nat /\ q.updatedAt \in Nat /\ p.available \in Nat
  BY <1>1 DEF Quota
<1>3. /\ available \in Nat /\ available <= q.quota
      /\ q.updatedAt # 0 => available <= q.available + refill
      /\ refill \in Nat
  BY AvailableCases
<1>4. ASSUME NEW from \in Nat, from <= t
      PROVE  /\ AmountSince(longer, from) = AmountSince(history, from) + amount
             /\ AmountSince(history, from) \in Nat
             /\ q.updatedAt < from => AmountSince(history, from) = 0
  <2>1. AmountSince(longer, from) = AmountSince(history, from) + amount
    BY <1>4, AppendCounts
  <2>2. AmountSince(history, from) \in Nat
    BY RecentFinite
  <2>3. q.updatedAt < from => AmountSince(history, from) = 0
    BY <1>2, NothingRecent
  <2>. QED
    BY <2>1, <2>2, <2>3
<1>5. ASSUME NEW from \in Nat, setAt <= from, 1 <= from, from <= q.updatedAt
      PROVE  AmountSince(history, from) + q.available
               <= q.quota + (q.quota * (q.updatedAt - from)) \div period
  BY <1>0, <1>5 DEF WindowOf
<1>6. ASSUME NEW from \in Nat, from <= q.updatedAt
      PROVE  /\ (q.quota * (q.updatedAt - from)) \div period + refill
                   <= (q.quota * (t - from)) \div period
             /\ (q.quota * (q.updatedAt - from)) \div period \in Nat
  BY <1>2, <1>6, RefillSum DEF UpdatedBy
<1>7. ASSUME NEW from \in Nat, from <= t
      PROVE  (q.quota * (t - from)) \div period \in Nat
  <2>1. t - from \in Nat
    BY <1>7
  <2>2. q.quota * (t - from) \in Nat
    BY <1>2, <2>1
  <2>. QED
    BY <2>2, DivBounds
<1>. HIDE DEF p, longer, available, refill
<1>8. ASSUME NEW from \in Nat, setAt <= from, 1 <= from, from <= t
      PROVE  AmountSince(longer, from) + p.available <= q.quota + (q.quota * (t - from)) \div period
  <2>. DEFINE x == AmountSince(history, from)
              before == (q.quota * (q.updatedAt - from)) \div period
              whole == (q.quota * (t - from)) \div period
  <2>1. x \in Nat /\ AmountSince(longer, from) = x + amount /\ (q.updatedAt < from => x = 0)
    BY <1>4, <1>8
  <2>2. whole \in Nat
    BY <1>7, <1>8
  <2>3. from <= q.updatedAt => /\ x + q.available <= q.quota + before
                               /\ before \in Nat /\ before + refill <= whole
    BY <1>5, <1>6, <1>8
  <2>. HIDE DEF x, before, whole
  <2>4. CASE from <= q.updatedAt
    <3>1. available <= q.available + refill /\ refill \in Nat /\ available \in Nat
      BY <1>2, <1>3, <1>8, <2>4
    <3>2. x + q.available <= q.quota + before /\ before \in Nat /\ before + refill <= whole
      BY <2>3, <2>4
    <3>3. x + available <= q.quota + whole
      BY <1>2, <2>1, <2>2, <3>1, <3>2, WindowSum
    <3>4. AmountSince(longer, from) + p.available = x + available
      <4>1. (x + amount) + p.available = x + (p.available + amount)
        BY <1>2, <2>1
      <4>. QED
        BY <1>1, <2>1, <4>1
    <3>. QED
      BY <3>3, <3>4 DEF whole
  <2>5. CASE q.updatedAt < from
    <3>1. AmountSince(longer, from) + p.available <= q.quota + whole
      BY <1>1, <1>2, <1>3, <1>8, <2>1, <2>2, <2>5
    <3>. QED
      BY <3>1 DEF whole
  <2>. QED
    BY <1>2, <2>4, <2>5
<1>9. WindowOf(p, longer, period, setAt)
  BY <1>1, <1>8 DEF WindowOf
<1>. QED
  BY <1>9 DEF p, longer

\* A consumption of a limited quota loses less than a unit of its refill.
LEMMA RefillStep ==
  ASSUME NEW q \in Quota, ~Unlimited(q), NEW period \in Nat \ {0}, NEW t \in Nat, UpdatedBy(q, t),
         NEW setAt \in Nat, NEW amount \in Nat,
         NEW history \in Seq(Consumption)
  PROVE  CanConsume(q, period, t, amount) /\ RefillOf(q, history, period, setAt) =>
           RefillOf(Consumed(q, period, t, amount), Append(history, [at |-> t, amount |-> amount]),
                period, setAt)
<1>. DEFINE p == Consumed(q, period, t, amount)
            longer == Append(history, [at |-> t, amount |-> amount])
            available == AvailableQuota(q, period, t)
            refill == (q.quota * (t - q.updatedAt)) \div period
<1>0. SUFFICES ASSUME CanConsume(q, period, t, amount), RefillOf(q, history, period, setAt)
               PROVE  RefillOf(p, longer, period, setAt)
  OBVIOUS
<1>1. p.quota = q.quota /\ p.updatedAt = t /\ p \in Quota /\ p.available + amount = available
  BY <1>0, ConsumedParts
<1>2. q.quota \in Nat /\ q.available \in Nat /\ q.updatedAt \in Nat /\ p.available \in Nat
  BY <1>1 DEF Quota
<1>3. available \in Nat /\ (available = q.quota \/ available = q.available + refill)
  BY AvailableCases
<1>4. refill \in Nat /\ q.quota * (t - q.updatedAt) < period * refill + period
  <2>1. t - q.updatedAt \in Nat
    BY <1>2 DEF UpdatedBy
  <2>2. q.quota * (t - q.updatedAt) \in Nat
    BY <1>2, <2>1
  <2>. QED
    BY <2>2, DivBounds
<1>5. ASSUME NEW from \in Nat, from < t
      PROVE  /\ Accounted(q, history, from) \in Nat
             /\ Accounted(q, history, from) >= q.available
             /\ Accounted(p, longer, from) = Accounted(q, history, from) - q.available + available + 1
  <2>. DEFINE a == AmountSince(history, from + 1)
              n == Cardinality(Recent(history, from + 1))
  <2>1. from + 1 \in Nat /\ from + 1 <= t
    BY <1>5
  <2>2. a \in Nat /\ n \in Nat
    BY <2>1, RecentFinite
  <2>3. AmountSince(longer, from + 1) = a + amount /\ Cardinality(Recent(longer, from + 1)) = n + 1
    BY <2>1, AppendCounts
  <2>4. Accounted(q, history, from) = q.available + a + n
    BY DEF Accounted
  <2>5. Accounted(p, longer, from) = p.available + AmountSince(longer, from + 1)
                                       + Cardinality(Recent(longer, from + 1))
    BY DEF Accounted
  <2>. HIDE DEF a, n, p, longer, available, refill
  <2>6. Accounted(p, longer, from) = p.available + (a + amount) + (n + 1)
    BY <2>3, <2>5
  <2>7. PICK left \in Nat, next \in Nat : left = q.available /\ next = p.available
    BY <1>2
  <2>8. /\ left + a + n \in Nat /\ left + a + n >= left
        /\ next + (a + amount) + (n + 1) = (left + a + n) - left + (next + amount) + 1
    BY <2>2
  <2>. QED
    BY <1>1, <2>4, <2>6, <2>7, <2>8, Zenon
<1>6. ASSUME NEW from \in Nat, setAt <= from, from < q.updatedAt
      PROVE  \/ q.quota <= Accounted(q, history, from)
             \/ q.quota * (q.updatedAt - from) <= period * Accounted(q, history, from)
  BY <1>0, <1>6 DEF RefillOf
<1>. HIDE DEF p, longer, available, refill
<1>7. ASSUME NEW from \in Nat, setAt <= from, from < t
      PROVE  \/ q.quota <= Accounted(p, longer, from)
             \/ q.quota * (t - from) <= period * Accounted(p, longer, from)
  <2>. DEFINE y == Accounted(q, history, from)
              z == Accounted(p, longer, from)
  <2>1. y \in Nat /\ y >= q.available /\ z = y - q.available + available + 1
    BY <1>5, <1>7
  <2>2. from < q.updatedAt => q.quota <= y \/ q.quota * (q.updatedAt - from) <= period * y
    BY <1>6, <1>7
  <2>. HIDE DEF y, z
  <2>3. CASE available = q.quota
    <3>1. q.quota <= z
      BY <1>2, <2>1, <2>3
    <3>. QED
      BY <3>1 DEF z
  <2>4. CASE available = q.available + refill
    <3>1. z = y + refill + 1
      BY <1>2, <1>4, <2>1, <2>4
    <3>2. q.quota <= y + refill + 1 \/ q.quota * (t - from) <= period * (y + refill + 1)
      BY <1>2, <1>4, <1>7, <2>1, <2>2, RefillLoss DEF UpdatedBy
    <3>. QED
      BY <3>1, <3>2 DEF z
  <2>. QED
    BY <1>3, <2>3, <2>4
<1>8. RefillOf(p, longer, period, setAt)
  BY <1>1, <1>7 DEF RefillOf
<1>. QED
  BY <1>8 DEF p, longer

---------------------------------------------------------------------------------
(* What the invariant says of the windows *)

\* The refill up to now is no less than the refill up to the last consumption.
LEMMA WindowNow ==
  ASSUME NEW q \in Quota, NEW period \in Nat \ {0}, NEW t \in Nat, UpdatedBy(q, t),
         NEW setAt \in Nat, NEW history \in Seq(Consumption), NEW from \in Nat
  PROVE  WindowOf(q, history, period, setAt) /\ setAt <= from /\ 1 <= from /\ from <= q.updatedAt =>
           AmountSince(history, from) <= q.quota + (q.quota * (t - from)) \div period
<1>0. SUFFICES ASSUME WindowOf(q, history, period, setAt),
                      setAt <= from /\ 1 <= from /\ from <= q.updatedAt
               PROVE  AmountSince(history, from) <= q.quota + (q.quota * (t - from)) \div period
  OBVIOUS
<1>1. PICK quota \in Nat, left \in Nat, u \in Nat :
        quota = q.quota /\ left = q.available /\ u = q.updatedAt
  BY DEF Quota
<1>2. PICK x \in Nat : x = AmountSince(history, from)
  BY RecentFinite
<1>3. from <= u /\ u <= t
  BY <1>0, <1>1 DEF UpdatedBy
<1>. DEFINE before == (quota * (u - from)) \div period
            refill == (quota * (t - u)) \div period
            whole == (quota * (t - from)) \div period
<1>4. before + refill <= whole /\ before \in Nat /\ whole \in Nat
  BY <1>3, RefillSum
<1>5. refill \in Nat
  <2>1. t - u \in Nat
    BY <1>3
  <2>2. quota * (t - u) \in Nat
    BY <2>1
  <2>. QED
    BY <2>2, DivBounds
<1>6. x + left <= quota + before
  BY <1>0, <1>1, <1>2, Zenon DEF WindowOf
<1>. HIDE DEF before, refill, whole
<1>7. x <= quota + whole
  BY <1>4, <1>5, <1>6
<1>. QED
  BY <1>1, <1>2, <1>7, Zenon DEF whole

\* A period after, the quota is available or accounted for.
LEMMA RestoredNow ==
  ASSUME NEW q \in Quota, NEW period \in Nat \ {0}, NEW t \in Nat, UpdatedBy(q, t),
         NEW setAt \in Nat, NEW history \in Seq(Consumption), NEW from \in Nat,
         t = from + period, setAt <= from
  PROVE  RefillOf(q, history, period, setAt) =>
           AvailableQuota(q, period, t) + AmountSince(history, from + 1)
             + Cardinality(Recent(history, from + 1)) >= q.quota
<1>0. SUFFICES ASSUME RefillOf(q, history, period, setAt)
               PROVE  AvailableQuota(q, period, t) + AmountSince(history, from + 1)
                        + Cardinality(Recent(history, from + 1)) >= q.quota
  OBVIOUS
<1>1. PICK quota \in Nat, left \in Nat, u \in Nat :
        quota = q.quota /\ left = q.available /\ u = q.updatedAt
  BY DEF Quota
<1>2. PICK x \in Nat, n \in Nat :
        x = AmountSince(history, from + 1) /\ n = Cardinality(Recent(history, from + 1))
  <2>1. from + 1 \in Nat
    OBVIOUS
  <2>. QED
    BY <2>1, RecentFinite
<1>3. PICK refill \in Nat : refill = (quota * (t - u)) \div period
                            /\ quota * (t - u) < period * refill + period
                            /\ quota * (t - u) \in Nat
  <2>1. t - u \in Nat
    BY <1>1 DEF UpdatedBy
  <2>2. quota * (t - u) \in Nat
    BY <2>1
  <2>. QED
    BY <2>2, DivBounds
<1>4. PICK rest \in Nat : /\ rest = AvailableQuota(q, period, t)
                          /\ rest = quota \/ rest = left + refill
  BY <1>1, <1>3, AvailableCases, Zenon
<1>5. ASSUME rest = quota
      PROVE  rest + x + n >= quota
  BY <1>5
<1>6. ASSUME rest = left + refill, u <= from
      PROVE  rest + x + n >= quota
  <2>1. period <= t - u /\ t - u \in Nat
    BY <1>6
  <2>2. period * quota <= quota * (t - u)
    <3>1. quota * period <= quota * (t - u)
      BY <2>1, TimesLe
    <3>2. quota * period = period * quota
      OBVIOUS
    <3>. QED
      BY <3>1, <3>2
  <2>3. quota <= refill
    BY <1>3, <2>2, DivGreatest
  <2>. QED
    BY <1>6, <2>3
<1>7. ASSUME rest = left + refill, from < u
      PROVE  rest + x + n >= quota
  <2>. DEFINE y == left + x + n
  <2>1. y \in Nat /\ rest + x + n = y + refill
    BY <1>7
  <2>2. quota <= y \/ quota * (u - from) <= period * y
    BY <1>0, <1>1, <1>2, <1>7, Zenon DEF RefillOf, Accounted
  <2>. HIDE DEF y
  <2>3. CASE quota <= y
    BY <2>1, <2>3
  <2>4. CASE quota * (u - from) <= period * y
    <3>. SUFFICES ASSUME y + refill + 1 <= quota PROVE FALSE
      BY <2>1
    <3>1. period * (y + refill + 1) <= period * quota
      BY <2>1, TimesLe
    <3>2. period * (y + refill + 1) = period * y + period * refill + period
      BY <2>1
    <3>3. period * quota = quota * (u - from) + quota * (t - u)
      OBVIOUS
    <3>4. /\ quota * (u - from) \in Int /\ quota * (t - u) \in Int /\ period * y \in Int
          /\ period * refill \in Int /\ period * quota \in Int
      BY <2>1
    <3>. QED
      BY <1>3, <2>4, <3>1, <3>2, <3>3, <3>4
  <2>. QED
    BY <2>2, <2>3, <2>4
<1>8. rest + x + n >= quota
  BY <1>4, <1>5, <1>6, <1>7
<1>. QED
  BY <1>1, <1>2, <1>4, <1>8, Zenon

---------------------------------------------------------------------------------
(* The invariant *)

\* A quota the owner sets is whole and was never consumed.
LEMMA TokenUpdated ==
  ASSUME NEW quota \in Nat, NEW period, NEW setAt, NEW t \in Nat
  PROVE  TokenOK(UpdatedQuota(quota), <<>>, period, setAt, t)
<1>. DEFINE q == UpdatedQuota(quota)
<1>1. q \in Quota /\ q.available = quota /\ q.quota = quota /\ q.updatedAt = 0
  BY DEF UpdatedQuota, Quota
<1>2. <<>> \in Seq(Consumption) /\ \A i \in Nat : i \notin DOMAIN <<>>
  OBVIOUS
<1>3. UpdatedBy(q, t) /\ EndsBy(<<>>, q.updatedAt)
  BY <1>1, <1>2 DEF UpdatedBy, EndsBy
<1>4. \A from \in Nat : ~ (from < 0) /\ (from <= 0 => ~ (1 <= from))
  OBVIOUS
<1>5. WindowOf(q, <<>>, period, setAt) /\ RefillOf(q, <<>>, period, setAt)
  BY <1>1, <1>4 DEF WindowOf, RefillOf
<1>. HIDE DEF q
<1>6. TokenOK(q, <<>>, period, setAt, t)
  BY <1>1, <1>2, <1>3, <1>5 DEF TokenOK
<1>. QED
  BY <1>6 DEF q

\* Time passes.
LEMMA TokenLater ==
  ASSUME NEW q, NEW history, NEW period, NEW setAt, NEW t \in Nat, NEW u \in Nat, t <= u,
         TokenOK(q, history, period, setAt, t)
  PROVE  TokenOK(q, history, period, setAt, u)
<1>1. UpdatedBy(q, u)
  <2>1. q.updatedAt \in Nat /\ q.updatedAt <= t
    BY DEF TokenOK, Quota, UpdatedBy
  <2>. QED
    BY <2>1 DEF UpdatedBy
<1>. QED
  BY <1>1 DEF TokenOK

\* With the period, the windows start anew.
LEMMA TokenPeriod ==
  ASSUME NEW q, NEW history, NEW period \in Nat \ {0}, NEW next \in Nat \ {0}, NEW setAt \in Nat,
         NEW t \in Nat, setAt <= t, TokenOK(q, history, period, setAt, t)
  PROVE  TokenOK(q, history, next, t, t)
<1>1. PICK quota \in Nat, left \in Nat, u \in Nat :
        quota = q.quota /\ left = q.available /\ u = q.updatedAt
  BY DEF TokenOK, Quota
<1>2. u <= t
  BY <1>1 DEF TokenOK, UpdatedBy
<1>3. quota * (t - t) = 0 /\ 0 \div period = 0 /\ 0 \div next = 0
  BY DivBounds
<1>4. ASSUME ~Unlimited(q), NEW from \in Nat, t <= from, 1 <= from, from <= u
      PROVE  AmountSince(history, from) + left <= quota + (quota * (u - from)) \div next
  <2>1. from = t /\ u = t /\ setAt <= from
    BY <1>2, <1>4
  <2>2. AmountSince(history, from) + left <= quota + (quota * (u - from)) \div period
    BY <1>1, <1>4, <2>1 DEF TokenOK, WindowOf
  <2>. QED
    BY <1>3, <2>1, <2>2
<1>5. ~Unlimited(q) => WindowOf(q, history, next, t)
  BY <1>1, <1>4 DEF WindowOf
<1>6. RefillOf(q, history, next, t)
  <2>1. ASSUME NEW from \in Nat, t <= from, from < u
        PROVE  FALSE
    BY <1>2, <2>1
  <2>. QED
    BY <1>1, <2>1 DEF RefillOf
<1>. QED
  BY <1>5, <1>6 DEF TokenOK

\* A consumption, limited or not.
LEMMA TokenConsumed ==
  ASSUME NEW q, NEW history, NEW period \in Nat \ {0}, NEW setAt \in Nat, NEW t \in Nat, t >= 1,
         NEW amount \in Nat, TokenOK(q, history, period, setAt, t)
  PROVE  CanConsume(q, period, t, amount) =>
           TokenOK(Consumed(q, period, t, amount), Append(history, [at |-> t, amount |-> amount]),
                   period, setAt, t)
<1>0. SUFFICES ASSUME CanConsume(q, period, t, amount)
               PROVE  TokenOK(Consumed(q, period, t, amount),
                              Append(history, [at |-> t, amount |-> amount]), period, setAt, t)
  OBVIOUS
<1>. DEFINE longer == Append(history, [at |-> t, amount |-> amount])
<1>1. q \in Quota /\ history \in Seq(Consumption) /\ UpdatedBy(q, t)
  BY DEF TokenOK
<1>2. longer \in Seq(Consumption)
  <2>1. [at |-> t, amount |-> amount] \in Consumption
    BY DEF Consumption
  <2>. QED
    BY <1>1, <2>1
<1>3. ASSUME NEW i \in Nat, i \in DOMAIN longer
      PROVE  (i \in DOMAIN history /\ longer[i] = history[i]) \/ longer[i].at = t
  BY <1>1, <1>3
<1>4. \A i \in Nat : i \in DOMAIN longer => longer[i].at >= 1
  BY <1>3 DEF TokenOK
<1>5. CASE Unlimited(q)
  <2>1. Consumed(q, period, t, amount) = q
    BY <1>5 DEF Consumed
  <2>. QED
    BY <1>1, <1>2, <1>4, <1>5, <2>1 DEF TokenOK
<1>6. CASE ~Unlimited(q)
  <2>. DEFINE p == Consumed(q, period, t, amount)
  <2>1. p \in Quota /\ p.updatedAt = t /\ p.available <= p.quota
    BY <1>0, <1>1, <1>6, ConsumedParts
  <2>2. EndsBy(history, q.updatedAt) /\ WindowOf(q, history, period, setAt)
        /\ RefillOf(q, history, period, setAt)
    BY <1>6 DEF TokenOK
  <2>3. WindowOf(p, longer, period, setAt)
    BY <1>0, <1>1, <1>6, <2>2, WindowStep
  <2>4. RefillOf(p, longer, period, setAt)
    BY <1>0, <1>1, <1>6, <2>2, RefillStep
  <2>5. EndsBy(longer, t)
    <3>1. q.updatedAt \in Nat /\ q.updatedAt <= t
      BY <1>1 DEF Quota, UpdatedBy
    <3>2. ASSUME NEW i \in Nat, i \in DOMAIN longer
          PROVE  longer[i].at <= t
      <4>1. CASE i \in DOMAIN history /\ longer[i] = history[i]
        <5>1. history[i].at \in Nat /\ history[i].at <= q.updatedAt
          BY <1>1, <2>2, <4>1, EntryType DEF EndsBy
        <5>. QED
          BY <3>1, <4>1, <5>1
      <4>. QED
        BY <1>3, <3>2, <4>1
    <3>. QED
      BY <3>2 DEF EndsBy
  <2>6. UpdatedBy(p, t)
    BY <2>1 DEF UpdatedBy
  <2>. HIDE DEF p, longer
  <2>7. TokenOK(p, longer, period, setAt, t)
    BY <1>2, <1>4, <2>1, <2>3, <2>4, <2>5, <2>6 DEF TokenOK
  <2>. QED
    BY <2>7 DEF p, longer
<1>. QED
  BY <1>5, <1>6

\* Nothing is consumed initially.
LEMMA InitQuotaInv ==
  ASSUME QuotaInit
  PROVE  QuotaInv
<1>1. ASSUME NEW token \in Tokens
      PROVE  TokenOK(tokenQuota[token], consumed[token], quotaPeriod, periodSetAt, now)
  <2>1. PICK quota \in Nat : tokenQuota[token] = UpdatedQuota(quota)
    BY QuotaAssumption DEF QuotaInit
  <2>2. consumed[token] = <<>> /\ now \in Nat
    BY DEF QuotaInit
  <2>. QED
    BY <2>1, <2>2, TokenUpdated
<1>2. TimesOK
  <2>1. tokenQuota = [token \in Tokens |-> tokenQuota[token]]
        /\ consumed = [token \in Tokens |-> consumed[token]]
    BY DEF QuotaInit
  <2>2. quotaPeriod \in Periods /\ paused \in BOOLEAN
    BY DEF QuotaInit
  <2>3. now = 1 /\ periodSetAt = 1
    BY DEF QuotaInit
  <2>4. now \in Nat /\ now >= 1 /\ periodSetAt \in Nat /\ periodSetAt <= now
    BY <2>3
  <2>. QED
    BY <2>1, <2>2, <2>4 DEF TimesOK
<1>. QED
  BY <1>1, <1>2 DEF QuotaInv

\* updateQuota fills the quota of one token and restarts its history.
LEMMA UpdateQuotaKeeps ==
  ASSUME QuotaInv, NEW token \in Tokens, NEW quota \in InitQuotas, UpdateQuota(token, quota)
  PROVE  QuotaInv'
<1>1. /\ tokenQuota' = [tokenQuota EXCEPT ![token] = UpdatedQuota(quota)]
      /\ consumed' = [consumed EXCEPT ![token] = <<>>]
      /\ quotaPeriod' = quotaPeriod /\ paused' = paused /\ now' = now /\ periodSetAt' = periodSetAt
  BY DEF UpdateQuota
<1>2. TimesOK'
  BY <1>1 DEF QuotaInv, TimesOK
<1>3. quota \in Nat /\ now \in Nat
  BY QuotaAssumption DEF QuotaInv, TimesOK
<1>4. ASSUME NEW k \in Tokens
      PROVE  TokenOK(tokenQuota'[k], consumed'[k], quotaPeriod, periodSetAt, now)
  <2>1. CASE k = token
    <3>1. tokenQuota'[k] = UpdatedQuota(quota) /\ consumed'[k] = <<>>
      BY <1>1, <2>1 DEF QuotaInv, TimesOK
    <3>. QED
      BY <1>3, <3>1, TokenUpdated
  <2>2. CASE k # token
    <3>1. tokenQuota'[k] = tokenQuota[k] /\ consumed'[k] = consumed[k]
      BY <1>1, <2>2 DEF QuotaInv, TimesOK
    <3>. QED
      BY <3>1 DEF QuotaInv
  <2>. QED
    BY <2>1, <2>2
<1>. QED
  BY <1>1, <1>2, <1>4 DEF QuotaInv

\* setQuotaPeriod changes the rate of every refill.
LEMMA SetQuotaPeriodKeeps ==
  ASSUME QuotaInv, NEW period \in Periods, SetQuotaPeriod(period)
  PROVE  QuotaInv'
<1>1. /\ quotaPeriod' = period /\ periodSetAt' = now
      /\ tokenQuota' = tokenQuota /\ consumed' = consumed /\ paused' = paused /\ now' = now
  BY DEF SetQuotaPeriod
<1>2. TimesOK'
  BY <1>1 DEF QuotaInv, TimesOK
<1>3. /\ period \in Nat \ {0} /\ quotaPeriod \in Nat \ {0} /\ now \in Nat
      /\ periodSetAt \in Nat /\ periodSetAt <= now
  BY QuotaAssumption DEF QuotaInv, TimesOK
<1>4. ASSUME NEW k \in Tokens
      PROVE  TokenOK(tokenQuota[k], consumed[k], period, now, now)
  <2>1. TokenOK(tokenQuota[k], consumed[k], quotaPeriod, periodSetAt, now)
    BY DEF QuotaInv
  <2>. QED
    BY <1>3, <2>1, TokenPeriod
<1>. QED
  BY <1>1, <1>2, <1>4 DEF QuotaInv

\* consumeQuota: what it takes from the available quota it adds to the history.
LEMMA ConsumeQuotaKeeps ==
  ASSUME QuotaInv, NEW token \in Tokens, NEW amount \in Amounts, ConsumeQuota(token, amount)
  PROVE  QuotaInv'
<1>. DEFINE q == Consumed(tokenQuota[token], quotaPeriod, now, amount)
            longer == Append(consumed[token], [at |-> now, amount |-> amount])
<1>1. /\ CanConsume(tokenQuota[token], quotaPeriod, now, amount)
      /\ tokenQuota' = [tokenQuota EXCEPT ![token] = q]
      /\ consumed' = [consumed EXCEPT ![token] = longer]
      /\ quotaPeriod' = quotaPeriod /\ paused' = paused /\ now' = now /\ periodSetAt' = periodSetAt
  BY DEF ConsumeQuota
<1>2. /\ amount \in Nat /\ quotaPeriod \in Nat \ {0} /\ now \in Nat /\ now >= 1 /\ periodSetAt \in Nat
  BY QuotaAssumption DEF QuotaInv, TimesOK
<1>3. TokenOK(tokenQuota[token], consumed[token], quotaPeriod, periodSetAt, now)
  BY DEF QuotaInv
<1>4. TokenOK(q, longer, quotaPeriod, periodSetAt, now)
  BY <1>1, <1>2, <1>3, TokenConsumed
<1>. HIDE DEF q, longer
<1>5. TimesOK'
  BY <1>1 DEF QuotaInv, TimesOK
<1>6. ASSUME NEW k \in Tokens
      PROVE  TokenOK(tokenQuota'[k], consumed'[k], quotaPeriod, periodSetAt, now)
  <2>1. CASE k = token
    <3>1. tokenQuota'[k] = q /\ consumed'[k] = longer
      BY <1>1, <2>1 DEF QuotaInv, TimesOK
    <3>. QED
      BY <1>4, <3>1
  <2>2. CASE k # token
    <3>1. tokenQuota'[k] = tokenQuota[k] /\ consumed'[k] = consumed[k]
      BY <1>1, <2>2 DEF QuotaInv, TimesOK
    <3>. QED
      BY <3>1 DEF QuotaInv
  <2>. QED
    BY <2>1, <2>2
<1>. QED
  BY <1>1, <1>5, <1>6 DEF QuotaInv

\* The clock or the pause.
LEMMA OtherStepKeeps ==
  ASSUME QuotaInv, tokenQuota' = tokenQuota, consumed' = consumed, quotaPeriod' = quotaPeriod,
         periodSetAt' = periodSetAt, now' \in Nat, now <= now', paused' \in BOOLEAN
  PROVE  QuotaInv'
<1>1. TimesOK'
  BY DEF QuotaInv, TimesOK
<1>2. ASSUME NEW k \in Tokens
      PROVE  TokenOK(tokenQuota[k], consumed[k], quotaPeriod, periodSetAt, now')
  <2>1. TokenOK(tokenQuota[k], consumed[k], quotaPeriod, periodSetAt, now) /\ now \in Nat
    BY DEF QuotaInv, TimesOK
  <2>. QED
    BY <2>1, TokenLater
<1>. QED
  BY <1>1, <1>2 DEF QuotaInv

\* The inductive invariant in every reachable state.
LEMMA QuotaInvariant == QuotaSpec => []QuotaInv
<1>1. QuotaInit => QuotaInv
  BY InitQuotaInv
<1>2. QuotaInv /\ [QuotaNext]_quotaVars => QuotaInv'
  <2>. SUFFICES ASSUME QuotaInv, [QuotaNext]_quotaVars PROVE QuotaInv'
    OBVIOUS
  <2>0. now \in Nat /\ now + 1 \in Nat /\ now <= now + 1 /\ now <= now /\ paused \in BOOLEAN
    BY DEF QuotaInv, TimesOK
  <2>1. ASSUME NEW token \in Tokens, NEW quota \in InitQuotas, UpdateQuota(token, quota)
        PROVE  QuotaInv'
    BY <2>1, UpdateQuotaKeeps
  <2>2. ASSUME NEW period \in Periods, SetQuotaPeriod(period)
        PROVE  QuotaInv'
    BY <2>2, SetQuotaPeriodKeeps
  <2>3. ASSUME NEW token \in Tokens, NEW amount \in Amounts, ConsumeQuota(token, amount)
        PROVE  QuotaInv'
    BY <2>3, ConsumeQuotaKeeps
  <2>4. CASE SetPaused
    BY <2>0, <2>4, OtherStepKeeps DEF SetPaused
  <2>5. CASE Tick
    BY <2>0, <2>5, OtherStepKeeps DEF Tick
  <2>6. CASE UNCHANGED quotaVars
    BY <2>0, <2>6, OtherStepKeeps DEF quotaVars
  <2>. QED
    BY <2>1, <2>2, <2>3, <2>4, <2>5, <2>6 DEF QuotaNext
<1>. QED
  BY <1>1, <1>2, PTL DEF QuotaSpec

---------------------------------------------------------------------------------
(* Theorems *)

\* No token has more available than its quota, and no subtraction of consumeQuota wraps.
THEOREM QuotaTypeCorrect == QuotaSpec => []TypeOK
<1>1. QuotaInv => TypeOK
  <2>. SUFFICES ASSUME QuotaInv PROVE TypeOK
    OBVIOUS
  <2>1. tokenQuota \in [Tokens -> Quota] /\ consumed \in [Tokens -> Seq(Consumption)]
    BY DEF QuotaInv, TokenOK, TimesOK
  <2>. QED
    BY <2>1 DEF QuotaInv, TypeOK, TokenOK, TimesOK, UpdatedBy
<1>. QED
  BY <1>1, QuotaInvariant, PTL

\* No window of time since the period was set releases more than the quota and the
\* refill of the window, whenever its consumptions come.
THEOREM WindowsAreBounded == QuotaSpec => []WindowBound
<1>1. QuotaInv => WindowBound
  <2>. SUFFICES ASSUME QuotaInv, NEW token \in Tokens, NEW i \in DOMAIN consumed[token],
                       ~Unlimited(tokenQuota[token]), ~ (consumed[token][i].at < periodSetAt)
                PROVE  LET q == tokenQuota[token]
                           from == consumed[token][i].at
                       IN  AmountSince(consumed[token], from)
                             <= q.quota + (q.quota * (now - from)) \div quotaPeriod
    BY DEF WindowBound
  <2>. DEFINE q == tokenQuota[token]
              history == consumed[token]
              from == history[i].at
  <2>1. TokenOK(q, history, quotaPeriod, periodSetAt, now)
    BY DEF QuotaInv
  <2>2. /\ q \in Quota /\ history \in Seq(Consumption) /\ UpdatedBy(q, now)
        /\ EndsBy(history, q.updatedAt) /\ WindowOf(q, history, quotaPeriod, periodSetAt)
        /\ \A j \in Nat : j \in DOMAIN history => history[j].at >= 1
    BY <2>1 DEF TokenOK
  <2>3. i \in Nat /\ from \in Nat
    BY <2>2, EntryType
  <2>4. from <= q.updatedAt /\ from >= 1
    BY <2>2, <2>3 DEF EndsBy
  <2>5. quotaPeriod \in Nat \ {0} /\ now \in Nat /\ periodSetAt \in Nat
    BY QuotaAssumption DEF QuotaInv, TimesOK
  <2>6. periodSetAt <= from /\ 1 <= from
    BY <2>3, <2>4, <2>5
  <2>. HIDE DEF q, history, from
  <2>7. AmountSince(history, from) <= q.quota + (q.quota * (now - from)) \div quotaPeriod
    BY <2>2, <2>3, <2>4, <2>5, <2>6, WindowNow
  <2>. QED
    BY <2>7 DEF q, history, from
<1>. QED
  BY <1>1, QuotaInvariant, PTL

\* What was consumed longer than a period ago is available again, but for a unit for
\* each consumption since.
THEOREM QuotasAreRestored == QuotaSpec => []RestoredAfterPeriod
<1>1. QuotaInv => RestoredAfterPeriod
  <2>. SUFFICES ASSUME QuotaInv, NEW token \in Tokens, ~Unlimited(tokenQuota[token]),
                       ~ (now < periodSetAt + quotaPeriod)
                PROVE  LET from == now - quotaPeriod
                       IN  /\ now >= quotaPeriod
                           /\ AvailableQuota(tokenQuota[token], quotaPeriod, now)
                                 + AmountSince(consumed[token], from + 1)
                                 + Cardinality(Recent(consumed[token], from + 1))
                                 >= tokenQuota[token].quota
    BY DEF RestoredAfterPeriod
  <2>1. TokenOK(tokenQuota[token], consumed[token], quotaPeriod, periodSetAt, now)
    BY DEF QuotaInv
  <2>2. quotaPeriod \in Nat \ {0} /\ now \in Nat /\ periodSetAt \in Nat
    BY QuotaAssumption DEF QuotaInv, TimesOK
  <2>3. /\ now >= quotaPeriod /\ now - quotaPeriod \in Nat
        /\ now = (now - quotaPeriod) + quotaPeriod /\ periodSetAt <= now - quotaPeriod
    BY <2>2
  <2>4. /\ tokenQuota[token] \in Quota /\ consumed[token] \in Seq(Consumption)
        /\ UpdatedBy(tokenQuota[token], now)
        /\ RefillOf(tokenQuota[token], consumed[token], quotaPeriod, periodSetAt)
    BY <2>1 DEF TokenOK
  <2>. QED
    BY <2>2, <2>3, <2>4, RestoredNow
<1>. QED
  BY <1>1, QuotaInvariant, PTL
=================================================================================
