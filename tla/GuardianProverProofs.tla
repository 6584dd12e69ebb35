--------------------------- MODULE GuardianProverProofs ---------------------------
(***************************************************************************)
(* For any accounts, sets of guardians, blocks and proofs, and any number  *)
(* of changes of the guardians: a proof is given to TaikoL1 on the approval *)
(* of the minimum of different guardians, and conflicting approvals do not *)
(* pile up unseen.                                                         *)
(***************************************************************************)
EXTENDS GuardianProver, FiniteSetTheorems, TLAPS

\* Approvals are approvals of the guardians who hold the ids now, as long as no set took
\* over those of another.
ApprovalsOK ==
  /\ guardianIds = IdsOf(guardians)
  /\ approvers \in [Proofs -> SUBSET Addresses]
  /\ cleared \in BOOLEAN
  /\ cleared => \A p \in Proofs : \A i \in approvals[p] \cap DOMAIN guardians :
                  guardians[i] \in approvers[p]

\* Before a block is proven, latestProofHash names one of its proofs as soon as one has
\* an approval, and any other with an approval was warned of.
LatestOK ==
  \A b \in Blocks : proven[b] = NoProof =>
    \A q \in Proofs : BlockOf(q) = b /\ approvals[q] # {} =>
      /\ latestProofHash[b] # NoProof
      /\ q # latestProofHash[b] => {latestProofHash[b], q} \in warned

IInv == TypeOK /\ ApprovalsOK /\ LatestOK /\ NoSilentConflict /\ ProofBacked

----------------------------------------------------------------------------------
(* Ids *)

\* The id of a guardian is the place in the list, that of anybody else is 0.
LEMMA IdIsPlace ==
  ASSUME NEW s \in Seq(Addresses), IsInjective(s), NEW a \in Addresses
  PROVE  /\ \A i \in DOMAIN s : s[i] = a => IdsOf(s)[a] = i
         /\ (\A i \in DOMAIN s : s[i] # a) => IdsOf(s)[a] = 0
<1>. DEFINE I == {i \in 1 .. Len(s) : s[i] = a}
<1>1. IdsOf(s)[a] = IF I # {} THEN Min(I) ELSE 0
  BY DEF IdsOf, SelectInSeq
<1>2. DOMAIN s = 1 .. Len(s) /\ Len(s) \in Nat
  OBVIOUS
<1>3. ASSUME NEW i \in DOMAIN s, s[i] = a
      PROVE  IdsOf(s)[a] = i
  <2>1. I = {i}
    BY <1>2, <1>3 DEF IsInjective
  <2>2. i \in Int
    BY <1>2
  <2>. HIDE DEF I
  <2>3. Min({i}) = i
    BY <2>2 DEF Min
  <2>. QED
    BY <1>1, <2>1, <2>3
<1>4. ASSUME \A i \in DOMAIN s : s[i] # a
      PROVE  IdsOf(s)[a] = 0
  BY <1>1, <1>2, <1>4
<1>. QED
  BY <1>3, <1>4

\* A list of guardians names nobody twice and is not empty.
LEMMA SetsAreInjective ==
  ASSUME NEW s \in GuardianSets
  PROVE  /\ s \in Seq(Addresses) /\ IsInjective(s) /\ s # <<>>
         /\ DOMAIN s = 1 .. Len(s) /\ Len(s) \in Nat
BY GuardianAssumption

\* A list of guardians is not longer than there are accounts.
LEMMA PlacesAreIds ==
  ASSUME NEW s \in GuardianSets
  PROVE  DOMAIN s \subseteq Ids
<1>1. s \in Injection(DOMAIN s, Addresses) /\ s \in Seq(Addresses)
  BY SetsAreInjective DEF Injection, IsInjective
<1>2. Cardinality(DOMAIN s) <= Cardinality(Addresses)
  BY <1>1, GuardianAssumption, FS_Injection
<1>3. DOMAIN s = 1 .. Len(s) /\ Len(s) \in Nat
  BY SetsAreInjective
<1>4. Cardinality(1 .. Len(s)) = Len(s)
  <2>. DEFINE n == Len(s)
  <2>1. n \in Int /\ 1 \in Int /\ n >= 0
    BY <1>3
  <2>. HIDE DEF n
  <2>2. Cardinality(1 .. n) = IF 1 > n THEN 0 ELSE n - 1 + 1
    BY <2>1, FS_Interval
  <2>3. Cardinality(1 .. n) = n
    BY <2>1, <2>2
  <2>. QED
    BY <2>3 DEF n
<1>5. Cardinality(Addresses) \in Nat
  BY GuardianAssumption, FS_CardinalityType
<1>. QED
  BY <1>2, <1>3, <1>4, <1>5 DEF Ids

\* Ids of the list s: what TypeOK says of guardianIds.
LEMMA IdsOK ==
  ASSUME NEW s \in GuardianSets, NEW a \in Addresses
  PROVE  /\ IdsOf(s)[a] = IF \E i \in DOMAIN s : s[i] = a
                            THEN CHOOSE i \in DOMAIN s : s[i] = a ELSE 0
         /\ IdsOf(s)[a] # 0 => /\ IdsOf(s)[a] \in DOMAIN s /\ IdsOf(s)[a] \in Ids
                               /\ s[IdsOf(s)[a]] = a
<1>1. s \in Seq(Addresses) /\ IsInjective(s)
  BY SetsAreInjective
<1>2. CASE \E i \in DOMAIN s : s[i] = a
  <2>. DEFINE i == CHOOSE i \in DOMAIN s : s[i] = a
  <2>1. i \in DOMAIN s /\ s[i] = a
    BY <1>2
  <2>. HIDE DEF i
  <2>2. IdsOf(s)[a] = i /\ i \in Ids
    BY <1>1, <2>1, IdIsPlace, PlacesAreIds
  <2>. QED
    BY <1>2, <2>1, <2>2 DEF i
<1>3. CASE \A i \in DOMAIN s : s[i] # a
  BY <1>1, <1>3, IdIsPlace
<1>. QED
  BY <1>2, <1>3

\* As many guardians approved as there are ids of guardians among the approvals.
LEMMA IdsAreGuardians ==
  ASSUME NEW s \in GuardianSets, NEW bits, NEW who, who \subseteq Addresses,
         \A i \in bits \cap DOMAIN s : s[i] \in who
  PROVE  /\ Cardinality(bits \cap DOMAIN s) <= Cardinality(who \cap Range(s))
         /\ Cardinality(bits \cap DOMAIN s) \in Nat
         /\ Cardinality(who \cap Range(s)) \in Nat
<1>. DEFINE S == bits \cap DOMAIN s
            T == who \cap Range(s)
            f == [i \in S |-> s[i]]
<1>1. IsInjective(s) /\ DOMAIN s = 1 .. Len(s) /\ Len(s) \in Nat
  BY SetsAreInjective
<1>2. f \in Injection(S, T)
  BY <1>1 DEF Injection, IsInjective, Range
<1>3. IsFiniteSet(DOMAIN s)
  BY <1>1, FS_Interval
<1>4. IsFiniteSet(S)
  BY <1>3, FS_Subset
<1>5. IsFiniteSet(T)
  <2>1. T \subseteq Addresses
    OBVIOUS
  <2>. HIDE DEF T
  <2>. QED
    BY <2>1, GuardianAssumption, FS_Subset
<1>. HIDE DEF S, T, f
<1>6. Cardinality(S) <= Cardinality(T) /\ Cardinality(S) \in Nat /\ Cardinality(T) \in Nat
  BY <1>2, <1>4, <1>5, FS_Injection, FS_CardinalityType
<1>. QED
  BY <1>6 DEF S, T

----------------------------------------------------------------------------------
(* Types *)

\* Init is the contract after its first setGuardians.
LEMMA InitType ==
  ASSUME Init
  PROVE  TypeOK
<1>1. guardians \in GuardianSets /\ guardianIds = IdsOf(guardians)
  BY DEF Init
<1>2. \A a \in Addresses :
        guardianIds[a] = IF \E i \in DOMAIN guardians : guardians[i] = a
                         THEN CHOOSE i \in DOMAIN guardians : guardians[i] = a ELSE 0
  BY <1>1, IdsOK
<1>3. 0 \in 0 .. MaxDisruptions
  BY GuardianAssumption
<1>. QED
  BY <1>1, <1>2, <1>3 DEF Init, TypeOK, NoApprovals, NoLatest

\* What Approve leaves of the types.
LEMMA ApproveKeepsType ==
  ASSUME TypeOK, guardianIds = IdsOf(guardians), NEW caller \in Addresses, NEW proof \in Proofs,
         Approve(caller, proof), disruptions' \in 0 .. MaxDisruptions
  PROVE  TypeOK'
<1>1. BlockOf(proof) \in Blocks /\ NoProof \notin Proofs
  BY GuardianAssumption
<1>2. UNCHANGED <<guardians, guardianIds, minGuardians, provingAutoPauseEnabled, paused, watchdog>>
  BY DEF Approve, PauseOnConflict, SaveApproval, ProveBlock, taikoVars
<1>3. CASE PauseOnConflict(caller, proof)
  BY <1>1, <1>3 DEF PauseOnConflict, LatestProof, TypeOK
<1>4. CASE SaveApproval(caller, proof)
  <2>1. guardianIds[caller] \in Ids
    BY <1>4, IdsOK DEF SaveApproval, TypeOK
  <2>2. WithApproval(caller, proof) \in SUBSET Ids
    BY <2>1 DEF WithApproval, TypeOK
  <2>3. approvals' \in [Proofs -> SUBSET Ids]
    BY <1>4, <2>2 DEF SaveApproval, TypeOK
  <2>. QED
    BY <1>1, <1>2, <1>4, <2>3 DEF SaveApproval, LatestProof, TypeOK, taikoVars
<1>5. CASE ProveBlock(caller, proof)
  BY <1>1, <1>5 DEF ProveBlock, TypeOK
<1>. QED
  BY <1>3, <1>4, <1>5 DEF Approve

\* guardianIds stays the inverse of the list of guardians.
LEMMA StepKeepsType ==
  ASSUME TypeOK, guardianIds = IdsOf(guardians), [Next]_vars
  PROVE  TypeOK' /\ guardianIds' = IdsOf(guardians)'
<1>0. disruptions' \in 0 .. MaxDisruptions
  <2>1. ASSUME Disrupt PROVE disruptions' \in 0 .. MaxDisruptions
    BY <2>1, GuardianAssumption DEF Disrupt, TypeOK
  <2>2. Disrupt \/ disruptions' = disruptions
    BY DEF Next, setGuardians, enableProvingAutoPause, Pause, Unpause, UnpauseProving,
           pauseTaikoProving, ApproveRight, ApproveAny, vars
  <2>. QED
    BY <2>1, <2>2 DEF TypeOK
<1>1. ASSUME NEW set \in GuardianSets, NEW min \in Ids, NEW clearData \in BOOLEAN,
             setGuardians(set, min, clearData)
      PROVE  TypeOK' /\ guardianIds' = IdsOf(guardians)'
  <2>1. guardians' = set /\ guardianIds' = IdsOf(set) /\ minGuardians' \in DOMAIN set
    BY <1>1, SetsAreInjective DEF setGuardians, ReplaceIds
  <2>2. \A a \in Addresses :
          guardianIds'[a] = IF \E i \in DOMAIN guardians' : guardians'[i] = a
                            THEN CHOOSE i \in DOMAIN guardians' : guardians'[i] = a ELSE 0
    BY <2>1, IdsOK
  <2>3. approvals' \in [Proofs -> SUBSET Ids] /\ latestProofHash' \in [Blocks -> Proofs \cup {NoProof}]
    BY <1>1 DEF setGuardians, TypeOK, NoApprovals, NoLatest
  <2>4. UNCHANGED <<provingAutoPauseEnabled, paused, watchdog, provingPaused, proven>>
    BY <1>1 DEF setGuardians, taikoVars
  <2>. QED
    BY <1>0, <2>1, <2>2, <2>3, <2>4 DEF TypeOK
<1>2. ASSUME NEW enable \in BOOLEAN, enableProvingAutoPause(enable)
      PROVE  TypeOK' /\ guardianIds' = IdsOf(guardians)'
  BY <1>0, <1>2 DEF enableProvingAutoPause, TypeOK, taikoVars
<1>3. ASSUME Pause \/ Unpause
      PROVE  TypeOK' /\ guardianIds' = IdsOf(guardians)'
  <2>1. /\ UNCHANGED <<guardians, guardianIds, minGuardians, approvals, latestProofHash>>
        /\ UNCHANGED <<provingAutoPauseEnabled, watchdog, provingPaused, proven>>
        /\ paused' \in BOOLEAN
    BY <1>3 DEF Pause, Unpause, taikoVars
  <2>. QED
    BY <1>0, <2>1 DEF TypeOK
<1>4. ASSUME UnpauseProving
      PROVE  TypeOK' /\ guardianIds' = IdsOf(guardians)'
  BY <1>0, <1>4 DEF UnpauseProving, TypeOK, contractVars
<1>5. ASSUME NEW a \in Addresses, pauseTaikoProving(a)
      PROVE  TypeOK' /\ guardianIds' = IdsOf(guardians)'
  BY <1>0, <1>5 DEF pauseTaikoProving, TypeOK, contractVars
<1>6. ASSUME NEW a \in Addresses, NEW proof \in Proofs, Approve(a, proof)
      PROVE  TypeOK' /\ guardianIds' = IdsOf(guardians)'
  <2>1. TypeOK'
    BY <1>0, <1>6, ApproveKeepsType
  <2>2. UNCHANGED <<guardians, guardianIds>>
    BY <1>6 DEF Approve, PauseOnConflict, SaveApproval, ProveBlock
  <2>. QED
    BY <2>1, <2>2
<1>7. ASSUME NEW a \in Addresses, ApproveRight(a)
      PROVE  \E proof \in Proofs : Approve(a, proof)
  BY <1>7, GuardianAssumption DEF ApproveRight
<1>8. CASE UNCHANGED vars
  BY <1>8 DEF vars, contractVars, taikoVars, TypeOK
<1>. QED
  BY <1>1, <1>2, <1>3, <1>4, <1>5, <1>6, <1>7, <1>8 DEF Next, ApproveAny

----------------------------------------------------------------------------------
(* Approvals *)

\* The approval that makes up the minimum is one of as many guardians.
LEMMA ApprovedIsBacked ==
  ASSUME TypeOK, ApprovalsOK, cleared, NEW caller \in Addresses, NEW proof \in Proofs,
         guardianIds[caller] # 0, IsApproved(WithApproval(caller, proof))
  PROVE  Cardinality((approvers[proof] \cup {caller}) \cap Range(guardians)) >= minGuardians
<1>. DEFINE bits == WithApproval(caller, proof)
            who == approvers[proof] \cup {caller}
<1>1. guardians \in GuardianSets /\ guardians[guardianIds[caller]] = caller
  BY IdsOK DEF TypeOK, ApprovalsOK
<1>2. \A i \in bits \cap DOMAIN guardians : guardians[i] \in who
  BY <1>1 DEF ApprovalsOK, WithApproval
<1>3. who \subseteq Addresses
  BY DEF ApprovalsOK
<1>. HIDE DEF bits, who
<1>4. /\ Cardinality(bits \cap DOMAIN guardians) <= Cardinality(who \cap Range(guardians))
      /\ Cardinality(bits \cap DOMAIN guardians) \in Nat
      /\ Cardinality(who \cap Range(guardians)) \in Nat
  BY <1>1, <1>2, <1>3, IdsAreGuardians
<1>5. Cardinality(bits \cap DOMAIN guardians) >= minGuardians
  BY DEF bits, IsApproved
<1>6. minGuardians \in Int
  BY <1>1, SetsAreInjective DEF TypeOK
<1>. QED
  BY <1>4, <1>5, <1>6 DEF who

\* approve: the bit it sets is the caller's, the first hash of a block is stored, and
\* every other is warned of.
LEMMA ApproveKeepsInv ==
  ASSUME IInv, NEW caller \in Addresses, NEW proof \in Proofs, Approve(caller, proof)
  PROVE  ApprovalsOK' /\ LatestOK' /\ NoSilentConflict' /\ ProofBacked'
<1>0. /\ BlockOf(proof) \in Blocks /\ proof # NoProof
      /\ \A p \in Proofs : p # NoProof /\ BlockOf(p) \in Blocks
  BY GuardianAssumption
<1>1. /\ guardians \in GuardianSets /\ approvals \in [Proofs -> SUBSET Ids]
      /\ latestProofHash \in [Blocks -> Proofs \cup {NoProof}]
      /\ proven \in [Blocks -> Proofs \cup {NoProof}] /\ guardianIds = IdsOf(guardians)
      /\ approvers \in [Proofs -> SUBSET Addresses] /\ cleared \in BOOLEAN
  BY DEF IInv, TypeOK, ApprovalsOK
<1>2. \A q \in Proofs : q # proof => {proof, q} \in Rivals(proof)
  BY DEF Rivals
<1>3. CASE PauseOnConflict(caller, proof)
  <2>1. /\ latestProofHash' = [latestProofHash EXCEPT ![BlockOf(proof)] = proof]
        /\ warned' = warned \cup Rivals(proof)
        /\ UNCHANGED <<guardians, guardianIds, approvals, proven, approvers, cleared, last>>
    BY <1>3 DEF PauseOnConflict, LatestProof
  <2>2. LatestOK'
    BY <1>0, <1>1, <1>2, <2>1 DEF IInv, LatestOK
  <2>3. NoSilentConflict'
    BY <2>1 DEF IInv, NoSilentConflict
  <2>. QED
    BY <2>1, <2>2, <2>3 DEF IInv, ApprovalsOK, ProofBacked
<1>4. CASE SaveApproval(caller, proof)
  <2>. DEFINE b == BlockOf(proof)
  <2>1. /\ latestProofHash' = [latestProofHash EXCEPT ![b] = proof]
        /\ approvals' = [approvals EXCEPT ![proof] = WithApproval(caller, proof)]
        /\ approvers' = [approvers EXCEPT ![proof] = @ \cup {caller}]
        /\ warned' = IF Watching THEN warned ELSE warned \cup Rivals(proof)
        /\ guardianIds[caller] # 0
        /\ ~PausesProving(proof)
        /\ UNCHANGED <<guardians, guardianIds, proven, cleared, last>>
    BY <1>4 DEF SaveApproval, LatestProof, taikoVars
  <2>2. guardians[guardianIds[caller]] = caller
    BY <1>1, <2>1, IdsOK
  <2>3. ApprovalsOK'
    <3>1. approvers' \in [Proofs -> SUBSET Addresses]
      BY <1>1, <2>1
    <3>2. ASSUME cleared, NEW p \in Proofs, NEW i \in approvals'[p] \cap DOMAIN guardians
          PROVE  guardians[i] \in approvers'[p]
      BY <1>1, <2>1, <2>2, <3>2 DEF IInv, ApprovalsOK, WithApproval
    <3>. QED
      BY <1>1, <2>1, <3>1, <3>2 DEF ApprovalsOK
  <2>4. ASSUME proven[b] = NoProof, NEW q \in Proofs, BlockOf(q) = b, q # proof, approvals[q] # {}
        PROVE  {proof, q} \in warned'
    <3>1. CASE Watching
      <4>1. ~Conflicting(proof)
        BY <2>1, <3>1 DEF PausesProving, Watching
      <4>2. latestProofHash[b] # NoProof
        BY <1>0, <2>4 DEF IInv, LatestOK
      <4>3. latestProofHash[b] = proof
        BY <4>1, <4>2 DEF Conflicting, CurrProofHash
      <4>. QED
        BY <1>0, <2>1, <2>4, <3>1, <4>3 DEF IInv, LatestOK
    <3>2. CASE ~Watching
      BY <1>2, <2>1, <2>4, <3>2
    <3>. QED
      BY <3>1, <3>2
  <2>5. LatestOK'
    <3>. SUFFICES ASSUME NEW c \in Blocks, proven[c] = NoProof, NEW q \in Proofs, BlockOf(q) = c,
                         approvals'[q] # {}
                  PROVE  /\ latestProofHash'[c] # NoProof
                         /\ q # latestProofHash'[c] => {latestProofHash'[c], q} \in warned'
      BY <2>1 DEF LatestOK
    <3>1. CASE c = b
      BY <1>0, <1>1, <2>1, <2>4, <3>1
    <3>2. CASE c # b
      <4>1. latestProofHash'[c] = latestProofHash[c] /\ approvals'[q] = approvals[q]
        BY <1>1, <2>1, <3>2
      <4>. QED
        BY <2>1, <4>1 DEF IInv, LatestOK
    <3>. QED
      BY <3>1, <3>2
  <2>6. NoSilentConflict'
    <3>. SUFFICES ASSUME NEW p \in Proofs, NEW q \in Proofs, p # q, BlockOf(p) = BlockOf(q),
                         proven[BlockOf(p)] = NoProof, approvals'[p] # {}, approvals'[q] # {}
                  PROVE  {p, q} \in warned'
      BY <2>1 DEF NoSilentConflict
    <3>1. CASE p = proof
      <4>1. approvals[q] # {}
        BY <1>1, <2>1, <3>1
      <4>. QED
        BY <2>4, <3>1, <4>1
    <3>2. CASE q = proof
      <4>1. approvals[p] # {}
        BY <1>1, <2>1, <3>2
      <4>2. {q, p} \in warned'
        BY <2>4, <3>2, <4>1
      <4>3. {q, p} = {p, q}
        OBVIOUS
      <4>. QED
        BY <4>2, <4>3
    <3>3. CASE p # proof /\ q # proof
      BY <1>1, <2>1, <3>3 DEF IInv, NoSilentConflict
    <3>. QED
      BY <3>1, <3>2, <3>3
  <2>. QED
    BY <2>1, <2>3, <2>5, <2>6 DEF IInv, ProofBacked
<1>5. CASE ProveBlock(caller, proof)
  <2>. DEFINE b == BlockOf(proof)
  <2>1. /\ latestProofHash' = [latestProofHash EXCEPT ![b] = NoProof]
        /\ approvals' = [approvals EXCEPT ![proof] = {}]
        /\ proven' = [proven EXCEPT ![b] = proof]
        /\ approvers' = [approvers EXCEPT ![proof] = {}]
        /\ last' = [proof |-> proof, by |-> (approvers[proof] \cup {caller}) \cap Range(guardians),
                    needed |-> minGuardians, cleared |-> cleared]
        /\ guardianIds[caller] # 0 /\ IsApproved(WithApproval(caller, proof))
        /\ UNCHANGED <<guardians, guardianIds, warned, cleared>>
    BY <1>5 DEF ProveBlock
  <2>2. ApprovalsOK'
    BY <1>1, <2>1 DEF IInv, ApprovalsOK
  <2>3. LatestOK'
    <3>. SUFFICES ASSUME NEW c \in Blocks, proven'[c] = NoProof, NEW q \in Proofs, BlockOf(q) = c,
                         approvals'[q] # {}
                  PROVE  /\ latestProofHash'[c] # NoProof
                         /\ q # latestProofHash'[c] => {latestProofHash'[c], q} \in warned'
      BY DEF LatestOK
    <3>1. c # b
      BY <1>0, <1>1, <2>1
    <3>2. /\ latestProofHash'[c] = latestProofHash[c] /\ approvals'[q] = approvals[q]
          /\ proven'[c] = proven[c]
      BY <1>1, <2>1, <3>1
    <3>. QED
      BY <2>1, <3>2 DEF IInv, LatestOK
  <2>4. NoSilentConflict'
    <3>. SUFFICES ASSUME NEW p \in Proofs, NEW q \in Proofs, p # q, BlockOf(p) = BlockOf(q),
                         proven'[BlockOf(p)] = NoProof, approvals'[p] # {}, approvals'[q] # {}
                  PROVE  {p, q} \in warned'
      BY DEF NoSilentConflict
    <3>1. p # proof /\ q # proof /\ BlockOf(p) # b
      BY <1>0, <1>1, <2>1
    <3>. QED
      BY <1>0, <1>1, <2>1, <3>1 DEF IInv, NoSilentConflict
  <2>5. ProofBacked'
    BY <2>1, ApprovedIsBacked DEF IInv, ProofBacked
  <2>. QED
    BY <2>2, <2>3, <2>4, <2>5
<1>. QED
  BY <1>3, <1>4, <1>5 DEF Approve

\* approve is the only step that writes an approval; the others keep all of them.
LEMMA StepKeepsInv ==
  ASSUME IInv, [Next]_vars
  PROVE  IInv'
<1>1. TypeOK'
  BY StepKeepsType DEF IInv, ApprovalsOK
<1>2. guardianIds' = IdsOf(guardians)'
  BY StepKeepsType DEF IInv, ApprovalsOK
<1>3. ASSUME NEW set \in GuardianSets, NEW min \in Ids, NEW clearData \in BOOLEAN,
             setGuardians(set, min, clearData)
      PROVE  ApprovalsOK' /\ LatestOK' /\ NoSilentConflict' /\ ProofBacked'
  <2>0. UNCHANGED <<proven, last>>
    BY <1>3 DEF setGuardians, taikoVars
  <2>1. CASE clearData
    <3>1. /\ approvals' = [p \in Proofs |-> {}] /\ approvers' = [p \in Proofs |-> {}]
          /\ cleared' = TRUE
      BY <1>3, <2>1 DEF setGuardians, NewVersion, NoApprovals
    <3>. QED
      BY <1>2, <2>0, <3>1 DEF IInv, ApprovalsOK, LatestOK, NoSilentConflict, ProofBacked
  <2>2. CASE ~clearData
    <3>1. cleared' = FALSE /\ UNCHANGED <<approvals, latestProofHash, approvers, warned>>
      BY <1>3, <2>2 DEF setGuardians, NewVersion
    <3>. QED
      BY <1>2, <2>0, <3>1 DEF IInv, ApprovalsOK, LatestOK, NoSilentConflict, ProofBacked
  <2>. QED
    BY <2>1, <2>2
<1>4. ASSUME UNCHANGED <<guardians, guardianIds, approvals, latestProofHash, proven, approvers,
                         warned, cleared, last>>
      PROVE  ApprovalsOK' /\ LatestOK' /\ NoSilentConflict' /\ ProofBacked'
  BY <1>4 DEF IInv, ApprovalsOK, LatestOK, NoSilentConflict, ProofBacked
<1>5. ASSUME NEW a \in Addresses, NEW proof \in Proofs, Approve(a, proof)
      PROVE  ApprovalsOK' /\ LatestOK' /\ NoSilentConflict' /\ ProofBacked'
  BY <1>5, ApproveKeepsInv
<1>6. ASSUME NEW a \in Addresses, ApproveRight(a)
      PROVE  \E proof \in Proofs : Approve(a, proof)
  BY <1>6, GuardianAssumption DEF ApproveRight
<1>7. ASSUME NEW enable \in BOOLEAN, enableProvingAutoPause(enable)
      PROVE  ApprovalsOK' /\ LatestOK' /\ NoSilentConflict' /\ ProofBacked'
  BY <1>4, <1>7 DEF enableProvingAutoPause, taikoVars, historyVars
<1>8. ASSUME Pause \/ Unpause \/ UnpauseProving
      PROVE  ApprovalsOK' /\ LatestOK' /\ NoSilentConflict' /\ ProofBacked'
  BY <1>4, <1>8 DEF Pause, Unpause, UnpauseProving, taikoVars, historyVars, contractVars
<1>9. ASSUME NEW a \in Addresses, pauseTaikoProving(a)
      PROVE  ApprovalsOK' /\ LatestOK' /\ NoSilentConflict' /\ ProofBacked'
  BY <1>4, <1>9 DEF pauseTaikoProving, historyVars, contractVars
<1>10. ASSUME UNCHANGED vars
       PROVE  ApprovalsOK' /\ LatestOK' /\ NoSilentConflict' /\ ProofBacked'
  BY <1>4, <1>10 DEF vars, contractVars, taikoVars, historyVars
<1>11. ApprovalsOK' /\ LatestOK' /\ NoSilentConflict' /\ ProofBacked'
  <2>1. CASE UNCHANGED vars
    BY <1>10, <2>1
  <2>2. CASE Next
    <3>1. CASE \E a \in Addresses : ApproveRight(a)
      BY <1>5, <1>6, <3>1
    <3>2. CASE \E a \in Addresses, proof \in Proofs : Approve(a, proof)
      BY <1>5, <3>2
    <3>. QED
      BY <1>3, <1>7, <1>8, <1>9, <2>2, <3>1, <3>2 DEF Next, ApproveAny
  <2>. QED
    BY <2>1, <2>2
<1>. QED
  BY <1>1, <1>11 DEF IInv

\* The inductive invariant in every reachable state.
LEMMA Invariant == Spec => []IInv
<1>1. Init => IInv
  <2>. SUFFICES ASSUME Init PROVE IInv
    OBVIOUS
  <2>1. TypeOK
    BY InitType
  <2>2. ApprovalsOK /\ LatestOK /\ NoSilentConflict
    BY DEF Init, ApprovalsOK, LatestOK, NoSilentConflict, NoApprovals
  <2>3. ProofBacked
    BY FS_EmptySet DEF Init, ProofBacked, NoneYet
  <2>. QED
    BY <2>1, <2>2, <2>3 DEF IInv
<1>2. IInv /\ [Next]_vars => IInv'
  BY StepKeepsInv
<1>. QED
  BY <1>1, <1>2, PTL DEF Spec

----------------------------------------------------------------------------------
(* Theorems *)

\* The ids are always those of the current guardians, whatever sets replaced which.
THEOREM GuardianTypeCorrect == Spec => []TypeOK
<1>1. IInv => TypeOK
  BY DEF IInv
<1>. QED
  BY <1>1, Invariant, PTL

\* TaikoL1 gets a proof on the approval of the minimum of different guardians, all of
\* them guardians at that time, unless a set took over the approvals of another
\* (_approve, isApproved).
THEOREM ProofsAreBacked == Spec => []ProofBacked
<1>1. IInv => ProofBacked
  BY DEF IInv
<1>. QED
  BY <1>1, Invariant, PTL

\* While conflicts pause proving, two proofs of a block have approvals next to each
\* other only after a pause (latestProofHash).
THEOREM ConflictsAreNoticed == Spec => []NoSilentConflict
<1>1. IInv => NoSilentConflict
  BY DEF IInv
<1>. QED
  BY <1>1, Invariant, PTL

==================================================================================
