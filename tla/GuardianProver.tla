---------------------------- MODULE GuardianProver -----------------------------
(***************************************************************************)
(* The GuardianProver contract: guardians approve proofs, and the approval *)
(* that makes up the minimum proves the block in TaikoL1.  TaikoL1 is what *)
(* the contract uses of it: pauseProving and proveBlock.                   *)
(***************************************************************************)
EXTENDS Integers, Sequences, FiniteSets, SequencesExt

CONSTANTS
  Addresses,       \* accounts, guardians or not
  GuardianSets,    \* sets of guardians, as lists, that the owner sets
  Blocks,
  Proofs,          \* proof hashes: a block's metadata, transition and proof data
  BlockOf(_),      \* the block of a proof
  RightProof(_),   \* the proof of a block that the guardians' nodes agree on
  MaxDisruptions   \* bound: what is done beside approving the right proof

NoProof == "no proof"  \* a proof hash is never 0

ASSUME GuardianAssumption ==
  /\ GuardianSets # {}
  /\ \A s \in GuardianSets : s \in Seq(Addresses) /\ s # <<>> /\ IsInjective(s)
  /\ \A p \in Proofs : BlockOf(p) \in Blocks
  /\ \A b \in Blocks : RightProof(b) \in Proofs /\ BlockOf(RightProof(b)) = b
  /\ NoProof \notin Proofs
  /\ IsFiniteSet(Addresses) /\ MaxDisruptions \in Nat

VARIABLES
  guardians, guardianIds, minGuardians,
  approvals,        \* of the current version: the ids that approved, per proof
  latestProofHash,  \* of the current version, per block
  provingAutoPauseEnabled,
  paused,           \* EssentialContract.__paused
  watchdog,         \* whether this contract is TaikoL1's chain_watchdog, never changed
  provingPaused,    \* TaikoL1: provingPaused
  proven,           \* TaikoL1: the proof of each block's transition
  disruptions,      \* how many of MaxDisruptions happened
  approvers,        \* history: who approved a proof since its approvals were deleted
  warned,           \* history: pairs of proofs, one of which was approved unwatched or paused
  cleared,          \* history: no set of guardians took over approvals of another
  last              \* history: the last proof given to TaikoL1, and on whose approval

contractVars == <<guardians, guardianIds, minGuardians, approvals, latestProofHash,
                  provingAutoPauseEnabled, paused>>
taikoVars == <<watchdog, provingPaused, proven>>
historyVars == <<approvers, warned, cleared, last>>
vars == <<contractVars, taikoVars, disruptions, historyVars>>

Ids == 1..Cardinality(Addresses)
NoneYet == [proof |-> NoProof, by |-> {}, needed |-> 0, cleared |-> TRUE]

\* The ids are those of the current guardians and of nobody else.
TypeOK ==
  /\ guardians \in GuardianSets
  /\ \A a \in Addresses :
       guardianIds[a] = IF \E i \in DOMAIN guardians : guardians[i] = a
                        THEN CHOOSE i \in DOMAIN guardians : guardians[i] = a ELSE 0
  /\ minGuardians \in DOMAIN guardians
  /\ approvals \in [Proofs -> SUBSET Ids]
  /\ latestProofHash \in [Blocks -> Proofs \cup {NoProof}]
  /\ provingAutoPauseEnabled \in BOOLEAN /\ paused \in BOOLEAN
  /\ watchdog \in BOOLEAN /\ provingPaused \in BOOLEAN
  /\ proven \in [Blocks -> Proofs \cup {NoProof}]
  /\ disruptions \in 0..MaxDisruptions

NoApprovals == [p \in Proofs |-> {}]
NoLatest == [b \in Blocks |-> NoProof]
IdsOf(set) == [a \in Addresses |-> SelectInSeq(set, LAMBDA g : g = a)]

Init ==
  /\ guardians \in GuardianSets /\ guardianIds = IdsOf(guardians)
  /\ minGuardians \in DOMAIN guardians
  /\ approvals = NoApprovals /\ latestProofHash = NoLatest
  /\ provingAutoPauseEnabled \in BOOLEAN /\ paused = FALSE
  /\ watchdog \in BOOLEAN /\ provingPaused = FALSE
  /\ proven = [b \in Blocks |-> NoProof]
  /\ disruptions = 0
  /\ approvers = NoApprovals /\ warned = {} /\ cleared = TRUE /\ last = NoneYet

--------------------------------------------------------------------------------
(* The owner *)

Disrupt == disruptions < MaxDisruptions /\ disruptions' = disruptions + 1

\* Without clearData, the approvals of a version count for whoever has the ids now.
ReplaceIds_KeepsOld(set) == \* mutation: the ids of the old guardians stay
  [a \in Addresses |-> IF IdsOf(set)[a] = 0 THEN guardianIds[a] ELSE IdsOf(set)[a]]
ReplaceIds(set) == IdsOf(set)
NewVersion_OnlyForNewSet(clearData, set) == \* mutation: a set in use keeps its version
  clearData /\ Range(set) # Range(guardians)
NewVersion(clearData, set) == clearData

setGuardians(newGuardians, newMin, clearData) ==
  /\ Disrupt
  /\ newMin \in 1..Len(newGuardians)
  /\ guardians' = newGuardians /\ guardianIds' = ReplaceIds(newGuardians)
  /\ minGuardians' = newMin
  /\ IF NewVersion(clearData, newGuardians)
     THEN approvals' = NoApprovals /\ latestProofHash' = NoLatest
     ELSE UNCHANGED <<approvals, latestProofHash>>
  /\ IF clearData
     THEN approvers' = NoApprovals /\ warned' = {} /\ cleared' = TRUE
     ELSE cleared' = FALSE /\ UNCHANGED <<approvers, warned>>
  /\ UNCHANGED <<provingAutoPauseEnabled, paused, taikoVars, last>>

enableProvingAutoPause(enable) ==
  /\ Disrupt
  /\ provingAutoPauseEnabled # enable
  /\ provingAutoPauseEnabled' = enable
  /\ UNCHANGED <<guardians, guardianIds, minGuardians, approvals, latestProofHash, paused,
                 taikoVars, historyVars>>

Pause ==
  /\ Disrupt /\ ~paused /\ paused' = TRUE
  /\ UNCHANGED <<guardians, guardianIds, minGuardians, approvals, latestProofHash,
                 provingAutoPauseEnabled, taikoVars, historyVars>>

Unpause ==
  /\ paused /\ paused' = FALSE
  /\ UNCHANGED <<guardians, guardianIds, minGuardians, approvals, latestProofHash,
                 provingAutoPauseEnabled, taikoVars, disruptions, historyVars>>

--------------------------------------------------------------------------------
(* TaikoL1 *)

CanPauseProving == ~provingPaused
CanProve(proof) == ~provingPaused /\ proven[BlockOf(proof)] # proof

UnpauseProving ==
  /\ provingPaused /\ provingPaused' = FALSE
  /\ UNCHANGED <<contractVars, watchdog, proven, disruptions, historyVars>>

pauseTaikoProving(guardian) ==
  /\ Disrupt
  /\ ~paused /\ guardianIds[guardian] # 0 /\ watchdog
  /\ CanPauseProving /\ provingPaused' = TRUE
  /\ UNCHANGED <<contractVars, watchdog, proven, historyVars>>

--------------------------------------------------------------------------------
(* _approve *)

\* What the contract compares a proof with: itself, if it is the block's first.
CurrProofHash(proof) ==
  IF latestProofHash[BlockOf(proof)] = NoProof THEN proof ELSE latestProofHash[BlockOf(proof)]
Conflicting(proof) == CurrProofHash(proof) # proof
PausesProving(proof) == Conflicting(proof) /\ provingAutoPauseEnabled /\ watchdog

LatestProof_OnlyConflicts(proof) == \* mutation: the first proof is not recorded
  IF Conflicting(proof) THEN [latestProofHash EXCEPT ![BlockOf(proof)] = proof]
  ELSE latestProofHash
LatestProof_First(proof) == \* mutation: a conflicting proof does not replace the first
  [latestProofHash EXCEPT ![BlockOf(proof)] = CurrProofHash(proof)]
LatestProof(proof) == [latestProofHash EXCEPT ![BlockOf(proof)] = proof]

\* The approvals with that of the caller; only ids of the current list count.
WithApproval(caller, proof) == approvals[proof] \cup {guardianIds[caller]}
IsApproved(approvalBits) == Cardinality(approvalBits \cap DOMAIN guardians) >= minGuardians

Watching == provingAutoPauseEnabled /\ watchdog
Rivals(proof) == {{proof, other} : other \in Proofs \ {proof}}

\* A conflict pauses proving instead of saving the approval.
PauseOnConflict(caller, proof) ==
  /\ ~paused
  /\ PausesProving(proof)
  /\ CanPauseProving /\ provingPaused' = TRUE
  /\ latestProofHash' = LatestProof(proof)
  /\ warned' = warned \cup Rivals(proof)
  /\ UNCHANGED <<guardians, guardianIds, minGuardians, approvals, provingAutoPauseEnabled,
                 paused, watchdog, proven, approvers, cleared, last>>

SaveApproval(caller, proof) ==
  /\ ~paused
  /\ ~PausesProving(proof)
  /\ guardianIds[caller] # 0 /\ ~IsApproved(WithApproval(caller, proof))
  /\ latestProofHash' = LatestProof(proof)
  /\ approvals' = [approvals EXCEPT ![proof] = WithApproval(caller, proof)]
  /\ approvers' = [approvers EXCEPT ![proof] = @ \cup {caller}]
  /\ warned' = IF Watching THEN warned ELSE warned \cup Rivals(proof)
  /\ UNCHANGED <<guardians, guardianIds, minGuardians, provingAutoPauseEnabled, paused,
                 taikoVars, cleared, last>>

\* If TaikoL1 reverts, so does the approval.
ProveBlock(caller, proof) ==
  /\ ~paused
  /\ ~PausesProving(proof)
  /\ guardianIds[caller] # 0 /\ IsApproved(WithApproval(caller, proof))
  /\ CanProve(proof)
  /\ latestProofHash' = [latestProofHash EXCEPT ![BlockOf(proof)] = NoProof]
  /\ approvals' = [approvals EXCEPT ![proof] = {}]
  /\ proven' = [proven EXCEPT ![BlockOf(proof)] = proof]
  /\ approvers' = [approvers EXCEPT ![proof] = {}]
  /\ last' = [proof |-> proof, by |-> (approvers[proof] \cup {caller}) \cap Range(guardians),
              needed |-> minGuardians, cleared |-> cleared]
  /\ UNCHANGED <<guardians, guardianIds, minGuardians, provingAutoPauseEnabled, paused,
                 watchdog, provingPaused, warned, cleared>>

\* approve and approveV2
Approve(caller, proof) ==
  PauseOnConflict(caller, proof) \/ SaveApproval(caller, proof) \/ ProveBlock(caller, proof)

--------------------------------------------------------------------------------

\* A guardian's node approves the right proof until the block has it.
ApproveRight(guardian) ==
  /\ UNCHANGED disruptions
  /\ \E b \in Blocks : proven[b] # RightProof(b) /\ Approve(guardian, RightProof(b))

ApproveAny(caller, proof) == Disrupt /\ Approve(caller, proof)

Next ==
  \/ \E set \in GuardianSets, min \in Ids, clearData \in BOOLEAN :
       setGuardians(set, min, clearData)
  \/ \E enable \in BOOLEAN : enableProvingAutoPause(enable)
  \/ Pause \/ Unpause \/ UnpauseProving
  \/ \E a \in Addresses : pauseTaikoProving(a) \/ ApproveRight(a)
  \/ \E a \in Addresses, proof \in Proofs : ApproveAny(a, proof)

Spec == Init /\ [][Next]_vars

\* The owner ends pauses, and every guardian's node goes on.
FairSpec ==
  /\ Spec
  /\ WF_vars(Unpause) /\ WF_vars(UnpauseProving)
  /\ \A a \in Addresses : WF_vars(guardianIds[a] # 0 /\ ApproveRight(a))

--------------------------------------------------------------------------------
(* Properties *)

\* Unless a set of guardians took over another's approvals, each proof given to
\* TaikoL1 was approved by the minimum of different guardians, all of them still
\* guardians: approvals of earlier sets and of earlier proofs of the block do
\* not count (approvals, version).
ProofBacked == last.cleared => Cardinality(last.by) >= last.needed

\* While conflicts pause proving, two proofs of a block that is not proven do not
\* collect approvals next to each other without a pause (latestProofHash).
NoSilentConflict ==
  \A p, q \in Proofs :
    /\ p # q /\ BlockOf(p) = BlockOf(q) /\ proven[BlockOf(p)] = NoProof
    /\ approvals[p] # {} /\ approvals[q] # {}
    => {p, q} \in warned

\* Conflicting proofs, pauses and new sets of guardians delay a block's proof, and
\* do not prevent it.
EventuallyProven == \A b \in Blocks : <>[](proven[b] = RightProof(b))
================================================================================
