-------------------------------- MODULE Driver ---------------------------------
(***************************************************************************)
(* The driver: it reads the proposals of the L1 chain from its cursor on,  *)
(* and inserts the L2 block of each into the execution engine.  One        *)
(* goroutine syncs; the state's event loop follows the heads of both chains *)
(* next to it, and the tracker watches the engine's beacon sync.           *)
(***************************************************************************)
EXTENDS L2Engine

CONSTANTS
  GapToResync,         \* gapToResync
  MaxRetrieveExponent, \* MaxExponent
  MaxFaults            \* bound: crashes of the driver

ASSUME DriverAssumption ==
  /\ \A s \in Setups : s.p2pSync \in BOOLEAN /\ s.fullSync \in BOOLEAN
  /\ GapToResync \in Nat \ {0}
  /\ MaxRetrieveExponent \in Nat /\ MaxFaults \in Nat

P2PSync == setup.p2pSync    \* the flag of that name
FullSync == setup.fullSync  \* SyncMode of the engine: full, or snap

VARIABLES
  l1Current,      \* L1 block up to which proposals were handled
  l1Head, l2Head, \* the heads as the event loop saw them last: a block, a number
  lastInserted,   \* lastInsertedBlockID, NoId for nil
  tracker,        \* the SyncProgressTracker
  pass,           \* where the syncing goroutine is
  faults          \* how many of MaxFaults happened

driverVars == <<l1Current, l1Head, l2Head, lastInserted, tracker, pass>>
vars == <<l1Vars, engineVars, driverVars, faults>>

\* at is the iterator's current height, events what it read and has not handled.
Passing(at, end, events) == [pc |-> "iter", at |-> at, end |-> end, events |-> events]
NotPassing(pc) == [Passing(0, NoHeader, <<>>) EXCEPT !.pc = pc]
Go(pc) == pass' = NotPassing(pc)
Event == [id : BlockIds, in : L1Block]

FreshTracker ==
  [triggered |-> FALSE, id |-> NoId, hash |-> <<>>, outOfSync |-> FALSE,
   progressed |-> FALSE, finished |-> FALSE]

TypeOK ==
  /\ L1TypeOK /\ EngineTypeOK
  /\ l1Current \in L1Block /\ l1Head \in L1Block /\ l2Head \in 0..MaxHeight
  /\ lastInserted \in 0..MaxHeight \cup {NoId}
  /\ tracker \in [triggered : BOOLEAN, id : 0..MaxHeight \cup {NoId}, hash : Seq(L1Block),
                  outOfSync : BOOLEAN, progressed : BOOLEAN, finished : BOOLEAN]
  /\ tracker.triggered <=> tracker.id # NoId
  /\ pass \in [pc : {"idle", "process", "iter", "events", "setHead", "panic"}, at : 0..MaxHeight,
               end : L1Block \cup {NoHeader}, events : Seq(Event)]
  /\ faults \in 0..MaxFaults

Init ==
  /\ L1Init /\ EngineInit
  /\ l1Current \in LatestL2KnownL1Header
  /\ l1Head = Last(chain) /\ l2Head = Len(canon)
  /\ lastInserted = NoId /\ tracker = FreshTracker
  /\ pass = NotPassing("idle") /\ faults = 0

--------------------------------------------------------------------------------
(* The state's event loop *)

UpdateL1Head ==
  /\ l1Head' = Last(chain)
  /\ UNCHANGED <<l1Vars, engineVars, l1Current, l2Head, lastInserted, tracker, pass, faults>>

UpdateL2Head ==
  /\ l2Head' = Len(canon)
  /\ UNCHANGED <<l1Vars, engineVars, l1Current, l1Head, lastInserted, tracker, pass, faults>>

--------------------------------------------------------------------------------
(* Beacon sync *)

AheadOfHeadToSync(id) ==
  /\ l2Head >= id - 1
  /\ tracker.id # NoId => l2Head >= tracker.id

\* The block to sync to: the last verified one, or the checkpoint node's head.
BlockIDToSync ==
  IF FullSync THEN LastVerified(chain) ELSE LastProposed(chain)

NeedNewBeaconSync ==
  /\ P2PSync /\ ~tracker.finished /\ BlockIDToSync > 0
  /\ ~AheadOfHeadToSync(BlockIDToSync) /\ ~tracker.outOfSync

NeedReSync(id) ==
  \/ ~tracker.triggered \/ tracker.id = NoId
  \/ id - tracker.id >= GapToResync
  \/ tracker.progressed /\ Len(canon) >= tracker.id

\* proposedIn of a block in the rollup contract, which is its anchor block.
ProposedIn(id) == IF id = 0 THEN GenesisHeight ELSE Proposed(chain)[id].h - 1

UpdateMeta(tr, hash) == [tr EXCEPT !.triggered = TRUE, !.id = Len(hash), !.hash = hash]
ClearMeta_KeepsId(tr) == \* mutation: the metadata stays
  [tr EXCEPT !.triggered = FALSE, !.outOfSync = FALSE]
ClearMeta(tr) == [tr EXCEPT !.triggered = FALSE, !.id = NoId, !.hash = <<>>, !.outOfSync = FALSE]

\* The engine starts to sync, or knows the parent and executes the block at once,
\* which the driver takes for a failure.
TriggerBeaconSync ==
  /\ pass.pc = "idle" /\ NeedNewBeaconSync /\ NeedReSync(BlockIDToSync)
  /\ LET hash == SubSeq(Proposed(chain), 1, BlockIDToSync)
     IN  IF IsPrefix(Front(hash), canon)
         THEN SetHead(hash) /\ UNCHANGED tracker
         ELSE StartBeaconSync(hash) /\ tracker' = UpdateMeta(tracker, hash)
  /\ UNCHANGED <<l1Vars, l1Current, l1Head, l2Head, lastInserted, pass, faults>>

\* One tick of track: the engine made progress, or it did not until the timeout.
Track ==
  /\ tracker.triggered /\ ~tracker.outOfSync
  /\ target # <<>> \/ Len(canon) < tracker.id
  /\ \/ target # <<>> /\ tracker' = [tracker EXCEPT !.progressed = TRUE]
     \/ tracker' = [tracker EXCEPT !.outOfSync = TRUE, !.progressed = target # <<>>]
  /\ UNCHANGED <<l1Vars, engineVars, l1Current, l1Head, l2Head, lastInserted, pass, faults>>

\* The first steps of Sync without a new beacon sync: after one, the cursor goes
\* back to the L1 block that proposed the engine's head.
Sync ==
  /\ pass.pc = "idle" /\ ~NeedNewBeaconSync
  /\ IF ~tracker.triggered
     THEN Go("process") /\ UNCHANGED <<l1Current, tracker>>
     ELSE IF Len(canon) > LastProposed(chain)
     THEN tracker' = [tracker EXCEPT !.finished = TRUE] /\ UNCHANGED <<l1Current, pass>>
     ELSE /\ l1Current' = chain[ProposedIn(Len(canon))]
          /\ tracker' = UpdateMeta([tracker EXCEPT !.finished = TRUE], canon)
          /\ Go("process")
  /\ UNCHANGED <<l1Vars, engineVars, l1Head, l2Head, lastInserted, faults>>

--------------------------------------------------------------------------------
(* The blob syncer *)

\* processL1Blocks up to its iterator: a cursor that the L1 head contradicts goes
\* to the block before the head.
processL1Blocks ==
  /\ pass.pc = "process"
  /\ LET behind == l1Current.h >= l1Head.h /\ l1Current # l1Head
         cur == IF behind THEN chain[l1Head.h - 1] ELSE l1Current
     IN  IF behind /\ l1Head.h - 1 > Len(chain)
         THEN Go("idle") /\ UNCHANGED <<l1Current, lastInserted>>
         ELSE /\ l1Current' = cur
              /\ lastInserted' = IF behind THEN NoId ELSE lastInserted
              /\ IF l1Head.h > Len(chain) THEN Go("idle")
                 ELSE pass' = Passing(cur.h, l1Head, <<>>)
  /\ UNCHANGED <<l1Vars, engineVars, l1Head, l2Head, tracker, faults>>

\* The events of the blocks from..to, as the chain has them now.
Events(last, end) == \* of the blocks after number last, up to number end
  [i \in 1..(end - last) |-> [id |-> last + i, in |-> Proposal(chain, last + i)]]
EventsBetween_Exclusive(from, to) == \* mutation: the block of the cursor counts as read
  Events(chain[from].proposed, chain[to].proposed)
EventsBetween(from, to) == Events(ProposedBefore(chain[from]), chain[to].proposed)

\* The iterator reads the events of its range at once.  It is done with it when its
\* height is the end's, and tries again while the chain is shorter.
FetchEvents ==
  /\ pass.pc = "iter" /\ pass.at < pass.end.h /\ pass.end.h <= Len(chain)
  /\ pass' = [pass EXCEPT !.pc = "events", !.events = EventsBetween(pass.at, pass.end.h)]
  /\ UNCHANGED <<l1Vars, engineVars, l1Current, l1Head, l2Head, lastInserted, tracker, faults>>

FinishPass ==
  /\ \/ pass.pc = "iter" /\ pass.at >= pass.end.h
     \/ pass.pc = "events" /\ pass.events = <<>>
  /\ l1Current' = pass.end /\ Go("idle")
  /\ UNCHANGED <<l1Vars, engineVars, l1Head, l2Head, lastInserted, tracker, faults>>

\* retrievePastBlock: the first of the blocks 0, 1, 3, 7... before the last verified
\* one on which engine and protocol agree.
PastBlock(id, retries) == IF 2 ^ retries \in 1..(id - 1) THEN id - 2 ^ retries + 1 ELSE 0
HasTransition(id) == \E i \in DOMAIN chain : chain[i].verified = id
Readable(id) == HasTransition(id) /\ id <= Len(canon)
Agreed(id) == HeaderByNumber(id) = SubSeq(Proposed(chain), 1, id)

retrievePastBlock(id) ==
  LET ends == {r \in 0..MaxRetrieveExponent :
                 ~Readable(PastBlock(id, r)) \/ Agreed(PastBlock(id, r))}
      past == PastBlock(id, Min(ends))
      height == IF past = 0 THEN GenesisHeight
                ELSE IF origin[past] # NoOrigin THEN L1OriginByID(past).h
                ELSE ProposedIn(past)
  IN  IF ends = {} THEN Reorged(chain[GenesisHeight], id)
      ELSE IF ~Readable(past) \/ height > Len(chain) THEN Failed
      ELSE Reorged(chain[height], past)

\* checkReorg: the parent block is only checked once the last verified block is
\* known to agree.
CanMismatch ==
  LET lv == LastVerified(chain) IN l2Head >= lv /\ l2Head > Fork + 1 /\ lv > Fork + 1
checkReorg(id) ==
  LET lv == LastVerified(chain)
  IN  IF ~CanMismatch THEN NotReorged
      ELSE IF Readable(lv) /\ Agreed(lv) THEN CheckL1Reorg(id - 1)
      ELSE retrievePastBlock(lv)

\* The state a callback of onBlockProposed starts in; once a beacon sync was
\* triggered no reorg is checked.
Handling == pass.pc = "events" /\ pass.events # <<>>
E == Head(pass.events)
ReorgCheck == IF tracker.triggered THEN NotReorged ELSE checkReorg(E.id)
NextEvent == pass' = [pass EXCEPT !.pc = "events", !.at = E.in.h, !.events = Tail(@)]
AlreadyInserted_IgnoresTracker == \* mutation: what the beacon sync brought is inserted
  E.id <= lastInserted
AlreadyInserted ==
  \/ E.id <= lastInserted
  \/ tracker.triggered /\ E.id <= tracker.id
Parents == IF tracker.triggered THEN {tracker.hash} ELSE L2ParentByBlockID(E.id)

\* The cursor is reset and the pass starts anew; without a header to reset it to,
\* the driver dies of a nil pointer.
ResetOnReorg_KeepsLast == \* mutation: the blocks of the old fork count as inserted
  /\ Handling /\ ReorgCheck.is = "yes"
  /\ l1Current' = ReorgCheck.cur /\ Go("process")
  /\ UNCHANGED <<l1Vars, engineVars, l1Head, l2Head, lastInserted, tracker, faults>>
ResetOnReorg ==
  /\ Handling /\ ReorgCheck.is = "yes"
  /\ IF ReorgCheck.cur = NoHeader
     THEN Go("panic") /\ UNCHANGED <<l1Current, lastInserted>>
     ELSE /\ l1Current' = ReorgCheck.cur /\ lastInserted' = ReorgCheck.last
          /\ Go("process")
  /\ UNCHANGED <<l1Vars, engineVars, l1Head, l2Head, tracker, faults>>

SkipInserted ==
  /\ Handling /\ ReorgCheck.is = "no" /\ AlreadyInserted
  /\ NextEvent
  /\ UNCHANGED <<l1Vars, engineVars, l1Current, l1Head, l2Head, lastInserted, tracker, faults>>

\* insertNewHead up to its new payload.
BuildBlock ==
  /\ Handling /\ ReorgCheck.is = "no" /\ ~AlreadyInserted
  /\ \E parent \in Parents : BuildPayload(E.id, parent, E.in)
  /\ pass' = [pass EXCEPT !.pc = "setHead"]
  /\ UNCHANGED <<l1Vars, l1Current, l1Head, l2Head, lastInserted, tracker, faults>>

\* An error of the callback: the iterator reads its range again, from the block of
\* the last event it handled.
CallbackError ==
  /\ Handling
  /\ \/ ReorgCheck.is = "error"
     \/ ReorgCheck.is = "no" /\ ~AlreadyInserted /\ Parents = {}
  /\ pass' = Passing(pass.at, pass.end, <<>>)
  /\ UNCHANGED <<l1Vars, engineVars, l1Current, l1Head, l2Head, lastInserted, tracker, faults>>

\* The last steps of insertNewHead and onBlockProposed.
InsertBlock ==
  /\ pass.pc = "setHead"
  /\ SetHead(origin[E.id])
  /\ lastInserted' = E.id
  /\ tracker' = IF tracker.triggered THEN ClearMeta(tracker) ELSE tracker
  /\ NextEvent
  /\ UNCHANGED <<l1Vars, l1Current, l1Head, l2Head, faults>>

--------------------------------------------------------------------------------
\* The driver stops at any step and starts again: only the engine keeps its state.
Restart ==
  /\ IF pass.pc = "panic" THEN UNCHANGED faults
     ELSE faults < MaxFaults /\ faults' = faults + 1
  /\ l1Current' \in LatestL2KnownL1Header
  /\ l1Head' = Last(chain) /\ l2Head' = Len(canon)
  /\ lastInserted' = NoId /\ tracker' = FreshTracker /\ Go("idle")
  /\ UNCHANGED <<l1Vars, engineVars>>

DriverStep ==
  \/ TriggerBeaconSync \/ Sync \/ processL1Blocks \/ FetchEvents \/ FinishPass
  \/ ResetOnReorg \/ SkipInserted \/ BuildBlock \/ CallbackError \/ InsertBlock

Next ==
  \/ L1Next /\ UNCHANGED <<engineVars, driverVars, faults>>
  \/ BeaconSynced /\ UNCHANGED <<l1Vars, driverVars, faults>>
  \/ UpdateL1Head \/ UpdateL2Head \/ Track
  \/ DriverStep
  \/ Restart

Spec == Init /\ [][Next]_vars

\* The goroutine and the event loop run on, and a driver that died is started.
FairSpec ==
  /\ Spec
  /\ WF_vars(DriverStep) /\ WF_vars(UpdateL1Head) /\ WF_vars(UpdateL2Head) /\ WF_vars(Track)
  /\ WF_vars(pass.pc = "panic" /\ Restart)

--------------------------------------------------------------------------------
(* Properties *)

MaxProposed == Max({s.height : s \in Setups}) - 2  \* of L1Init's and later blocks

\* Every block of the engine is proposed on the L1 chain of its successor: a reorg
\* never leaves a block of one fork built on one of another.
ForksNotMixed ==
  \A i, j \in DOMAIN canon : i < j => OnChainOf(canon[i], canon[j])

\* The block of an id has that number, whatever parent it was built on.
NumberIsId == \A id \in BlockIds : origin[id] # NoOrigin => Len(origin[id]) = id

\* A pass starts with the block of the cursor: every proposal before that block has
\* been inserted, or the next passes would never read it.
CursorNotAhead ==
  pass.pc = "idle" /\ Canonical(l1Current) => ProposedBefore(l1Current) <= Len(canon)

\* A proposal below the L1 head that the engine has no block for is followed: the engine gets a
\* block of its id, on ancestors that the L1 chain proposes.
ProposalsFollowed ==
  \A id \in 1..MaxProposed :
    (Len(canon) < id /\ id <= ProposedBefore(Last(chain))) ~>
      \/ id > LastProposed(chain)
      \/ Len(canon) >= id /\ HeaderByNumber(id - 1) = SubSeq(Proposed(chain), 1, id - 1)
================================================================================
