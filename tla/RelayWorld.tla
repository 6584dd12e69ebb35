------------------------------- MODULE RelayWorld -------------------------------
(***************************************************************************)
(* What the relayer's processes share: the two chains it reads and writes, *)
(* its database and its queue.  The relayer of one direction is modelled:  *)
(* messages sent on the source chain, processed on the destination chain.  *)
(***************************************************************************)
EXTENDS Integers, FiniteSets, FiniteSetsExt, RelayQueue

CONSTANTS
  Msgs,           \* messages sent to the destination chain
  Txs, TxOf,      \* [Msgs -> Txs]: a transaction may send several messages
  NoGas,          \* messages with gasLimit 0
  NoFee,          \* messages with fee 0
  Confirmations,  \* defaultConfirmations, and the processor's confirmations
  MaxHeight,      \* bound: the source chain's height
  MaxFaults,      \* bound: reorgs, failed calls, restarts, pauses, fee rises
  MaxCopies       \* bound: live copies of messages in the queue

ASSUME RelayAssumption ==
  /\ NoGas \subseteq Msgs /\ NoFee \subseteq Msgs
  /\ TxOf \in [Msgs -> Txs]
  /\ Confirmations \in Nat /\ MaxHeight \in Nat
  /\ MaxFaults \in Nat /\ MaxCopies \in Nat

VARIABLES
  height,    \* latest block of the source chain
  blockOf,   \* [Msgs -> block that has the message's MessageSent event, 0 for none]
  dest,      \* [Msgs -> messageStatus of the destination bridge]
  paused,    \* the destination bridge is paused
  synced,    \* latest source block whose state root the destination chain has
  cheap,     \* the destination chain's fees are below the messages' fees
  rows,      \* [Msgs -> status of its MessageSent row, "none" without a row]
  emitted,   \* [Msgs -> emitted_block_id of that row]
  syncRows,  \* block_id of the ChainDataSynced rows
  queue,     \* <src>-<dest>-MessageSent-queue and its companions
  faults     \* how many of MaxFaults happened

chains == <<height, blockOf, dest, paused, synced, cheap>>
worldVars == <<chains, rows, emitted, syncRows, queue, faults>>

Heights == 0..MaxHeight
Status == {"New", "Retriable", "Done", "Failed"}

WorldTypeOK ==
  /\ height \in Heights /\ synced \in Heights
  /\ blockOf \in [Msgs -> Heights] /\ emitted \in [Msgs -> Heights]
  /\ dest \in [Msgs -> Status] /\ rows \in [Msgs -> Status \cup {"none"}]
  /\ paused \in BOOLEAN /\ cheap \in BOOLEAN
  /\ syncRows \subseteq Heights
  /\ QueueOK(queue, Msgs, Heights)
  /\ faults \in 0..MaxFaults

WorldInit ==
  /\ height = 0 /\ blockOf = [m \in Msgs |-> 0]
  /\ dest = [m \in Msgs |-> "New"]
  /\ paused = FALSE /\ synced = 0 /\ cheap = FALSE
  /\ rows = [m \in Msgs |-> "none"] /\ emitted = [m \in Msgs |-> 0]
  /\ syncRows = {} /\ queue = NoCopies /\ faults = 0

Fault == faults < MaxFaults /\ faults' = faults + 1

Mined(m) == blockOf[m] # 0
\* WaitConfirmations reads the receipt again at each poll, so it follows a
\* transaction that a reorg moved to another block.
Confirmed(m) == Mined(m) /\ height >= blockOf[m] + Confirmations

---------------------------------------------------------------------------------
(* The source chain *)

\* A block with some of the transactions still waiting.
MineBlock ==
  /\ height < MaxHeight
  /\ height' = height + 1
  /\ \E txs \in SUBSET {TxOf[m] : m \in {n \in Msgs : ~Mined(n)}} :
       blockOf' = [m \in Msgs |-> IF ~Mined(m) /\ TxOf[m] \in txs THEN height' ELSE blockOf[m]]
  /\ UNCHANGED <<dest, paused, synced, cheap, rows, emitted, syncRows, queue, faults>>

\* The last blocks are replaced, none of them confirmed: the chain goes on from
\* an older one, and the transactions wait to be mined again.
Reorg ==
  /\ Fault
  /\ \E top \in Heights :
       /\ top < height /\ top + Confirmations >= height /\ top >= synced
       /\ height' = top
       /\ blockOf' = [m \in Msgs |-> IF blockOf[m] > top THEN 0 ELSE blockOf[m]]
  /\ UNCHANGED <<dest, paused, synced, cheap, rows, emitted, syncRows, queue>>

---------------------------------------------------------------------------------
(* The destination chain *)

\* The destination chain syncs the state root of a newer source block.
SyncChainData ==
  /\ \E block \in Heights :
       synced < block /\ block + Confirmations <= height /\ synced' = block
  /\ UNCHANGED <<height, blockOf, dest, paused, cheap, rows, emitted, syncRows, queue, faults>>

\* What a processMessage or retryMessage transaction makes of a status.
Processed(status) ==
  CASE status = "New" -> {"Done", "Retriable"}
    [] status = "Retriable" -> {"Done", "Failed"}
    [] OTHER -> {}

\* Another relayer or the message's owner processes, retries or fails it.
OthersProcess(m) ==
  /\ ~paused /\ Mined(m) /\ blockOf[m] <= synced
  /\ \E status \in Processed(dest[m]) : dest' = [dest EXCEPT ![m] = status]
  /\ UNCHANGED <<height, blockOf, paused, synced, cheap, rows, emitted, syncRows, queue, faults>>

PauseBridge ==
  /\ Fault /\ ~paused /\ paused' = TRUE
  /\ UNCHANGED <<height, blockOf, dest, synced, cheap, rows, emitted, syncRows, queue>>

UnpauseBridge ==
  /\ paused /\ paused' = FALSE
  /\ UNCHANGED <<height, blockOf, dest, synced, cheap, rows, emitted, syncRows, queue, faults>>

FeesFall ==
  /\ ~cheap /\ cheap' = TRUE
  /\ UNCHANGED <<height, blockOf, dest, paused, synced, rows, emitted, syncRows, queue, faults>>

FeesRise ==
  /\ Fault /\ cheap /\ cheap' = FALSE
  /\ UNCHANGED <<height, blockOf, dest, paused, synced, rows, emitted, syncRows, queue>>

\* External: an unprofitable message's expiration.
ExpireUnprofitable ==
  /\ \E copy \in BagToSet(queue.unprofitable) : queue' = Expire(queue, copy)
  /\ UNCHANGED <<chains, rows, emitted, syncRows, faults>>

WorldNext ==
  \/ MineBlock \/ Reorg \/ SyncChainData
  \/ \E m \in Msgs : OthersProcess(m)
  \/ PauseBridge \/ UnpauseBridge \/ FeesFall \/ FeesRise
  \/ ExpireUnprofitable
=================================================================================
