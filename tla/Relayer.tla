-------------------------------- MODULE Relayer --------------------------------
(***************************************************************************)
(* The relayer of one direction: indexers, queue and processor between the *)
(* chain that sends the messages and the chain that receives them.         *)
(***************************************************************************)
EXTENDS Indexer, Processor

vars == <<worldVars, indexerVars, processorVars>>

Init == WorldInit /\ IndexerInit /\ ProcessorInit

Next ==
  \/ WorldNext /\ UNCHANGED <<indexerVars, processorVars>>
  \/ IndexerNext /\ UNCHANGED processorVars
  \/ ProcessorNext /\ UNCHANGED indexerVars

\* Both chains go on, the bridge is unpaused and fees fall in the end.  The
\* indexers' loops, the queue and the goroutines keep running; whatever copy
\* heads the queue is delivered when there is room.
Fairness ==
  /\ WF_vars((MineBlock \/ SyncChainData \/ UnpauseBridge \/ FeesFall)
             /\ UNCHANGED <<indexerVars, processorVars>>)
  /\ WF_vars(ExpireUnprofitable /\ UNCHANGED <<indexerVars, processorVars>>)
  /\ \A m \in Msgs : WF_vars(CrawlEvent(m) /\ UNCHANGED processorVars)
  /\ WF_vars(handleChainDataSyncedEvent /\ UNCHANGED processorVars)
  /\ WF_vars(Take /\ UNCHANGED indexerVars)
  /\ \A g \in Goroutines : WF_vars(ProcessorStep(g) /\ UNCHANGED indexerVars)
  /\ WF_vars(ConsumerTimeout /\ UNCHANGED indexerVars)

Spec == Init /\ [][Next]_vars
FairSpec == Spec /\ Fairness

---------------------------------------------------------------------------------
(* Properties *)

TypeOK == WorldTypeOK /\ IndexerTypeOK /\ ProcessorTypeOK

\* No two goroutines ever work on the messages of one transaction, however often
\* the queue delivers them again (checkHash of processMessage).
OneGoroutinePerTx ==
  /\ \A g, h \in Goroutines :
       Busy(g) /\ Busy(h) /\ g # h => TxOf[MsgOf(g)] # TxOf[MsgOf(h)]
  /\ processing = {TxOf[MsgOf(g)] : g \in {h \in Goroutines : Busy(h)}}

\* A goroutine that may still acknowledge its delivery finds it unacknowledged,
\* after any failure of its channel (Ack and Nack of the queue).
DeliveryHeld ==
  \A copy \in Copy(Msgs, Heights) :
    Cardinality({g \in Goroutines : Busy(g) /\ run[g].open /\ run[g].copy = copy})
      <= CopiesOf(copy, queue.held)

\* The database never says more of a message than the bridge: what it shows as
\* Done or Failed is, and what it shows as Retriable was processed, although
\* three processes write a row with a status they read before.
RowNeverAhead ==
  \A m \in Msgs :
    /\ rows[m] \in {"Done", "Failed"} => dest[m] = rows[m]
    /\ rows[m] = "Retriable" => dest[m] # "New"

\* Every copy of a message has the row whose id is in its body, so that its
\* status can be updated once it is processed.
QueuedHasRow == \A copy \in BagToSet(Live(queue)) : rows[copy.msg] # "none"

\* A message that pays and gets old enough while it is in the crawler's window
\* is processed: what reorgs, failed calls, restarts and rejected deliveries
\* lose, the crawler brings back.
Relayable(m) ==
  /\ m \notin NoGas \cup NoFee /\ Mined(m)
  /\ blockOf[m] > MaxHeight - CrawlStart
  /\ blockOf[m] + Max({Confirmations, CrawlEnd}) <= MaxHeight
EventuallyRelayed == \A m \in Msgs : Relayable(m) ~> (dest[m] # "New" \/ ~Mined(m))
=================================================================================
