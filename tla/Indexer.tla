-------------------------------- MODULE Indexer --------------------------------
(***************************************************************************)
(* The relayer's indexers.  One follows the source chain in Sync mode, one *)
(* crawls past blocks of it in a loop, and the one of the other direction  *)
(* saves the ChainDataSynced events of the destination chain.              *)
(***************************************************************************)
EXTENDS RelayWorld

CONSTANTS
  BatchSize,        \* blockBatchSize
  BackOffMaxRetries,
  CrawlStart,       \* numLatestBlocksStartWhenCrawling
  CrawlEnd          \* numLatestBlocksEndWhenCrawling

ASSUME IndexerAssumption ==
  /\ BatchSize \in Nat \ {0} /\ BackOffMaxRetries \in Nat
  /\ CrawlStart \in Nat /\ CrawlEnd \in Nat /\ CrawlEnd <= CrawlStart

VARIABLES
  cursor,    \* latestIndexedBlockNumber
  batchEnd,  \* end of the batch being indexed, 0 between batches
  todo,      \* events of the batch that are still being handled
  failed,    \* an event of the batch ended in an error
  retries,   \* retries of the batch so far
  syncSeen   \* source block of the last ChainDataSynced event that was handled

indexerVars == <<cursor, batchEnd, todo, failed, retries, syncSeen>>

\* A MessageSent event as it was read: the message and the event's block.
Event == [msg : Msgs, block : Heights]

IndexerTypeOK ==
  /\ cursor \in Heights /\ batchEnd \in Heights /\ syncSeen \in Heights
  /\ todo \subseteq Event /\ failed \in BOOLEAN /\ retries \in 0..BackOffMaxRetries

IndexerInit ==
  /\ cursor = 0 /\ batchEnd = 0 /\ todo = {} /\ failed = FALSE /\ retries = 0
  /\ syncSeen = 0

Least(a, b) == IF a <= b THEN a ELSE b

EventsBetween(first, last) ==
  {[msg |-> m, block |-> blockOf[m]] : m \in {n \in Msgs : Mined(n) /\ blockOf[n] \in first..last}}

---------------------------------------------------------------------------------
(* Handling a MessageSent event *)

\* A row that exists already is left as it is, unless the crawler finds the
\* message Done.
RowAfter(ev, crawling) ==
  CASE rows[ev.msg] = "none" -> dest[ev.msg]
    [] rows[ev.msg] # "none" /\ crawling /\ dest[ev.msg] = "Done" -> "Done"
    [] OTHER -> rows[ev.msg]

saveEventToDB(ev, crawling) ==
  /\ rows' = [rows EXCEPT ![ev.msg] = RowAfter(ev, crawling)]
  /\ emitted' = [emitted EXCEPT ![ev.msg] = IF rows[ev.msg] = "none" THEN ev.block ELSE @]

\* Only new messages are queued, and none without gas; a fee below
\* minFeeToIndex is logged and the message queued all the same.
Queued(ev) == dest[ev.msg] = "New" /\ ev.msg \notin NoGas

publishEvent(ev) ==
  IF Queued(ev)
  THEN /\ LiveCopies(queue) < MaxCopies
       /\ queue' = Publish(queue, [msg |-> ev.msg, block |-> ev.block, body |-> "event"])
  ELSE UNCHANGED queue

handleMessageSentEvent(ev, crawling) ==
  /\ Confirmed(ev.msg)
  /\ saveEventToDB(ev, crawling)
  /\ publishEvent(ev)

---------------------------------------------------------------------------------
(* The indexer in Sync mode *)

IndexBatchPastHead ==                                              \* mutant
  /\ batchEnd = 0 /\ cursor < height
  /\ batchEnd' = cursor + BatchSize
  /\ todo' = EventsBetween(cursor + 1, batchEnd')
  /\ UNCHANGED <<worldVars, cursor, failed, retries, syncSeen>>

\* filter: the next batch up to the latest header.  Blocks at or below the
\* cursor are never read again, whatever a reorg put there.
IndexBatch ==
  /\ batchEnd = 0 /\ cursor < height
  /\ batchEnd' = Least(cursor + BatchSize, height)
  /\ todo' = EventsBetween(cursor + 1, batchEnd')
  /\ UNCHANGED <<worldVars, cursor, failed, retries, syncSeen>>

\* Events of a batch are handled by goroutines, in any order.
HandleEvent ==
  /\ \E ev \in todo : handleMessageSentEvent(ev, FALSE) /\ todo' = todo \ {ev}
  /\ UNCHANGED <<chains, syncRows, faults, cursor, batchEnd, failed, retries, syncSeen>>

HandleEventFailsQueued ==                                          \* mutant
  /\ Fault /\ failed' = TRUE
  /\ \E ev \in todo : todo' = todo \ {ev} /\ Confirmed(ev.msg) /\ publishEvent(ev)
  /\ UNCHANGED <<chains, syncRows, rows, emitted, cursor, batchEnd, retries, syncSeen>>

\* A call of the handler fails, before the row is saved or after it.
HandleEventFails ==
  /\ Fault /\ failed' = TRUE
  /\ \E ev \in todo :
       /\ todo' = todo \ {ev}
       /\ \/ UNCHANGED <<rows, emitted>>
          \/ Confirmed(ev.msg) /\ Queued(ev) /\ saveEventToDB(ev, FALSE)
  /\ UNCHANGED <<chains, syncRows, queue, cursor, batchEnd, retries, syncSeen>>

\* The wait for the confirmations of a transaction that is gone times out.
ConfirmationTimeout ==
  /\ failed' = TRUE
  /\ \E ev \in todo : ~Mined(ev.msg) /\ todo' = todo \ {ev}
  /\ UNCHANGED <<worldVars, cursor, batchEnd, retries, syncSeen>>

\* withRetry: the whole batch is read and handled again.
RetryBatch ==
  /\ batchEnd # 0 /\ todo = {} /\ failed /\ retries < BackOffMaxRetries
  /\ retries' = retries + 1 /\ failed' = FALSE
  /\ todo' = EventsBetween(cursor + 1, batchEnd)
  /\ UNCHANGED <<worldVars, cursor, batchEnd, syncSeen>>

\* The cursor moves past the batch, after its last retry too.
FinishBatch ==
  /\ batchEnd # 0 /\ todo = {} /\ (failed => retries = BackOffMaxRetries)
  /\ cursor' = batchEnd /\ batchEnd' = 0 /\ failed' = FALSE /\ retries' = 0
  /\ UNCHANGED <<worldVars, todo, syncSeen>>

\* setInitialIndexingBlockByMode(Sync) after a restart.
InitialIndexingBlock ==
  LET latest == Max({emitted[m] : m \in Msgs} \cup {0})
  IN  IF latest # 0 THEN latest - 1 ELSE 0

RestartIndexer ==
  /\ Fault
  /\ cursor' = InitialIndexingBlock
  /\ batchEnd' = 0 /\ todo' = {} /\ failed' = FALSE /\ retries' = 0
  /\ UNCHANGED <<chains, rows, emitted, syncRows, queue, syncSeen>>

---------------------------------------------------------------------------------
(* The indexer in CrawlPastBlocks mode *)

\* The uint64 endBlockID - CrawlStart wraps on a chain shorter than CrawlStart:
\* the cursor is then past every block and the window is empty.
CrawlWindow ==
  IF height < CrawlStart THEN {}
  ELSE (height - CrawlStart + 1)..(IF height > CrawlEnd THEN height - CrawlEnd ELSE height)

CrawlEventReturnsEarly(m) ==                                       \* mutant
  /\ Mined(m) /\ blockOf[m] \in CrawlWindow /\ rows[m] # dest[m]
  /\ handleMessageSentEvent([msg |-> m, block |-> blockOf[m]], TRUE)
  /\ UNCHANGED <<chains, syncRows, faults, indexerVars>>

\* The loop starts over with each new header, so it handles an event of its
\* window again and again; an error only postpones it to the next loop.
CrawlEvent(m) ==
  /\ Mined(m) /\ blockOf[m] \in CrawlWindow
  /\ handleMessageSentEvent([msg |-> m, block |-> blockOf[m]], TRUE)
  /\ UNCHANGED <<chains, syncRows, faults, indexerVars>>

---------------------------------------------------------------------------------
(* The indexer of the other direction *)

handleChainDataSyncedEvent ==
  /\ syncSeen < synced
  /\ syncRows' = syncRows \cup {synced} /\ syncSeen' = synced
  /\ UNCHANGED <<chains, rows, emitted, queue, faults, cursor, batchEnd, todo, failed, retries>>

\* Its checkReorg takes a batch that is handled again for a reorg, and deletes
\* by block_id, which only ChainDataSynced rows have, and which is there the
\* number of a source block.  Bound: the destination chain still syncs later.
DeleteAllAfterBlockID ==
  /\ Fault
  /\ synced + Confirmations < MaxHeight
  /\ \E block \in Heights : syncRows' = {row \in syncRows : row < block} /\ syncRows' # syncRows
  /\ UNCHANGED <<chains, rows, emitted, queue, indexerVars>>

IndexerNext ==
  \/ IndexBatch \/ HandleEvent \/ HandleEventFails \/ ConfirmationTimeout
  \/ RetryBatch \/ FinishBatch \/ RestartIndexer
  \/ \E m \in Msgs : CrawlEvent(m)
  \/ handleChainDataSyncedEvent \/ DeleteAllAfterBlockID
=================================================================================
