------------------------------- MODULE Processor -------------------------------
(***************************************************************************)
(* The relayer's processor: goroutines that take copies of messages from   *)
(* the queue, wait for confirmations and for the source chain's state      *)
(* root, and process the messages on the destination chain.  A step of a   *)
(* goroutine goes from one wait, or one call that others race, to the next.*)
(***************************************************************************)
EXTENDS RelayWorld

CONSTANTS
  Goroutines,  \* bound: goroutines that run at a time
  Prefetch     \* QueuePrefetchCount

ASSUME ProcessorAssumption == Prefetch \in Nat \ {0} /\ IsFiniteSet(Goroutines)

VARIABLES
  run,        \* [Goroutines -> what the goroutine is at]
  processing  \* processingTxHashes

processorVars == <<run, processing>>

\* `copy` is the delivery.  `open` tells that the channel it came on still is:
\* only then can it be acknowledged.  `proof` is the source block the signal
\* proof is for, `read` the status read after the transaction.
Idle == [phase |-> "idle"]
Running == [phase : {"confirming", "syncing", "sending", "updating"},
            copy : Copy(Msgs, Heights), open : BOOLEAN, proof : Heights, read : Status]

ProcessorTypeOK ==
  /\ run \in [Goroutines -> Running \cup {Idle}]
  /\ processing \subseteq Txs

ProcessorInit ==
  /\ run = [g \in Goroutines |-> Idle]
  /\ processing = {}

Busy(g) == run[g] # Idle
MsgOf(g) == run[g].copy.msg
At(g, phase) == Busy(g) /\ run[g].phase = phase
Advance(g, phase) == run' = [run EXCEPT ![g].phase = phase]

\* Acknowledging a delivery of a closed channel fails and is only logged.
Settle(g, operator(_, _)) == IF run[g].open THEN operator(queue, run[g].copy) ELSE queue

\* processMessage returns: its deferred call forgets the transaction.
Return(g) ==
  /\ run' = [run EXCEPT ![g] = Idle]
  /\ processing' = processing \ {TxOf[MsgOf(g)]}

ReturnOk(g) == Return(g) /\ queue' = Settle(g, Ack)
\* The default case of the event loop: shouldRequeue is false with any error.
ReturnError(g) == Return(g) /\ queue' = Settle(g, DeadLetter)

\* canProcessMessage, for a relayer that owns none of the messages.
canProcessMessage(m) == dest[m] = "New" /\ m \notin NoGas

---------------------------------------------------------------------------------
(* processMessage *)

Begun(copy) == [phase |-> "confirming", copy |-> copy, open |-> TRUE, proof |-> 0, read |-> "New"]

\* A wrapped body has no event, and a transaction that is being processed is
\* not processed twice: both are errors.  TimesRetried in the body is 0 always,
\* the count kept in the headers is never read, so no message has too many.
TakeRejected(copy) ==
  /\ copy.body = "wrapped" \/ TxOf[copy.msg] \in processing
  /\ queue' = DeadLetter(Deliver(queue, copy), copy)
  /\ UNCHANGED <<run, processing>>

TakeNothingToDo(copy) ==
  /\ copy.body = "event" /\ TxOf[copy.msg] \notin processing
  /\ ~canProcessMessage(copy.msg)
  /\ queue' = Ack(Deliver(queue, copy), copy)
  /\ UNCHANGED <<run, processing>>

TakeToProcessUnchecked(copy) ==                                    \* mutant
  /\ copy.body = "event" /\ canProcessMessage(copy.msg)
  /\ queue' = Deliver(queue, copy)
  /\ processing' = processing \cup {TxOf[copy.msg]}
  /\ \E g \in Goroutines : ~Busy(g) /\ run' = [run EXCEPT ![g] = Begun(copy)]

TakeToProcess(copy) ==
  /\ copy.body = "event" /\ TxOf[copy.msg] \notin processing
  /\ canProcessMessage(copy.msg)
  /\ queue' = Deliver(queue, copy)
  /\ processing' = processing \cup {TxOf[copy.msg]}
  /\ \E g \in Goroutines : ~Busy(g) /\ run' = [run EXCEPT ![g] = Begun(copy)]

Take ==
  /\ \E copy \in BagToSet(queue.main) :
       /\ CanDeliver(queue, copy, Prefetch)
       /\ TakeRejected(copy) \/ TakeNothingToDo(copy) \/ TakeToProcess(copy)
  /\ UNCHANGED <<chains, rows, emitted, syncRows, faults>>

\* After the confirmations, a message of a paused bridge goes back to the queue
\* and the delivery is published besides.
Confirm(g) ==
  /\ At(g, "confirming") /\ Confirmed(MsgOf(g)) /\ ~paused
  /\ Advance(g, "syncing")
  /\ UNCHANGED <<worldVars, processing>>

RequeuePaused(g) ==
  /\ At(g, "confirming") /\ Confirmed(MsgOf(g)) /\ paused
  /\ LiveCopies(queue) < MaxCopies
  /\ Return(g)
  /\ queue' = Publish(Settle(g, Requeue), [run[g].copy EXCEPT !.body = "wrapped"])
  /\ UNCHANGED <<chains, rows, emitted, syncRows, faults>>

\* waitHeaderSynced polls for a row at or after the event's block; the proof is
\* then for the latest one.  sendProcessMessageCall asks the destination bridge
\* whether the message is received with it.
HeaderSynced(g) == At(g, "syncing") /\ \E row \in syncRows : row >= run[g].copy.block
isMessageReceived(g) == Mined(MsgOf(g)) /\ blockOf[MsgOf(g)] <= Max(syncRows)

\* A fee of 0 is errImpossible.
NotReceived(g) ==
  /\ HeaderSynced(g) /\ (~isMessageReceived(g) \/ MsgOf(g) \in NoFee)
  /\ ReturnError(g)
  /\ UNCHANGED <<chains, rows, emitted, syncRows, faults>>

Unprofitable(g) ==
  /\ HeaderSynced(g) /\ isMessageReceived(g) /\ MsgOf(g) \notin NoFee /\ ~cheap
  /\ Return(g)
  /\ queue' = PublishUnprofitable(Settle(g, Ack), run[g].copy)
  /\ UNCHANGED <<chains, rows, emitted, syncRows, faults>>

\* The status is read again before the transaction is sent.
Unprocessable(g) ==
  /\ HeaderSynced(g) /\ isMessageReceived(g) /\ MsgOf(g) \notin NoFee /\ cheap
  /\ ~canProcessMessage(MsgOf(g))
  /\ ReturnOk(g)
  /\ UNCHANGED <<chains, rows, emitted, syncRows, faults>>

Send(g) ==
  /\ HeaderSynced(g) /\ isMessageReceived(g) /\ MsgOf(g) \notin NoFee /\ cheap
  /\ canProcessMessage(MsgOf(g))
  /\ run' = [run EXCEPT ![g].phase = "sending", ![g].proof = Max(syncRows)]
  /\ UNCHANGED <<worldVars, processing>>

\* The transaction is mined, and reverts if the message was processed meanwhile
\* or the bridge is paused.  The status is read back at once, and others may
\* change it before it is written to the row.
SendSucceeds(g) ==
  /\ At(g, "sending") /\ ~paused /\ dest[MsgOf(g)] = "New"
  /\ \E status \in Processed("New") :
       /\ dest' = [dest EXCEPT ![MsgOf(g)] = status]
       /\ run' = [run EXCEPT ![g].phase = "updating", ![g].proof = 0, ![g].read = status]
  /\ UNCHANGED <<height, blockOf, paused, synced, cheap, rows, emitted, syncRows, queue, faults, processing>>

SendReverts(g) ==
  /\ At(g, "sending") /\ (paused \/ dest[MsgOf(g)] # "New")
  /\ ReturnError(g)
  /\ UNCHANGED <<chains, rows, emitted, syncRows, faults>>

UpdateStatusDone(g) ==                                             \* mutant
  /\ At(g, "updating")
  /\ rows' = [rows EXCEPT ![MsgOf(g)] = "Done"]
  /\ ReturnOk(g)
  /\ UNCHANGED <<chains, emitted, syncRows, faults>>

UpdateStatus(g) ==
  /\ At(g, "updating")
  /\ rows' = [rows EXCEPT ![MsgOf(g)] = run[g].read]
  /\ ReturnOk(g)
  /\ UNCHANGED <<chains, emitted, syncRows, faults>>

---------------------------------------------------------------------------------
(* Failures *)

\* Any call of a goroutine may fail.  Errors of the connection leave the
\* delivery unacknowledged, until the channel closes.
CallFails(g) ==
  /\ Fault /\ Busy(g)
  /\ ReturnError(g)
  /\ UNCHANGED <<chains, rows, emitted, syncRows>>

ConnectionFails(g) ==
  /\ Fault /\ Busy(g)
  /\ Return(g) /\ UNCHANGED queue
  /\ UNCHANGED <<chains, rows, emitted, syncRows>>

\* A delivery no goroutine works on: only the channel's end can free it.
Stuck ==
  \E copy \in BagToSet(queue.held) :
    CopiesOf(copy, queue.held) >
      Cardinality({g \in Goroutines : Busy(g) /\ run[g].open /\ run[g].copy = copy})

ResetChannelOnly ==                                                \* mutant
  /\ queue' = CloseChannel(queue)
  /\ UNCHANGED <<chains, rows, emitted, syncRows, run, processing>>

\* The channel closes and the processor subscribes again; goroutines go on.
ResetChannel ==
  /\ queue' = CloseChannel(queue)
  /\ run' = [g \in Goroutines |-> IF Busy(g) THEN [run[g] EXCEPT !.open = FALSE] ELSE Idle]
  /\ UNCHANGED <<chains, rows, emitted, syncRows, processing>>

\* External: the broker ends a channel with a delivery unacknowledged too long.
ConsumerTimeout == Stuck /\ ResetChannel /\ UNCHANGED faults

ChannelLost == Fault /\ ResetChannel

RestartProcessor ==
  /\ Fault
  /\ queue' = CloseChannel(queue)
  /\ run' = [g \in Goroutines |-> Idle] /\ processing' = {}
  /\ UNCHANGED <<chains, rows, emitted, syncRows>>

ProcessorStep(g) ==
  \/ Confirm(g) \/ RequeuePaused(g) \/ NotReceived(g) \/ Unprofitable(g)
  \/ Unprocessable(g) \/ Send(g) \/ SendSucceeds(g) \/ SendReverts(g) \/ UpdateStatus(g)

ProcessorNext ==
  \/ Take
  \/ \E g \in Goroutines : ProcessorStep(g) \/ CallFails(g) \/ ConnectionFails(g)
  \/ ConsumerTimeout \/ ChannelLost \/ RestartProcessor
=================================================================================
