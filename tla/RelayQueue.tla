------------------------------- MODULE RelayQueue -------------------------------
(***************************************************************************)
(* The RabbitMQ queues between the relayer's indexer and its processor, as *)
(* a record of bags: the order in which copies are delivered is left open, *)
(* as requeued and redelivered copies change it.                           *)
(***************************************************************************)
EXTENDS Naturals, Bags

\* A copy of a message in a queue.  `block` is the block of the event in its
\* body; a "wrapped" body is the JSON of a delivery, which has no Event.
Copy(Msgs, Blocks) == [msg : Msgs, block : Blocks, body : {"event", "wrapped"}]

\* main: ready to be delivered; held: delivered on the open channel, not yet
\* acknowledged; unprofitable: waiting to expire.
NoCopies == [main |-> EmptyBag, held |-> EmptyBag, unprofitable |-> EmptyBag]

\* How many there are of a copy.
CopiesOf(copy, bag) == IF copy \in DOMAIN bag THEN bag[copy] ELSE 0

QueueOK(q, Msgs, Blocks) ==
  \A name \in DOMAIN NoCopies : IsABag(q[name]) /\ BagToSet(q[name]) \subseteq Copy(Msgs, Blocks)

Publish(q, copy) == [q EXCEPT !.main = @ (+) SetToBag({copy})]

\* The unprofitable queue is addressed by name too; nothing consumes it.
PublishUnprofitable(q, copy) == [q EXCEPT !.unprofitable = @ (+) SetToBag({copy})]

\* Their expiration dead-letters them to the queue's exchange.
Expire(q, copy) ==
  [q EXCEPT !.unprofitable = @ (-) SetToBag({copy}),
            !.main = @ (+) SetToBag({copy})]

CanDeliver(q, copy, prefetch) == BagIn(copy, q.main) /\ BagCardinality(q.held) < prefetch

Deliver(q, copy) ==
  [q EXCEPT !.main = @ (-) SetToBag({copy}), !.held = @ (+) SetToBag({copy})]

Ack(q, copy) == [q EXCEPT !.held = @ (-) SetToBag({copy})]

Requeue(q, copy) == Publish(Ack(q, copy), copy)

\* Nack without requeue.  The queue sends the copy to messages-dlx under the key
\* it has, and there only <queue>-process is bound: a copy published under the
\* queue's name is dropped.  One that expired has that key and ends in the
\* dead-letter queue, which nothing consumes and nothing expires from.
DeadLetter(q, copy) == Ack(q, copy)

\* The channel closes: what was delivered on it becomes ready again.
CloseChannel(q) == [q EXCEPT !.main = @ (+) q.held, !.held = EmptyBag]

\* Copies that are still on their way, of one message or of all.
Live(q) == q.main (+) q.held (+) q.unprofitable
LiveCopies(q) == BagCardinality(Live(q))
=================================================================================
