----------------------------- MODULE RelayerProofs -----------------------------
(***************************************************************************)
(* The relayer for every set of messages and transactions, any finite      *)
(* number of goroutines and any bound on faults: whatever the chains, the  *)
(* indexers, the queue and the goroutines do in whatever order, no         *)
(* transaction is worked on twice at a time, no acknowledgement goes to a  *)
(* delivery that is gone, no row says more of a message than the bridge,   *)
(* and no copy is queued of a message without a row.  Every step is of one *)
(* of a few kinds, and RelayInv is inductive under each.                   *)
(***************************************************************************)
EXTENDS Relayer, FiniteSetTheorems, WellFoundedInduction, TLAPS

---------------------------------------------------------------------------------
(* Bags *)

\* Adding a copy.
LEMMA BagPlus ==
  ASSUME NEW B, IsABag(B), NEW c
  PROVE  LET P == B (+) SetToBag({c})
         IN  /\ IsABag(P) /\ DOMAIN P = DOMAIN B \cup {c}
             /\ \A x : CopiesOf(x, P) = IF x = c THEN CopiesOf(x, B) + 1 ELSE CopiesOf(x, B)
<1>. DEFINE P == B (+) SetToBag({c})
<1>1. /\ DOMAIN P = DOMAIN B \cup {c}
      /\ \A x \in DOMAIN P : P[x] = (IF x \in DOMAIN B THEN B[x] ELSE 0) + (IF x = c THEN 1 ELSE 0)
  BY DEF (+), SetToBag
<1>2. \A x \in DOMAIN B : B[x] \in Nat /\ B[x] > 0
  BY DEF IsABag
<1>3. P = [x \in DOMAIN P |-> P[x]]
  BY DEF (+)
<1>. HIDE DEF P
<1>4. \A x \in DOMAIN P : P[x] \in Nat /\ P[x] > 0
  BY <1>1, <1>2
<1>5. IsABag(P)
  BY <1>3, <1>4 DEF IsABag
<1>6. \A x : CopiesOf(x, P) = IF x = c THEN CopiesOf(x, B) + 1 ELSE CopiesOf(x, B)
  BY <1>1, <1>2 DEF CopiesOf
<1>. QED
  BY <1>1, <1>5, <1>6 DEF P

\* Taking a copy out.
LEMMA BagMinus ==
  ASSUME NEW B, IsABag(B), NEW c
  PROVE  LET M == B (-) SetToBag({c})
         IN  /\ IsABag(M) /\ DOMAIN M \subseteq DOMAIN B
             /\ \A x : CopiesOf(x, M) = IF x = c /\ CopiesOf(x, B) > 0 THEN CopiesOf(x, B) - 1
                                        ELSE CopiesOf(x, B)
<1>. DEFINE M == B (-) SetToBag({c})
            left == [x \in DOMAIN B |-> IF x = c THEN B[x] - 1 ELSE B[x]]
<1>0. \A x \in DOMAIN B : B[x] \in Nat /\ B[x] > 0
  BY DEF IsABag
<1>1. M = [x \in {d \in DOMAIN left : left[d] > 0} |-> left[x]]
  <2>1. left = [x \in DOMAIN B |-> IF x \in DOMAIN SetToBag({c}) THEN B[x] - SetToBag({c})[x]
                                                              ELSE B[x]]
    BY DEF SetToBag
  <2>. HIDE DEF left
  <2>. QED
    BY <2>1, Zenon DEF (-)
<1>. HIDE DEF M
<1>2. /\ DOMAIN M = {d \in DOMAIN B : left[d] > 0}
      /\ \A x \in DOMAIN M : M[x] = left[x]
      /\ \A x \in DOMAIN B : left[x] = IF x = c THEN B[x] - 1 ELSE B[x]
  BY <1>1
<1>. HIDE DEF left
<1>3. \A x \in DOMAIN M : M[x] \in Nat /\ M[x] > 0
  BY <1>0, <1>2
<1>4. IsABag(M)
  <2>1. M = [x \in DOMAIN M |-> M[x]]
    BY <1>1
  <2>. QED
    BY <1>3, <2>1 DEF IsABag
<1>5. \A x : CopiesOf(x, M) = IF x = c /\ CopiesOf(x, B) > 0 THEN CopiesOf(x, B) - 1
                              ELSE CopiesOf(x, B)
  BY <1>0, <1>2 DEF CopiesOf
<1>. QED
  BY <1>2, <1>4, <1>5 DEF M

\* Adding up.
LEMMA BagSum ==
  ASSUME NEW A, IsABag(A), NEW B, IsABag(B)
  PROVE  IsABag(A (+) B) /\ DOMAIN (A (+) B) = DOMAIN A \cup DOMAIN B
<1>. DEFINE P == A (+) B
<1>1. /\ DOMAIN P = DOMAIN A \cup DOMAIN B
      /\ \A x \in DOMAIN P : P[x] = (IF x \in DOMAIN A THEN A[x] ELSE 0)
                                      + (IF x \in DOMAIN B THEN B[x] ELSE 0)
      /\ P = [x \in DOMAIN P |-> P[x]]
  BY DEF (+)
<1>2. /\ \A x \in DOMAIN A : A[x] \in Nat /\ A[x] > 0
      /\ \A x \in DOMAIN B : B[x] \in Nat /\ B[x] > 0
  BY DEF IsABag
<1>. HIDE DEF P
<1>3. \A x \in DOMAIN P : P[x] \in Nat /\ P[x] > 0
  BY <1>1, <1>2
<1>4. IsABag(P)
  BY <1>1, <1>3 DEF IsABag
<1>. QED
  BY <1>1, <1>4 DEF P

\* Nothing to add.
LEMMA BagNone == IsABag(EmptyBag) /\ DOMAIN EmptyBag = {} /\ \A x : CopiesOf(x, EmptyBag) = 0
BY DEF EmptyBag, SetToBag, IsABag, CopiesOf

\* The greatest of a nonempty set of heights.
LEMMA MaxHeights ==
  ASSUME NEW S, S \subseteq Heights, S # {}
  PROVE  Max(S) \in S /\ \A x \in S : Max(S) >= x
<1>1. MaxHeight \in Nat
  BY RelayAssumption
<1>. DEFINE T == {MaxHeight - x : x \in S}
<1>2. T \subseteq Nat /\ T # {}
  <2>1. \A x \in S : MaxHeight - x \in Nat
    BY <1>1 DEF Heights
  <2>. QED
    BY <2>1
<1>3. PICK a \in T : \A b \in T : ~ (b < a)
  <2>1. IsWellFoundedOn(OpToRel(<, Nat), Nat)
    BY NatLessThanWellFounded
  <2>2. PICK a \in T : \A b \in T : <<b, a>> \notin OpToRel(<, Nat)
    BY <1>2, <2>1, WFMin
  <2>. QED
    BY <1>2, <2>2 DEF OpToRel
<1>4. PICK x \in S : a = MaxHeight - x
  BY <1>3
<1>5. \A y \in S : x >= y
  BY <1>1, <1>3, <1>4 DEF Heights
<1>6. \E z \in S : \A y \in S : z >= y
  BY <1>4, <1>5
<1>. QED
  BY <1>6, Zenon DEF Max

---------------------------------------------------------------------------------
(* The queue *)

IsQueue(q) == DOMAIN q = DOMAIN NoCopies /\ QueueOK(q, Msgs, Heights)

AllCopies(q) == DOMAIN q.main \cup DOMAIN q.held \cup DOMAIN q.unprofitable

\* From q to r, no copy appears but those in `new`, and none of what is held is given up
\* but one of each of those in `freed`.
Moved(q, r, new, freed) ==
  /\ IsQueue(r) /\ AllCopies(r) \subseteq AllCopies(q) \cup new
  /\ \A x : CopiesOf(x, r.held) >= CopiesOf(x, q.held) - (IF x \in freed THEN 1 ELSE 0)

\* The parts of a queue.
LEMMA QueueParts ==
  /\ DOMAIN NoCopies = {"main", "held", "unprofitable"}
  /\ \A q : IsQueue(q) <=>
       /\ DOMAIN q = {"main", "held", "unprofitable"}
       /\ IsABag(q.main) /\ DOMAIN q.main \subseteq Copy(Msgs, Heights)
       /\ IsABag(q.held) /\ DOMAIN q.held \subseteq Copy(Msgs, Heights)
       /\ IsABag(q.unprofitable) /\ DOMAIN q.unprofitable \subseteq Copy(Msgs, Heights)
<1>1. DOMAIN NoCopies = {"main", "held", "unprofitable"}
  BY DEF NoCopies
<1>. QED
  BY <1>1 DEF IsQueue, QueueOK, BagToSet

\* How many there are is a number.
LEMMA CopiesNat ==
  ASSUME NEW B, IsABag(B)
  PROVE  \A x : CopiesOf(x, B) \in Nat /\ (x \in DOMAIN B <=> CopiesOf(x, B) > 0)
BY DEF CopiesOf, IsABag

\* What is live in the queue is what lies in one of its three bags.
LEMMA LiveCopiesOf ==
  ASSUME NEW q, IsQueue(q)
  PROVE  BagToSet(Live(q)) = AllCopies(q)
<1>1. /\ IsABag(q.main) /\ IsABag(q.held) /\ IsABag(q.unprofitable)
  BY QueueParts
<1>2. IsABag(q.main (+) q.held) /\ DOMAIN (q.main (+) q.held) = DOMAIN q.main \cup DOMAIN q.held
  BY <1>1, BagSum
<1>3. DOMAIN ((q.main (+) q.held) (+) q.unprofitable)
        = (DOMAIN q.main \cup DOMAIN q.held) \cup DOMAIN q.unprofitable
  BY <1>1, <1>2, BagSum
<1>. QED
  BY <1>3 DEF Live, AllCopies, BagToSet

\* The queue as Init has it.
LEMMA EmptyQueue == IsQueue(NoCopies) /\ AllCopies(NoCopies) = {}
<1>1. /\ NoCopies.main = EmptyBag /\ NoCopies.held = EmptyBag /\ NoCopies.unprofitable = EmptyBag
  BY DEF NoCopies
<1>2. IsABag(EmptyBag) /\ DOMAIN EmptyBag = {}
  BY BagNone
<1>3. IsQueue(NoCopies)
  BY <1>1, <1>2, QueueParts
<1>. QED
  BY <1>1, <1>2, <1>3 DEF AllCopies

\* Publishing adds a copy to one of the queues.
LEMMA PublishMoves ==
  ASSUME NEW q, IsQueue(q), NEW c \in Copy(Msgs, Heights)
  PROVE  Moved(q, Publish(q, c), {c}, {}) /\ Moved(q, PublishUnprofitable(q, c), {c}, {})
<1>. DEFINE r == Publish(q, c)
            u == PublishUnprofitable(q, c)
<1>0. /\ DOMAIN q = {"main", "held", "unprofitable"}
      /\ IsABag(q.main) /\ DOMAIN q.main \subseteq Copy(Msgs, Heights)
      /\ IsABag(q.held) /\ DOMAIN q.held \subseteq Copy(Msgs, Heights)
      /\ IsABag(q.unprofitable) /\ DOMAIN q.unprofitable \subseteq Copy(Msgs, Heights)
  BY QueueParts
<1>1. /\ DOMAIN r = {"main", "held", "unprofitable"}
      /\ r.main = q.main (+) SetToBag({c}) /\ r.held = q.held /\ r.unprofitable = q.unprofitable
  BY <1>0 DEF Publish
<1>2. /\ DOMAIN u = {"main", "held", "unprofitable"}
      /\ u.unprofitable = q.unprofitable (+) SetToBag({c}) /\ u.held = q.held /\ u.main = q.main
  BY <1>0 DEF PublishUnprofitable
<1>. HIDE DEF r, u
<1>3. IsABag(r.main) /\ DOMAIN r.main = DOMAIN q.main \cup {c}
  <2>1. IsABag(q.main)
    BY <1>0
  <2>2. /\ IsABag(q.main (+) SetToBag({c}))
        /\ DOMAIN (q.main (+) SetToBag({c})) = DOMAIN q.main \cup {c}
    BY <2>1, BagPlus
  <2>. QED
    BY <1>1, <2>2
<1>4. IsABag(u.unprofitable) /\ DOMAIN u.unprofitable = DOMAIN q.unprofitable \cup {c}
  <2>1. IsABag(q.unprofitable)
    BY <1>0
  <2>2. /\ IsABag(q.unprofitable (+) SetToBag({c}))
        /\ DOMAIN (q.unprofitable (+) SetToBag({c})) = DOMAIN q.unprofitable \cup {c}
    BY <2>1, BagPlus
  <2>. QED
    BY <1>2, <2>2
<1>5. IsQueue(r)
  BY <1>0, <1>1, <1>3, QueueParts
<1>6. IsQueue(u)
  BY <1>0, <1>2, <1>4, QueueParts
<1>7. \A x : CopiesOf(x, q.held) >= CopiesOf(x, q.held) - (IF x \in {} THEN 1 ELSE 0)
  BY <1>0, CopiesNat
<1>8. AllCopies(r) \subseteq AllCopies(q) \cup {c} /\ AllCopies(u) \subseteq AllCopies(q) \cup {c}
  BY <1>1, <1>2, <1>3, <1>4 DEF AllCopies
<1>9. Moved(q, r, {c}, {}) /\ Moved(q, u, {c}, {})
  BY <1>1, <1>2, <1>5, <1>6, <1>7, <1>8 DEF Moved
<1>. QED
  BY <1>9 DEF r, u

\* An acknowledgement removes one delivery and nothing else.
LEMMA AckMoves ==
  ASSUME NEW q, IsQueue(q), NEW c
  PROVE  Moved(q, Ack(q, c), {}, {c}) /\ Ack(q, c).main = q.main
<1>. DEFINE r == Ack(q, c)
<1>0. /\ DOMAIN q = {"main", "held", "unprofitable"}
      /\ IsABag(q.main) /\ DOMAIN q.main \subseteq Copy(Msgs, Heights)
      /\ IsABag(q.held) /\ DOMAIN q.held \subseteq Copy(Msgs, Heights)
      /\ IsABag(q.unprofitable) /\ DOMAIN q.unprofitable \subseteq Copy(Msgs, Heights)
  BY QueueParts
<1>1. /\ DOMAIN r = {"main", "held", "unprofitable"}
      /\ r.main = q.main /\ r.held = q.held (-) SetToBag({c}) /\ r.unprofitable = q.unprofitable
  BY <1>0 DEF Ack
<1>. HIDE DEF r
<1>2. /\ IsABag(r.held) /\ DOMAIN r.held \subseteq DOMAIN q.held
      /\ \A x : CopiesOf(x, r.held) = IF x = c /\ CopiesOf(x, q.held) > 0
                                      THEN CopiesOf(x, q.held) - 1 ELSE CopiesOf(x, q.held)
  <2>1. IsABag(q.held)
    BY <1>0
  <2>. DEFINE M == q.held (-) SetToBag({c})
  <2>2. /\ IsABag(M) /\ DOMAIN M \subseteq DOMAIN q.held
        /\ \A x : CopiesOf(x, M) = IF x = c /\ CopiesOf(x, q.held) > 0
                                   THEN CopiesOf(x, q.held) - 1 ELSE CopiesOf(x, q.held)
    BY <2>1, BagMinus
  <2>. HIDE DEF M
  <2>. QED
    BY <1>1, <2>2 DEF M
<1>3. IsQueue(r)
  BY <1>0, <1>1, <1>2, QueueParts
<1>4. \A x : CopiesOf(x, r.held) >= CopiesOf(x, q.held) - (IF x \in {c} THEN 1 ELSE 0)
  <2>. TAKE x
  <2>1. CopiesOf(x, q.held) \in Nat
    BY <1>0, CopiesNat
  <2>2. CopiesOf(x, r.held) = IF x = c /\ CopiesOf(x, q.held) > 0
                              THEN CopiesOf(x, q.held) - 1 ELSE CopiesOf(x, q.held)
    BY <1>2
  <2>. QED
    BY <2>1, <2>2
<1>5. AllCopies(r) \subseteq AllCopies(q) \cup {}
  BY <1>1, <1>2 DEF AllCopies
<1>6. Moved(q, r, {}, {c})
  BY <1>3, <1>4, <1>5 DEF Moved
<1>. QED
  BY <1>1, <1>6 DEF r

\* Nack with requeue moves a delivery back to its queue.
LEMMA RequeueMoves ==
  ASSUME NEW q, IsQueue(q), NEW c \in Copy(Msgs, Heights)
  PROVE  Moved(q, Requeue(q, c), {c}, {c})
<1>. DEFINE a == Ack(q, c)
<1>1. Moved(q, a, {}, {c}) /\ IsQueue(a)
  BY AckMoves DEF Moved
<1>. HIDE DEF a
<1>2. Moved(a, Publish(a, c), {c}, {})
  BY <1>1, PublishMoves
<1>3. (Publish(a, c)).held = a.held
  BY <1>1, QueueParts DEF Publish
<1>. DEFINE r == Publish(a, c)
<1>4. /\ IsQueue(r) /\ AllCopies(r) \subseteq AllCopies(q) \cup {c}
      /\ \A x : CopiesOf(x, r.held) >= CopiesOf(x, q.held) - (IF x \in {c} THEN 1 ELSE 0)
  BY <1>1, <1>2, <1>3 DEF Moved
<1>. QED
  BY <1>4 DEF Moved, Requeue, a

\* A delivery is held once more.
LEMMA DeliverMoves ==
  ASSUME NEW q, IsQueue(q), NEW c \in DOMAIN q.main
  PROVE  /\ Moved(q, Deliver(q, c), {}, {})
         /\ CopiesOf(c, Deliver(q, c).held) = CopiesOf(c, q.held) + 1
         /\ Moved(q, Ack(Deliver(q, c), c), {}, {})
<1>. DEFINE r == Deliver(q, c)
<1>0. /\ DOMAIN q = {"main", "held", "unprofitable"}
      /\ IsABag(q.main) /\ DOMAIN q.main \subseteq Copy(Msgs, Heights)
      /\ IsABag(q.held) /\ DOMAIN q.held \subseteq Copy(Msgs, Heights)
      /\ IsABag(q.unprofitable) /\ DOMAIN q.unprofitable \subseteq Copy(Msgs, Heights)
  BY QueueParts
<1>1. /\ DOMAIN r = {"main", "held", "unprofitable"} /\ r.unprofitable = q.unprofitable
      /\ r.main = q.main (-) SetToBag({c}) /\ r.held = q.held (+) SetToBag({c})
  BY <1>0 DEF Deliver
<1>. HIDE DEF r
<1>2. IsABag(r.main) /\ DOMAIN r.main \subseteq DOMAIN q.main
  BY <1>0, <1>1, BagMinus
<1>3. /\ IsABag(r.held) /\ DOMAIN r.held = DOMAIN q.held \cup {c}
      /\ \A x : CopiesOf(x, r.held) = IF x = c THEN CopiesOf(x, q.held) + 1 ELSE CopiesOf(x, q.held)
  <2>1. IsABag(q.held)
    BY <1>0
  <2>. DEFINE P == q.held (+) SetToBag({c})
  <2>2. /\ IsABag(P) /\ DOMAIN P = DOMAIN q.held \cup {c}
        /\ \A x : CopiesOf(x, P) = IF x = c THEN CopiesOf(x, q.held) + 1 ELSE CopiesOf(x, q.held)
    BY <2>1, BagPlus
  <2>. HIDE DEF P
  <2>. QED
    BY <1>1, <2>2 DEF P
<1>4. IsQueue(r)
  BY <1>0, <1>1, <1>2, <1>3, QueueParts
<1>5. AllCopies(r) \subseteq AllCopies(q) \cup {}
  BY <1>1, <1>2, <1>3 DEF AllCopies
<1>6. \A x : CopiesOf(x, q.held) \in Nat
  BY <1>0, CopiesNat
<1>7. \A x : CopiesOf(x, r.held) >= CopiesOf(x, q.held) - (IF x \in {} THEN 1 ELSE 0)
  BY <1>3, <1>6
<1>8. Moved(q, r, {}, {}) /\ CopiesOf(c, r.held) = CopiesOf(c, q.held) + 1
  BY <1>3, <1>4, <1>5, <1>7 DEF Moved
<1>. DEFINE a == Ack(r, c)
<1>9. Moved(r, a, {}, {c})
  BY <1>4, AckMoves
<1>. HIDE DEF a
<1>10. \A x : CopiesOf(x, a.held) >= CopiesOf(x, q.held) - (IF x \in {} THEN 1 ELSE 0)
  <2>. TAKE x
  <2>1. CopiesOf(x, a.held) >= CopiesOf(x, r.held) - (IF x \in {c} THEN 1 ELSE 0)
    BY <1>9 DEF Moved
  <2>2. CopiesOf(x, r.held) = IF x = c THEN CopiesOf(x, q.held) + 1 ELSE CopiesOf(x, q.held)
    BY <1>3
  <2>3. CopiesOf(x, q.held) \in Nat /\ CopiesOf(x, a.held) \in Nat
    BY <1>6, <1>9, QueueParts, CopiesNat DEF Moved
  <2>. QED
    BY <2>1, <2>2, <2>3
<1>11. Moved(q, a, {}, {})
  BY <1>5, <1>9, <1>10 DEF Moved
<1>. QED
  BY <1>8, <1>11 DEF r, a

\* A copy whose TTL ran out is dead-lettered to the main queue.
LEMMA ExpireMoves ==
  ASSUME NEW q, IsQueue(q), NEW c \in DOMAIN q.unprofitable
  PROVE  Moved(q, Expire(q, c), {}, {})
<1>. DEFINE r == Expire(q, c)
<1>0. /\ DOMAIN q = {"main", "held", "unprofitable"}
      /\ IsABag(q.main) /\ DOMAIN q.main \subseteq Copy(Msgs, Heights)
      /\ IsABag(q.held) /\ DOMAIN q.held \subseteq Copy(Msgs, Heights)
      /\ IsABag(q.unprofitable) /\ DOMAIN q.unprofitable \subseteq Copy(Msgs, Heights)
  BY QueueParts
<1>1. /\ DOMAIN r = {"main", "held", "unprofitable"} /\ r.held = q.held
      /\ r.unprofitable = q.unprofitable (-) SetToBag({c}) /\ r.main = q.main (+) SetToBag({c})
  BY <1>0 DEF Expire
<1>. HIDE DEF r
<1>2. IsABag(r.unprofitable) /\ DOMAIN r.unprofitable \subseteq DOMAIN q.unprofitable
  BY <1>0, <1>1, BagMinus
<1>3. IsABag(r.main) /\ DOMAIN r.main = DOMAIN q.main \cup {c}
  <2>1. IsABag(q.main)
    BY <1>0
  <2>2. /\ IsABag(q.main (+) SetToBag({c}))
        /\ DOMAIN (q.main (+) SetToBag({c})) = DOMAIN q.main \cup {c}
    BY <2>1, BagPlus
  <2>. QED
    BY <1>1, <2>2
<1>4. IsQueue(r)
  BY <1>0, <1>1, <1>2, <1>3, QueueParts
<1>5. AllCopies(r) \subseteq AllCopies(q) \cup {}
  BY <1>1, <1>2, <1>3 DEF AllCopies
<1>6. \A x : CopiesOf(x, q.held) >= CopiesOf(x, q.held) - (IF x \in {} THEN 1 ELSE 0)
  BY <1>0, CopiesNat
<1>7. Moved(q, r, {}, {})
  BY <1>1, <1>4, <1>5, <1>6 DEF Moved
<1>. QED
  BY <1>7 DEF r

\* Nothing is held once the channel is closed.
LEMMA CloseMoves ==
  ASSUME NEW q, IsQueue(q)
  PROVE  IsQueue(CloseChannel(q)) /\ AllCopies(CloseChannel(q)) \subseteq AllCopies(q)
<1>. DEFINE r == CloseChannel(q)
<1>0. /\ DOMAIN q = {"main", "held", "unprofitable"}
      /\ IsABag(q.main) /\ DOMAIN q.main \subseteq Copy(Msgs, Heights)
      /\ IsABag(q.held) /\ DOMAIN q.held \subseteq Copy(Msgs, Heights)
      /\ IsABag(q.unprofitable) /\ DOMAIN q.unprofitable \subseteq Copy(Msgs, Heights)
  BY QueueParts
<1>1. /\ DOMAIN r = {"main", "held", "unprofitable"} /\ r.held = EmptyBag
      /\ r.unprofitable = q.unprofitable /\ r.main = q.main (+) q.held
  BY <1>0 DEF CloseChannel
<1>. HIDE DEF r
<1>2. IsABag(r.main) /\ DOMAIN r.main = DOMAIN q.main \cup DOMAIN q.held
  BY <1>0, <1>1, BagSum
<1>3. IsABag(r.held) /\ DOMAIN r.held = {}
  BY <1>1, BagNone
<1>4. IsQueue(r)
  BY <1>0, <1>1, <1>2, <1>3, QueueParts
<1>5. AllCopies(r) \subseteq AllCopies(q)
  BY <1>1, <1>2, <1>3 DEF AllCopies
<1>. QED
  BY <1>4, <1>5 DEF r

---------------------------------------------------------------------------------
(* The goroutines *)

\* OneGoroutinePerTx and DeliveryHeld of any goroutines and queue.
OwnTx(rn, pr) ==
  /\ \A g, h \in Goroutines :
       rn[g] # Idle /\ rn[h] # Idle /\ g # h => TxOf[rn[g].copy.msg] # TxOf[rn[h].copy.msg]
  /\ \A t : t \in pr <=> \E g \in Goroutines : rn[g] # Idle /\ TxOf[rn[g].copy.msg] = t

Holders(c, rn) == {g \in Goroutines : rn[g] # Idle /\ rn[g].open /\ rn[g].copy = c}
HeldOK(rn, q) ==
  \A c \in Copy(Msgs, Heights) : Cardinality(Holders(c, rn)) <= CopiesOf(c, q.held)

TypeInv == TypeOK /\ IsQueue(queue)

\* What goroutine g gives up when it settles its delivery.
Given(g) == IF run[g].open THEN {run[g].copy} ELSE {}

\* An idle goroutine has no record of work.
LEMMA RunningNotIdle == \A r \in Running : r # Idle
<1>. SUFFICES ASSUME NEW r \in Running, r = Idle PROVE FALSE
  OBVIOUS
<1>1. r.phase \in {"confirming", "syncing", "sending", "updating"}
  BY DEF Running
<1>2. r.phase = "idle"
  BY DEF Idle
<1>. QED
  BY <1>1, <1>2

\* What a goroutine at work holds.
LEMMA BusyFacts ==
  ASSUME TypeInv, NEW g \in Goroutines, Busy(g)
  PROVE  /\ run \in [Goroutines -> Running \cup {Idle}]
         /\ run[g] \in Running /\ run[g].copy \in Copy(Msgs, Heights)
         /\ MsgOf(g) \in Msgs /\ run[g].open \in BOOLEAN /\ run[g].read \in Status
         /\ TxOf[MsgOf(g)] \in Txs
<1>1. run \in [Goroutines -> Running \cup {Idle}]
  BY DEF TypeInv, TypeOK, ProcessorTypeOK
<1>2. run[g] \in Running
  BY <1>1 DEF Busy
<1>3. run[g].copy \in Copy(Msgs, Heights) /\ run[g].open \in BOOLEAN /\ run[g].read \in Status
  BY <1>2 DEF Running
<1>4. MsgOf(g) \in Msgs
  BY <1>3 DEF MsgOf, Copy
<1>5. TxOf[MsgOf(g)] \in Txs
  BY <1>4, RelayAssumption
<1>. QED
  BY <1>1, <1>2, <1>3, <1>4, <1>5

\* What the goroutine settles its delivery with.
LEMMA SettleMoves ==
  ASSUME TypeInv, NEW g \in Goroutines, Busy(g)
  PROVE  /\ Moved(queue, Settle(g, Ack), {}, Given(g))
         /\ Moved(queue, Settle(g, DeadLetter), {}, Given(g))
         /\ Moved(queue, Settle(g, Requeue), {run[g].copy}, Given(g))
         /\ Moved(queue, queue, {}, Given(g))
<1>. DEFINE c == run[g].copy
<1>0. IsQueue(queue) /\ c \in Copy(Msgs, Heights)
  BY BusyFacts DEF TypeInv
<1>1. \A x : CopiesOf(x, queue.held) \in Nat
  BY <1>0, QueueParts, CopiesNat
<1>2. \A new, freed : Moved(queue, queue, new, freed)
  <2>. TAKE new, freed
  <2>1. \A x : CopiesOf(x, queue.held) >= CopiesOf(x, queue.held) - (IF x \in freed THEN 1 ELSE 0)
    BY <1>1
  <2>2. AllCopies(queue) \subseteq AllCopies(queue) \cup new
    OBVIOUS
  <2>. QED
    BY <1>0, <2>1, <2>2 DEF Moved
<1>3. Moved(queue, Ack(queue, c), {}, {c}) /\ Moved(queue, Requeue(queue, c), {c}, {c})
  BY <1>0, AckMoves, RequeueMoves
<1>4. /\ Settle(g, Ack) = IF run[g].open THEN Ack(queue, c) ELSE queue
      /\ Settle(g, DeadLetter) = IF run[g].open THEN Ack(queue, c) ELSE queue
      /\ Settle(g, Requeue) = IF run[g].open THEN Requeue(queue, c) ELSE queue
  BY DEF Settle, DeadLetter
<1>. QED
  BY <1>2, <1>3, <1>4 DEF Given

\* Holders are finitely many.
LEMMA HoldersFinite == \A c, rn : IsFiniteSet(Holders(c, rn)) /\ Cardinality(Holders(c, rn)) \in Nat
<1>. TAKE c, rn
<1>1. Holders(c, rn) \subseteq Goroutines
  BY DEF Holders
<1>2. IsFiniteSet(Holders(c, rn))
  BY <1>1, ProcessorAssumption, FS_Subset
<1>. QED
  BY <1>2, FS_CardinalityType

\* A goroutine that returns leaves the others their transactions and deliveries.
LEMMA ReturnKeeps ==
  ASSUME TypeInv, OwnTx(run, processing), HeldOK(run, queue), NEW g \in Goroutines, Busy(g),
         Return(g), NEW new, Moved(queue, queue', new, Given(g))
  PROVE  /\ run' \in [Goroutines -> Running \cup {Idle}] /\ processing' \subseteq Txs
         /\ OwnTx(run', processing') /\ HeldOK(run', queue')
<1>. DEFINE t == TxOf[MsgOf(g)]
<1>0. /\ run \in [Goroutines -> Running \cup {Idle}] /\ processing \subseteq Txs
      /\ run' = [run EXCEPT ![g] = Idle] /\ processing' = processing \ {t}
  BY DEF TypeInv, TypeOK, ProcessorTypeOK, Return
<1>1. /\ run' \in [Goroutines -> Running \cup {Idle}] /\ run'[g] = Idle
      /\ \A h \in Goroutines \ {g} : run'[h] = run[h]
  BY <1>0
<1>2. OwnTx(run', processing')
  <2>1. \A h \in Goroutines : run'[h] # Idle => h # g /\ run'[h] = run[h]
    BY <1>1
  <2>2. \A h \in Goroutines : run[h] # Idle /\ h # g => TxOf[run[h].copy.msg] # t
    BY DEF OwnTx, Busy, MsgOf
  <2>3. \A a, h \in Goroutines :
          run'[a] # Idle /\ run'[h] # Idle /\ a # h => TxOf[run'[a].copy.msg] # TxOf[run'[h].copy.msg]
    BY <2>1 DEF OwnTx
  <2>4. ASSUME NEW x
        PROVE  x \in processing' <=> \E h \in Goroutines : run'[h] # Idle /\ TxOf[run'[h].copy.msg] = x
    <3>1. ASSUME x \in processing'
          PROVE  \E h \in Goroutines : run'[h] # Idle /\ TxOf[run'[h].copy.msg] = x
      <4>1. x \in processing /\ x # t
        BY <1>0, <3>1
      <4>2. PICK h \in Goroutines : run[h] # Idle /\ TxOf[run[h].copy.msg] = x
        BY <4>1 DEF OwnTx
      <4>3. h # g
        BY <4>1, <4>2 DEF MsgOf
      <4>. QED
        BY <1>1, <4>2, <4>3
    <3>2. ASSUME NEW h \in Goroutines, run'[h] # Idle, TxOf[run'[h].copy.msg] = x
          PROVE  x \in processing'
      <4>1. h # g /\ run'[h] = run[h]
        BY <2>1, <3>2
      <4>2. x \in processing
        BY <3>2, <4>1 DEF OwnTx
      <4>3. x # t
        BY <2>2, <3>2, <4>1
      <4>. QED
        BY <1>0, <4>2, <4>3
    <3>. QED
      BY <3>1, <3>2
  <2>. QED
    BY <2>3, <2>4 DEF OwnTx
<1>3. ASSUME NEW c \in Copy(Msgs, Heights)
      PROVE  Cardinality(Holders(c, run')) <= CopiesOf(c, queue'.held)
  <2>1. /\ CopiesOf(c, queue'.held) >= CopiesOf(c, queue.held) - (IF c \in Given(g) THEN 1 ELSE 0)
        /\ CopiesOf(c, queue'.held) \in Nat /\ CopiesOf(c, queue.held) \in Nat
    BY QueueParts, CopiesNat DEF Moved, TypeInv
  <2>2. Cardinality(Holders(c, run)) <= CopiesOf(c, queue.held)
    BY DEF HeldOK
  <2>3. Holders(c, run') = Holders(c, run) \ {g}
    BY <1>1 DEF Holders
  <2>4. IsFiniteSet(Holders(c, run)) /\ Cardinality(Holders(c, run)) \in Nat
    BY HoldersFinite
  <2>5. Cardinality(Holders(c, run')) =
          IF g \in Holders(c, run) THEN Cardinality(Holders(c, run)) - 1 ELSE Cardinality(Holders(c, run))
    BY <2>3, <2>4, FS_RemoveElement
  <2>6. c \in Given(g) => g \in Holders(c, run)
    BY DEF Given, Holders, Busy
  <2>. QED
    BY <2>1, <2>2, <2>4, <2>5, <2>6
<1>. QED
  BY <1>0, <1>1, <1>2, <1>3 DEF HeldOK

\* A goroutine that goes on keeps what it works on.
LEMMA AdvanceKeeps ==
  ASSUME TypeInv, OwnTx(run, processing), HeldOK(run, queue), NEW g \in Goroutines, Busy(g),
         NEW r \in Running, r.copy = run[g].copy, r.open = run[g].open,
         run' = [run EXCEPT ![g] = r], processing' = processing, queue' = queue
  PROVE  /\ run' \in [Goroutines -> Running \cup {Idle}] /\ processing' \subseteq Txs
         /\ OwnTx(run', processing') /\ HeldOK(run', queue')
<1>0. /\ run \in [Goroutines -> Running \cup {Idle}] /\ processing \subseteq Txs
  BY DEF TypeInv, TypeOK, ProcessorTypeOK
<1>1. run[g] # Idle /\ r # Idle
  BY RunningNotIdle DEF Busy
<1>2. /\ run' \in [Goroutines -> Running \cup {Idle}]
      /\ \A h \in Goroutines : /\ run'[h] # Idle <=> run[h] # Idle
                               /\ run'[h].copy = run[h].copy /\ run'[h].open = run[h].open
  BY <1>0, <1>1
<1>3. OwnTx(run', processing')
  BY <1>2 DEF OwnTx
<1>4. \A c : Holders(c, run') = Holders(c, run)
  BY <1>2 DEF Holders
<1>5. HeldOK(run', queue')
  BY <1>4 DEF HeldOK
<1>. QED
  BY <1>0, <1>2, <1>3, <1>5

\* A goroutine that starts has its transaction and its delivery to itself.
LEMMA StartKeeps ==
  ASSUME TypeInv, OwnTx(run, processing), HeldOK(run, queue), NEW g \in Goroutines, ~Busy(g),
         NEW c \in DOMAIN queue.main, TxOf[c.msg] \notin processing,
         run' = [run EXCEPT ![g] = Begun(c)], processing' = processing \cup {TxOf[c.msg]},
         queue' = Deliver(queue, c)
  PROVE  /\ run' \in [Goroutines -> Running \cup {Idle}] /\ processing' \subseteq Txs
         /\ OwnTx(run', processing') /\ HeldOK(run', queue')
<1>. DEFINE t == TxOf[c.msg]
            r == Begun(c)
<1>0. /\ run \in [Goroutines -> Running \cup {Idle}] /\ processing \subseteq Txs /\ IsQueue(queue)
      /\ c \in Copy(Msgs, Heights) /\ run[g] = Idle
  BY QueueParts DEF TypeInv, TypeOK, ProcessorTypeOK, Busy
<1>1. r \in Running /\ r.copy = c /\ r.open
  BY <1>0, RelayAssumption DEF Begun, Running, Status, Heights
<1>2. t \in Txs
  BY <1>0, RelayAssumption DEF Copy
<1>a. run' = [run EXCEPT ![g] = r]
  OBVIOUS
<1>. HIDE DEF r
<1>3. /\ run' \in [Goroutines -> Running \cup {Idle}] /\ run'[g] = r /\ r # Idle
      /\ \A h \in Goroutines \ {g} : run'[h] = run[h]
  BY <1>0, <1>1, <1>a, RunningNotIdle
<1>4. OwnTx(run', processing')
  <2>1. \A h \in Goroutines : run[h] # Idle => TxOf[run[h].copy.msg] # t /\ h # g
    BY <1>0 DEF OwnTx
  <2>2. \A h \in Goroutines : run'[h] # Idle => h = g \/ (h # g /\ run'[h] = run[h] /\ run[h] # Idle)
    BY <1>3
  <2>3. \A a, h \in Goroutines :
          run'[a] # Idle /\ run'[h] # Idle /\ a # h => TxOf[run'[a].copy.msg] # TxOf[run'[h].copy.msg]
    BY <1>1, <1>3, <2>1, <2>2 DEF OwnTx
  <2>4. ASSUME NEW x
        PROVE  x \in processing' <=> \E h \in Goroutines : run'[h] # Idle /\ TxOf[run'[h].copy.msg] = x
    <3>1. ASSUME x \in processing'
          PROVE  \E h \in Goroutines : run'[h] # Idle /\ TxOf[run'[h].copy.msg] = x
      <4>1. CASE x = t
        BY <1>1, <1>3, <4>1
      <4>2. CASE x \in processing
        <5>1. PICK h \in Goroutines : run[h] # Idle /\ TxOf[run[h].copy.msg] = x
          BY <4>2 DEF OwnTx
        <5>. QED
          BY <1>3, <2>1, <5>1
      <4>. QED
        BY <3>1, <4>1, <4>2
    <3>2. ASSUME NEW h \in Goroutines, run'[h] # Idle, TxOf[run'[h].copy.msg] = x
          PROVE  x \in processing'
      <4>1. CASE h = g
        BY <1>1, <1>3, <3>2, <4>1
      <4>2. CASE h # g
        BY <1>3, <3>2, <4>2 DEF OwnTx
      <4>. QED
        BY <4>1, <4>2
    <3>. QED
      BY <3>1, <3>2
  <2>. QED
    BY <2>3, <2>4 DEF OwnTx
<1>5. ASSUME NEW x \in Copy(Msgs, Heights)
      PROVE  Cardinality(Holders(x, run')) <= CopiesOf(x, queue'.held)
  <2>0. Moved(queue, queue', {}, {}) /\ CopiesOf(c, queue'.held) = CopiesOf(c, queue.held) + 1
    BY <1>0, DeliverMoves
  <2>1. /\ CopiesOf(x, queue'.held) >= CopiesOf(x, queue.held) - (IF x \in {} THEN 1 ELSE 0)
        /\ CopiesOf(x, queue'.held) \in Nat /\ CopiesOf(x, queue.held) \in Nat
    BY <1>0, <2>0, QueueParts, CopiesNat DEF Moved
  <2>2. Cardinality(Holders(x, run)) <= CopiesOf(x, queue.held)
    BY DEF HeldOK
  <2>3. Holders(x, run') = IF x = c THEN Holders(x, run) \cup {g} ELSE Holders(x, run)
    BY <1>0, <1>1, <1>3 DEF Holders
  <2>4. IsFiniteSet(Holders(x, run)) /\ Cardinality(Holders(x, run)) \in Nat
        /\ g \notin Holders(x, run)
    BY <1>0, HoldersFinite DEF Holders
  <2>5. Cardinality(Holders(x, run) \cup {g}) = Cardinality(Holders(x, run)) + 1
    BY <2>4, FS_AddElement
  <2>6. CASE x = c
    <3>1. CopiesOf(x, queue'.held) = CopiesOf(x, queue.held) + 1
      BY <2>0, <2>6
    <3>2. Cardinality(Holders(x, run')) = Cardinality(Holders(x, run)) + 1
      BY <2>3, <2>5, <2>6
    <3>. QED
      BY <2>1, <2>2, <2>4, <3>1, <3>2
  <2>7. CASE x # c
    BY <2>1, <2>2, <2>3, <2>4, <2>7
  <2>. QED
    BY <2>6, <2>7
<1>. QED
  BY <1>0, <1>2, <1>3, <1>4, <1>5 DEF HeldOK

\* The end of the channel takes the deliveries from every goroutine.
LEMMA ChannelKeeps ==
  ASSUME TypeInv, OwnTx(run, processing), ResetChannel
  PROVE  /\ run' \in [Goroutines -> Running \cup {Idle}] /\ processing' \subseteq Txs
         /\ OwnTx(run', processing') /\ HeldOK(run', queue') /\ IsQueue(queue')
<1>0. /\ run \in [Goroutines -> Running \cup {Idle}] /\ processing \subseteq Txs /\ IsQueue(queue)
      /\ run' = [g \in Goroutines |-> IF Busy(g) THEN [run[g] EXCEPT !.open = FALSE] ELSE Idle]
      /\ processing' = processing /\ queue' = CloseChannel(queue)
  BY DEF TypeInv, TypeOK, ProcessorTypeOK, ResetChannel
<1>1. ASSUME NEW g \in Goroutines
      PROVE  /\ run'[g] \in Running \cup {Idle} /\ (run'[g] # Idle <=> run[g] # Idle)
             /\ run'[g] # Idle => run'[g].copy = run[g].copy /\ ~run'[g].open
  <2>1. CASE Busy(g)
    <3>. DEFINE r == [run[g] EXCEPT !.open = FALSE]
    <3>1. run[g] \in Running /\ run'[g] = r /\ run[g] # Idle
      BY <1>0, <2>1 DEF Busy
    <3>2. r \in Running /\ r.copy = run[g].copy /\ ~r.open
      BY <3>1 DEF Running
    <3>. HIDE DEF r
    <3>. QED
      BY <3>1, <3>2, RunningNotIdle
  <2>2. CASE ~Busy(g)
    BY <1>0, <2>2 DEF Busy
  <2>. QED
    BY <2>1, <2>2
<1>2. run' \in [Goroutines -> Running \cup {Idle}]
  <2>1. run' = [g \in Goroutines |-> run'[g]]
    BY <1>0
  <2>. QED
    BY <1>1, <2>1
<1>3. OwnTx(run', processing')
  <2>1. \A g \in Goroutines : run'[g] # Idle <=> run[g] # Idle
    BY <1>1
  <2>2. \A g \in Goroutines : run'[g] # Idle => run'[g].copy.msg = run[g].copy.msg
    BY <1>1
  <2>3. \A g, h \in Goroutines :
          run'[g] # Idle /\ run'[h] # Idle /\ g # h => TxOf[run'[g].copy.msg] # TxOf[run'[h].copy.msg]
    BY <2>1, <2>2 DEF OwnTx
  <2>4. \A t : t \in processing' <=> \E g \in Goroutines : run'[g] # Idle /\ TxOf[run'[g].copy.msg] = t
    BY <1>0, <2>1, <2>2 DEF OwnTx
  <2>. QED
    BY <2>3, <2>4 DEF OwnTx
<1>4. HeldOK(run', queue')
  <2>1. \A c : Holders(c, run') = {}
    BY <1>1 DEF Holders
  <2>2. IsQueue(queue')
    BY <1>0, CloseMoves
  <2>3. \A c : CopiesOf(c, queue'.held) \in Nat
    BY <2>2, QueueParts, CopiesNat
  <2>. QED
    BY <2>1, <2>3, FS_EmptySet DEF HeldOK
<1>. QED
  BY <1>0, <1>2, <1>3, <1>4, CloseMoves

\* After a restart there are none.
LEMMA RestartKeeps ==
  ASSUME TypeInv, RestartProcessor
  PROVE  /\ run' \in [Goroutines -> Running \cup {Idle}] /\ processing' \subseteq Txs
         /\ OwnTx(run', processing') /\ HeldOK(run', queue') /\ IsQueue(queue')
<1>0. /\ run' = [g \in Goroutines |-> Idle] /\ processing' = {} /\ IsQueue(queue')
  BY CloseMoves DEF RestartProcessor, TypeInv
<1>1. \A c : Holders(c, run') = {}
  BY <1>0 DEF Holders
<1>2. \A c : CopiesOf(c, queue'.held) \in Nat
  BY <1>0, QueueParts, CopiesNat
<1>3. HeldOK(run', queue')
  BY <1>1, <1>2, FS_EmptySet DEF HeldOK
<1>4. OwnTx(run', processing')
  BY <1>0 DEF OwnTx
<1>. QED
  BY <1>0, <1>3, <1>4

\* The queue changes under the goroutines, and takes no delivery from them.
LEMMA SameRunKeeps ==
  ASSUME TypeInv, OwnTx(run, processing), HeldOK(run, queue), UNCHANGED processorVars,
         NEW new, Moved(queue, queue', new, {})
  PROVE  /\ run' \in [Goroutines -> Running \cup {Idle}] /\ processing' \subseteq Txs
         /\ OwnTx(run', processing') /\ HeldOK(run', queue')
<1>0. /\ run \in [Goroutines -> Running \cup {Idle}] /\ processing \subseteq Txs /\ IsQueue(queue)
      /\ run' = run /\ processing' = processing
  BY DEF TypeInv, TypeOK, ProcessorTypeOK, processorVars
<1>1. ASSUME NEW c \in Copy(Msgs, Heights)
      PROVE  Cardinality(Holders(c, run')) <= CopiesOf(c, queue'.held)
  <2>1. /\ CopiesOf(c, queue'.held) >= CopiesOf(c, queue.held) - (IF c \in {} THEN 1 ELSE 0)
        /\ CopiesOf(c, queue'.held) \in Nat /\ CopiesOf(c, queue.held) \in Nat
    BY <1>0, QueueParts, CopiesNat DEF Moved
  <2>2. Cardinality(Holders(c, run)) <= CopiesOf(c, queue.held)
    BY DEF HeldOK
  <2>3. Cardinality(Holders(c, run)) \in Nat
    BY HoldersFinite
  <2>. QED
    BY <1>0, <2>1, <2>2, <2>3
<1>. QED
  BY <1>0, <1>1 DEF HeldOK

---------------------------------------------------------------------------------
(* The inductive invariant *)

ChainsOK ==
  /\ height \in Heights /\ synced \in Heights /\ blockOf \in [Msgs -> Heights]
  /\ dest \in [Msgs -> Status] /\ paused \in BOOLEAN /\ cheap \in BOOLEAN

StoreOK ==
  /\ rows \in [Msgs -> Status \cup {"none"}] /\ emitted \in [Msgs -> Heights]
  /\ syncRows \subseteq Heights /\ faults \in 0..MaxFaults

WorkOK(rn, pr, q) ==
  /\ rn \in [Goroutines -> Running \cup {Idle}] /\ pr \subseteq Txs
  /\ OwnTx(rn, pr) /\ HeldOK(rn, q) /\ IsQueue(q)

\* A status that was read is still so, or was only left.
Behind(status, now) ==
  /\ status \in {"Done", "Failed"} => now = status
  /\ status = "Retriable" => now # "New"

\* Neither a row nor a goroutine knows more of a message than the bridge.
RowsOK(rw, dst, rn) ==
  /\ \A m \in Msgs : Behind(rw[m], dst[m])
  /\ \A g \in Goroutines : rn[g] # Idle => Behind(rn[g].read, dst[rn[g].copy.msg])

\* What is queued and what is worked on has a row.
HasRows(rw, q, rn) ==
  /\ \A c \in AllCopies(q) : rw[c.msg] # "none"
  /\ \A g \in Goroutines : rn[g] # Idle => rw[rn[g].copy.msg] # "none"

RelayInv ==
  /\ ChainsOK /\ StoreOK /\ IndexerTypeOK
  /\ WorkOK(run, processing, queue)
  /\ RowsOK(rows, dest, run) /\ HasRows(rows, queue, run)

\* How a step may change what the last two are about: statuses go forward, a row
\* takes a status that was read, a new copy is of a message with a row, and a
\* goroutine starts with a copy from the queue.
Forward == \A m \in Msgs : dest'[m] = dest[m] \/ dest'[m] \in Processed(dest[m])
RowsRead ==
  \A m \in Msgs : rows'[m] = rows[m] \/ (rows'[m] # "none" /\ Behind(rows'[m], dest'[m]))
Evolves ==
  /\ Forward /\ RowsRead
  /\ \A c \in AllCopies(queue') : c \in AllCopies(queue) \/ rows'[c.msg] # "none"
  /\ \A g \in Goroutines : run'[g] # Idle =>
       \/ /\ run[g] # Idle /\ run'[g].copy = run[g].copy
          /\ \/ run'[g].read = run[g].read
             \/ Behind(run'[g].read, dest'[run'[g].copy.msg])
       \/ run'[g].copy \in AllCopies(queue) /\ run'[g].read = "New"

StepOK ==
  /\ (ChainsOK /\ StoreOK /\ IndexerTypeOK)'
  /\ WorkOK(run', processing', queue') /\ Evolves

\* The invariant has the types.
LEMMA InvType == RelayInv => TypeInv
BY DEF RelayInv, TypeInv, TypeOK, WorldTypeOK, ChainsOK, StoreOK, WorkOK, IsQueue, ProcessorTypeOK

\* Statuses go only forward.
LEMMA BehindStays ==
  ASSUME NEW s, NEW d, NEW e, Behind(s, d), e = d \/ e \in Processed(d)
  PROVE  Behind(s, e)
<1>1. CASE e = d
  BY <1>1
<1>2. CASE e \in Processed(d)
  <2>1. CASE d = "New"
    <3>1. e \in {"Done", "Retriable"}
      BY <1>2, <2>1 DEF Processed
    <3>. QED
      BY <2>1, <3>1 DEF Behind
  <2>2. CASE d = "Retriable"
    <3>1. e \in {"Done", "Failed"}
      BY <1>2, <2>2 DEF Processed
    <3>. QED
      BY <2>2, <3>1 DEF Behind
  <2>3. CASE d # "New" /\ d # "Retriable"
    BY <1>2, <2>3 DEF Processed
  <2>. QED
    BY <2>1, <2>2, <2>3
<1>. QED
  BY <1>1, <1>2

\* Copies are of messages.
LEMMA CopyMsg == \A q : IsQueue(q) => \A c \in AllCopies(q) : c \in Copy(Msgs, Heights) /\ c.msg \in Msgs
<1>. SUFFICES ASSUME NEW q, IsQueue(q), NEW c \in AllCopies(q)
              PROVE  c \in Copy(Msgs, Heights) /\ c.msg \in Msgs
  OBVIOUS
<1>1. c \in Copy(Msgs, Heights)
  BY QueueParts DEF AllCopies
<1>. QED
  BY <1>1 DEF Copy

\* A step of one of the kinds that Evolves lists keeps the invariant.
LEMMA EvolvesKeeps ==
  ASSUME RelayInv, StepOK
  PROVE  RelayInv'
<1>0. /\ WorkOK(run, processing, queue) /\ RowsOK(rows, dest, run) /\ HasRows(rows, queue, run)
      /\ WorkOK(run', processing', queue') /\ (ChainsOK /\ StoreOK /\ IndexerTypeOK)' /\ Evolves
  BY DEF RelayInv, StepOK
<1>1. /\ run \in [Goroutines -> Running \cup {Idle}] /\ run' \in [Goroutines -> Running \cup {Idle}]
      /\ IsQueue(queue) /\ IsQueue(queue')
  BY <1>0 DEF WorkOK
<1>2. \A g \in Goroutines : (run[g] # Idle => run[g].copy.msg \in Msgs) /\ (run'[g] # Idle => run'[g].copy.msg \in Msgs)
  BY <1>1 DEF Running, Copy
<1>3. \A m \in Msgs : \A s : Behind(s, dest[m]) => Behind(s, dest'[m])
  BY <1>0, BehindStays DEF Evolves, Forward
<1>4. \A m \in Msgs : rows[m] # "none" => rows'[m] # "none"
  BY <1>0 DEF Evolves, RowsRead
<1>5. RowsOK(rows', dest', run')
  <2>1. ASSUME NEW m \in Msgs PROVE Behind(rows'[m], dest'[m])
    <3>1. Behind(rows[m], dest[m])
      BY <1>0 DEF RowsOK
    <3>2. rows'[m] = rows[m] \/ Behind(rows'[m], dest'[m])
      BY <1>0 DEF Evolves, RowsRead
    <3>. QED
      BY <1>3, <3>1, <3>2
  <2>2. ASSUME NEW g \in Goroutines, run'[g] # Idle
        PROVE  Behind(run'[g].read, dest'[run'[g].copy.msg])
    <3>. DEFINE m == run'[g].copy.msg
    <3>0. m \in Msgs
      BY <1>2, <2>2
    <3>1. CASE run[g] # Idle /\ run'[g].copy = run[g].copy /\ run'[g].read = run[g].read
      <4>1. Behind(run[g].read, dest[run[g].copy.msg])
        BY <1>0, <3>1 DEF RowsOK
      <4>2. Behind(run'[g].read, dest[m])
        BY <3>1, <4>1
      <4>. QED
        BY <1>3, <3>0, <4>2
    <3>2. CASE run'[g].read = "New"
      BY <3>2 DEF Behind
    <3>. QED
      BY <1>0, <2>2, <3>1, <3>2 DEF Evolves
  <2>. QED
    BY <2>1, <2>2 DEF RowsOK
<1>6. HasRows(rows', queue', run')
  <2>1. ASSUME NEW c \in AllCopies(queue') PROVE rows'[c.msg] # "none"
    <3>1. c.msg \in Msgs
      BY <1>1, CopyMsg
    <3>2. c \in AllCopies(queue) => rows[c.msg] # "none"
      BY <1>0 DEF HasRows
    <3>. QED
      BY <1>0, <1>4, <3>1, <3>2 DEF Evolves
  <2>2. ASSUME NEW g \in Goroutines, run'[g] # Idle
        PROVE  rows'[run'[g].copy.msg] # "none"
    <3>0. run'[g].copy.msg \in Msgs
      BY <1>2, <2>2
    <3>1. run[g] # Idle => rows[run[g].copy.msg] # "none"
      BY <1>0 DEF HasRows
    <3>2. run'[g].copy \in AllCopies(queue) => rows[run'[g].copy.msg] # "none"
      BY <1>0 DEF HasRows
    <3>3. (run[g] # Idle /\ run'[g].copy = run[g].copy) \/ run'[g].copy \in AllCopies(queue)
      BY <1>0, <2>2 DEF Evolves
    <3>. QED
      BY <1>4, <3>0, <3>1, <3>2, <3>3
  <2>. QED
    BY <2>1, <2>2 DEF HasRows
<1>. QED
  BY <1>0, <1>5, <1>6 DEF RelayInv

---------------------------------------------------------------------------------
(* Kinds of steps *)

\* The parts of the invariant that the steps use.
LEMMA InvParts ==
  RelayInv => /\ TypeInv /\ IsQueue(queue) /\ OwnTx(run, processing) /\ HeldOK(run, queue)
              /\ run \in [Goroutines -> Running \cup {Idle}]
              /\ RowsOK(rows, dest, run) /\ HasRows(rows, queue, run)
BY InvType DEF RelayInv, WorkOK

\* A step of the chains or the indexers, which leaves the goroutines alone.
LEMMA OutsideSteps ==
  ASSUME RelayInv, UNCHANGED processorVars, Forward, RowsRead,
         NEW new, Moved(queue, queue', new, {}), \A c \in new : rows'[c.msg] # "none"
  PROVE  WorkOK(run', processing', queue') /\ Evolves
<1>1. WorkOK(run', processing', queue')
  BY InvParts, SameRunKeeps DEF WorkOK, Moved
<1>2. \A c \in AllCopies(queue') : c \in AllCopies(queue) \/ rows'[c.msg] # "none"
  BY DEF Moved
<1>. QED
  BY <1>1, <1>2 DEF Evolves, processorVars

\* A step that touches neither the queue nor a goroutine.
LEMMA UnmovedSteps ==
  ASSUME RelayInv, UNCHANGED <<queue, processorVars>>, Forward, RowsRead
  PROVE  WorkOK(run', processing', queue') /\ Evolves
<1>1. IsQueue(queue) /\ queue' = queue
  BY InvParts
<1>2. \A x : CopiesOf(x, queue.held) \in Nat
  BY <1>1, QueueParts, CopiesNat
<1>3. \A x : CopiesOf(x, queue.held) >= CopiesOf(x, queue.held) - (IF x \in {} THEN 1 ELSE 0)
  BY <1>2
<1>4. Moved(queue, queue', {}, {})
  BY <1>1, <1>3 DEF Moved
<1>5. UNCHANGED processorVars /\ \A c \in {} : rows'[c.msg] # "none"
  OBVIOUS
<1>. QED
  BY <1>4, <1>5, OutsideSteps

\* A goroutine is done with its copy.
LEMMA ReturnSteps ==
  ASSUME RelayInv, NEW g \in Goroutines, Busy(g), Return(g), dest' = dest, RowsRead,
         NEW new, Moved(queue, queue', new, Given(g)), \A c \in new : c.msg = MsgOf(g)
  PROVE  WorkOK(run', processing', queue') /\ Evolves
<1>1. WorkOK(run', processing', queue')
  BY InvParts, ReturnKeeps DEF WorkOK, Moved
<1>2. /\ run' = [run EXCEPT ![g] = Idle] /\ MsgOf(g) \in Msgs
      /\ run \in [Goroutines -> Running \cup {Idle}]
  BY InvParts, BusyFacts DEF Return
<1>3. \A h \in Goroutines : run'[h] # Idle => run'[h] = run[h]
  BY <1>2
<1>4. rows'[MsgOf(g)] # "none"
  <2>1. rows[MsgOf(g)] # "none"
    BY InvParts DEF HasRows, Busy, MsgOf
  <2>. QED
    BY <1>2, <2>1 DEF RowsRead
<1>5. \A c \in AllCopies(queue') : c \in AllCopies(queue) \/ rows'[c.msg] # "none"
  BY <1>4 DEF Moved
<1>6. Forward
  BY DEF Forward
<1>. QED
  BY <1>1, <1>3, <1>5, <1>6 DEF Evolves

\* A goroutine goes on.
LEMMA AdvanceSteps ==
  ASSUME RelayInv, NEW g \in Goroutines, Busy(g), Forward, UNCHANGED <<rows, queue, processing>>,
         NEW r \in Running, r.copy = run[g].copy, r.open = run[g].open,
         run' = [run EXCEPT ![g] = r],
         r.read = run[g].read \/ Behind(r.read, dest'[MsgOf(g)])
  PROVE  WorkOK(run', processing', queue') /\ Evolves
<1>1. WorkOK(run', processing', queue')
  <2>1. IsQueue(queue')
    BY InvParts
  <2>2. /\ run' \in [Goroutines -> Running \cup {Idle}] /\ processing' \subseteq Txs
        /\ OwnTx(run', processing') /\ HeldOK(run', queue')
    BY InvParts, AdvanceKeeps
  <2>. QED
    BY <2>1, <2>2 DEF WorkOK
<1>2. \A h \in Goroutines : h # g => run'[h] = run[h]
  BY InvParts
<1>3. run'[g] = r
  BY InvParts
<1>4. ASSUME NEW h \in Goroutines, run'[h] # Idle
      PROVE  /\ run[h] # Idle /\ run'[h].copy = run[h].copy
             /\ run'[h].read = run[h].read \/ Behind(run'[h].read, dest'[run'[h].copy.msg])
  <2>1. CASE h = g
    BY <1>3, <2>1 DEF Busy, MsgOf
  <2>2. CASE h # g
    BY <1>2, <1>4, <2>2
  <2>. QED
    BY <2>1, <2>2
<1>5. RowsRead /\ \A c \in AllCopies(queue') : c \in AllCopies(queue)
  BY DEF RowsRead
<1>. QED
  BY <1>1, <1>4, <1>5 DEF Evolves

\* A copy the queue had is delivered, and a goroutine starts or none does.
LEMMA TakeSteps ==
  ASSUME RelayInv, Take
  PROVE  WorkOK(run', processing', queue') /\ Evolves
<1>1. PICK c \in BagToSet(queue.main) : TakeRejected(c) \/ TakeNothingToDo(c) \/ TakeToProcess(c)
  BY DEF Take
<1>2. c \in DOMAIN queue.main /\ IsQueue(queue) /\ c \in AllCopies(queue)
  BY <1>1, InvParts DEF BagToSet, AllCopies
<1>3. rows' = rows /\ dest' = dest /\ Forward /\ RowsRead
  <2>1. rows' = rows /\ dest' = dest
    BY DEF Take, chains
  <2>. QED
    BY <2>1 DEF Forward, RowsRead
<1>4. CASE TakeRejected(c) \/ TakeNothingToDo(c)
  <2>1. queue' = Ack(Deliver(queue, c), c) /\ UNCHANGED processorVars
    BY <1>4 DEF TakeRejected, TakeNothingToDo, DeadLetter, processorVars
  <2>2. Moved(queue, queue', {}, {}) /\ \A x \in {} : rows'[x.msg] # "none"
    BY <1>2, <2>1, DeliverMoves
  <2>. QED
    BY <1>3, <2>1, <2>2, OutsideSteps
<1>5. CASE TakeToProcess(c)
  <2>1. PICK g \in Goroutines : ~Busy(g) /\ run' = [run EXCEPT ![g] = Begun(c)]
    BY <1>5 DEF TakeToProcess
  <2>2. /\ TxOf[c.msg] \notin processing /\ processing' = processing \cup {TxOf[c.msg]}
        /\ queue' = Deliver(queue, c)
    BY <1>5 DEF TakeToProcess
  <2>3. Moved(queue, queue', {}, {})
    BY <1>2, <2>2, DeliverMoves
  <2>4. WorkOK(run', processing', queue')
    BY <1>2, <2>1, <2>2, <2>3, InvParts, StartKeeps DEF WorkOK, Moved
  <2>5. Begun(c).copy = c /\ Begun(c).read = "New"
    BY DEF Begun
  <2>6. \A h \in Goroutines : run'[h] = IF h = g THEN Begun(c) ELSE run[h]
    BY <2>1, InvParts
  <2>7. \A h \in Goroutines : run'[h] # Idle =>
          \/ run[h] # Idle /\ run'[h].copy = run[h].copy /\ run'[h].read = run[h].read
          \/ run'[h].copy \in AllCopies(queue) /\ run'[h].read = "New"
    BY <1>2, <2>5, <2>6
  <2>8. \A x \in AllCopies(queue') : x \in AllCopies(queue)
    BY <2>3 DEF Moved
  <2>. QED
    BY <1>3, <2>4, <2>7, <2>8 DEF Evolves
<1>. QED
  BY <1>1, <1>4, <1>5

\* The channel ends, or the processor.
LEMMA ResetSteps ==
  ASSUME RelayInv, ResetChannel \/ RestartProcessor
  PROVE  WorkOK(run', processing', queue') /\ Evolves
<1>1. WorkOK(run', processing', queue')
  BY InvParts, ChannelKeeps, RestartKeeps DEF WorkOK
<1>2. /\ queue' = CloseChannel(queue) /\ rows' = rows /\ dest' = dest
  BY DEF ResetChannel, RestartProcessor, chains
<1>3. Forward /\ RowsRead
  BY <1>2 DEF Forward, RowsRead
<1>4. \A c \in AllCopies(queue') : c \in AllCopies(queue)
  BY <1>2, InvParts, CloseMoves
<1>5. ASSUME NEW h \in Goroutines, run'[h] # Idle
      PROVE  run[h] # Idle /\ run'[h].copy = run[h].copy /\ run'[h].read = run[h].read
  <2>1. ResetChannel
    BY <1>5 DEF RestartProcessor
  <2>2. run' = [g \in Goroutines |-> IF Busy(g) THEN [run[g] EXCEPT !.open = FALSE] ELSE Idle]
    BY <2>1 DEF ResetChannel
  <2>3. Busy(h) /\ run'[h] = [run[h] EXCEPT !.open = FALSE] /\ run[h] \in Running
    BY <1>5, <2>2, InvParts DEF Busy
  <2>. QED
    BY <2>3 DEF Busy, Running
<1>. QED
  BY <1>1, <1>3, <1>4, <1>5 DEF Evolves

---------------------------------------------------------------------------------
(* Every step is of one of these kinds *)

\* Faults are counted.
LEMMA FaultKeeps == StoreOK /\ Fault => faults' \in 0..MaxFaults
BY RelayAssumption DEF StoreOK, Fault

\* Steps of the chains, users and other relayers: statuses go forward.
LEMMA WorldSteps ==
  ASSUME RelayInv, WorldNext, UNCHANGED <<indexerVars, processorVars>>
  PROVE  StepOK
<1>0. /\ ChainsOK /\ StoreOK /\ IndexerTypeOK /\ MaxHeight \in Nat /\ Confirmations \in Nat
      /\ IndexerTypeOK' /\ UNCHANGED processorVars
  BY RelayAssumption DEF RelayInv, IndexerTypeOK, indexerVars, Heights, Event
<1>1. CASE MineBlock
  <2>1. height' \in Heights
    BY <1>0, <1>1 DEF MineBlock, ChainsOK, Heights
  <2>2. blockOf' \in [Msgs -> Heights]
    BY <1>0, <1>1, <2>1 DEF MineBlock, ChainsOK
  <2>3. (ChainsOK /\ StoreOK)'
    BY <1>0, <1>1, <2>1, <2>2 DEF MineBlock, ChainsOK, StoreOK, Heights
  <2>4. WorkOK(run', processing', queue') /\ Evolves
    BY <1>0, <1>1, UnmovedSteps DEF MineBlock, Forward, RowsRead
  <2>. QED
    BY <1>0, <2>3, <2>4 DEF StepOK
<1>2. CASE Reorg
  <2>1. height' \in Heights /\ blockOf' \in [Msgs -> Heights]
    BY <1>0, <1>2 DEF Reorg, ChainsOK, Heights
  <2>2. (ChainsOK /\ StoreOK)'
    BY <1>0, <1>2, <2>1, FaultKeeps DEF Reorg, ChainsOK, StoreOK, Heights
  <2>3. WorkOK(run', processing', queue') /\ Evolves
    BY <1>0, <1>2, UnmovedSteps DEF Reorg, Forward, RowsRead
  <2>. QED
    BY <1>0, <2>2, <2>3 DEF StepOK
<1>3. CASE SyncChainData
  <2>1. (ChainsOK /\ StoreOK)'
    BY <1>0, <1>3 DEF SyncChainData, ChainsOK, StoreOK, Heights
  <2>2. WorkOK(run', processing', queue') /\ Evolves
    BY <1>0, <1>3, UnmovedSteps DEF SyncChainData, Forward, RowsRead
  <2>. QED
    BY <1>0, <2>1, <2>2 DEF StepOK
<1>4. CASE \E m \in Msgs : OthersProcess(m)
  <2>0. PICK m \in Msgs : OthersProcess(m)
    BY <1>4
  <2>1. PICK status \in Processed(dest[m]) :
          /\ dest' = [dest EXCEPT ![m] = status]
          /\ UNCHANGED <<height, blockOf, paused, synced, cheap, rows, emitted, syncRows, queue, faults>>
    BY <2>0 DEF OthersProcess
  <2>2. status \in Status
    BY <2>1 DEF Processed, Status
  <2>3. dest \in [Msgs -> Status]
    BY <1>0 DEF ChainsOK
  <2>4. (ChainsOK /\ StoreOK)'
    BY <1>0, <2>1, <2>2 DEF ChainsOK, StoreOK, Heights
  <2>5. Forward
    BY <2>1, <2>3 DEF Forward
  <2>6. WorkOK(run', processing', queue') /\ Evolves
    BY <1>0, <2>1, <2>5, UnmovedSteps DEF RowsRead
  <2>. QED
    BY <1>0, <2>4, <2>6 DEF StepOK
<1>5. CASE PauseBridge \/ UnpauseBridge \/ FeesFall \/ FeesRise
  <2>1. (ChainsOK /\ StoreOK)'
    BY <1>0, <1>5, FaultKeeps DEF PauseBridge, UnpauseBridge, FeesFall, FeesRise, ChainsOK, StoreOK, Heights
  <2>2. WorkOK(run', processing', queue') /\ Evolves
    BY <1>0, <1>5, UnmovedSteps
       DEF PauseBridge, UnpauseBridge, FeesFall, FeesRise, Forward, RowsRead
  <2>. QED
    BY <1>0, <2>1, <2>2 DEF StepOK
<1>6. CASE ExpireUnprofitable
  <2>1. (ChainsOK /\ StoreOK)'
    BY <1>0, <1>6 DEF ExpireUnprofitable, ChainsOK, StoreOK, Heights, chains
  <2>2. PICK c \in BagToSet(queue.unprofitable) : queue' = Expire(queue, c)
    BY <1>6 DEF ExpireUnprofitable
  <2>3. IsQueue(queue) /\ c \in DOMAIN queue.unprofitable
    BY <2>2, InvParts DEF BagToSet
  <2>4. Moved(queue, queue', {}, {}) /\ \A x \in {} : rows'[x.msg] # "none"
    BY <2>2, <2>3, ExpireMoves
  <2>5. Forward /\ RowsRead
    BY <1>6 DEF ExpireUnprofitable, chains, Forward, RowsRead
  <2>6. WorkOK(run', processing', queue') /\ Evolves
    BY <1>0, <2>4, <2>5, OutsideSteps
  <2>. QED
    BY <1>0, <2>1, <2>6 DEF StepOK
<1>. QED
  BY <1>1, <1>2, <1>3, <1>4, <1>5, <1>6 DEF WorldNext

\* The row of an event that was saved.
LEMMA SaveKeeps ==
  ASSUME RelayInv, NEW ev \in Event, NEW crawling \in BOOLEAN, saveEventToDB(ev, crawling),
         dest' = dest
  PROVE  /\ rows' \in [Msgs -> Status \cup {"none"}] /\ emitted' \in [Msgs -> Heights]
         /\ RowsRead /\ rows'[ev.msg] # "none"
<1>0. /\ ev.msg \in Msgs /\ ev.block \in Heights
      /\ rows \in [Msgs -> Status \cup {"none"}] /\ emitted \in [Msgs -> Heights]
      /\ dest \in [Msgs -> Status]
      /\ rows' = [rows EXCEPT ![ev.msg] = RowAfter(ev, crawling)]
  BY DEF RelayInv, ChainsOK, StoreOK, Event, saveEventToDB
<1>1. emitted' \in [Msgs -> Heights]
  BY <1>0 DEF saveEventToDB
<1>2. "none" \notin Status
  BY DEF Status
<1>3. /\ RowAfter(ev, crawling) \in Status
      /\ RowAfter(ev, crawling) = rows[ev.msg] \/ RowAfter(ev, crawling) = dest[ev.msg]
  <2>1. CASE rows[ev.msg] = "none"
    BY <1>0, <2>1 DEF RowAfter
  <2>2. CASE rows[ev.msg] # "none" /\ crawling /\ dest[ev.msg] = "Done"
    <3>1. RowAfter(ev, crawling) = "Done"
      BY <2>2 DEF RowAfter
    <3>. QED
      BY <1>0, <2>2, <3>1
  <2>3. CASE rows[ev.msg] # "none" /\ ~(crawling /\ dest[ev.msg] = "Done")
    <3>1. RowAfter(ev, crawling) = rows[ev.msg]
      BY <2>3 DEF RowAfter
    <3>. QED
      BY <1>0, <2>3, <3>1
  <2>. QED
    BY <2>1, <2>2, <2>3
<1>4. rows' \in [Msgs -> Status \cup {"none"}] /\ rows'[ev.msg] # "none"
  BY <1>0, <1>2, <1>3
<1>5. \A d : Behind(d, d)
  <2>. TAKE d
  <2>. QED
    BY DEF Behind
<1>6. RowsRead
  <2>1. \A m \in Msgs : m # ev.msg => rows'[m] = rows[m]
    BY <1>0
  <2>2. rows'[ev.msg] = rows[ev.msg] \/ rows'[ev.msg] = dest'[ev.msg]
    BY <1>0, <1>3
  <2>. QED
    BY <1>4, <1>5, <2>1, <2>2 DEF RowsRead
<1>. QED
  BY <1>1, <1>4, <1>6

\* The handler of an event saves the row before it publishes the copy.
LEMMA HandlerSteps ==
  ASSUME RelayInv, NEW ev \in Event, NEW crawling \in BOOLEAN, handleMessageSentEvent(ev, crawling),
         UNCHANGED <<chains, syncRows, faults, processorVars>>
  PROVE  (ChainsOK /\ StoreOK)' /\ WorkOK(run', processing', queue') /\ Evolves
<1>0. /\ ChainsOK /\ StoreOK /\ dest' = dest /\ UNCHANGED processorVars /\ Forward
      /\ saveEventToDB(ev, crawling) /\ publishEvent(ev)
  BY DEF RelayInv, chains, Forward, handleMessageSentEvent
<1>1. /\ rows' \in [Msgs -> Status \cup {"none"}] /\ emitted' \in [Msgs -> Heights]
      /\ RowsRead /\ rows'[ev.msg] # "none"
  BY <1>0, SaveKeeps
<1>2. (ChainsOK /\ StoreOK)'
  BY <1>0, <1>1 DEF ChainsOK, StoreOK, chains, Heights
<1>3. CASE queue' = queue
  BY <1>0, <1>1, <1>2, <1>3, UnmovedSteps DEF processorVars
<1>4. CASE queue' # queue
  <2>. DEFINE c == [msg |-> ev.msg, block |-> ev.block, body |-> "event"]
  <2>1. queue' = Publish(queue, c)
    BY <1>0, <1>4 DEF publishEvent
  <2>2. c \in Copy(Msgs, Heights) /\ c.msg = ev.msg
    BY DEF Event, Copy
  <2>. HIDE DEF c
  <2>3. Moved(queue, queue', {c}, {})
    BY <2>1, <2>2, InvParts, PublishMoves
  <2>4. \A x \in {c} : rows'[x.msg] # "none"
    BY <1>1, <2>2
  <2>. QED
    BY <1>0, <1>1, <1>2, <2>3, <2>4, OutsideSteps
<1>. QED
  BY <1>2, <1>3, <1>4

\* The filterer returns events of messages.
LEMMA EventsRead == ChainsOK => \A a, b : EventsBetween(a, b) \subseteq Event
<1>. SUFFICES ASSUME ChainsOK, NEW a, NEW b, NEW ev \in EventsBetween(a, b) PROVE ev \in Event
  OBVIOUS
<1>1. PICK m \in Msgs : ev = [msg |-> m, block |-> blockOf[m]]
  BY DEF EventsBetween
<1>2. blockOf[m] \in Heights
  BY DEF ChainsOK
<1>. QED
  BY <1>1, <1>2 DEF Event

\* Where the indexer starts again is a block.
LEMMA InitialBlock == StoreOK => InitialIndexingBlock \in Heights
<1>. SUFFICES ASSUME StoreOK PROVE InitialIndexingBlock \in Heights
  OBVIOUS
<1>. DEFINE S == {emitted[m] : m \in Msgs} \cup {0}
            latest == Max(S)
<1>1. S \subseteq Heights /\ S # {}
  BY RelayAssumption DEF StoreOK, Heights
<1>2. latest \in Heights
  <2>. HIDE DEF S
  <2>. QED
    BY <1>1, MaxHeights
<1>3. InitialIndexingBlock = IF latest # 0 THEN latest - 1 ELSE 0
  BY DEF InitialIndexingBlock
<1>. HIDE DEF latest
<1>. QED
  BY <1>2, <1>3, RelayAssumption DEF Heights

\* Steps of the indexers: rows follow the events, and a row is written before its
\* copy is published.
LEMMA IndexerSteps ==
  ASSUME RelayInv, IndexerNext, UNCHANGED processorVars
  PROVE  StepOK
<1>0. /\ ChainsOK /\ StoreOK /\ IndexerTypeOK /\ MaxHeight \in Nat /\ Confirmations \in Nat
      /\ 0 \in Heights /\ BackOffMaxRetries \in Nat /\ 0 \in 0..BackOffMaxRetries
      /\ BatchSize \in Nat /\ IsQueue(queue)
  BY RelayAssumption, IndexerAssumption, InvParts DEF RelayInv, Heights
<1>1. ASSUME UNCHANGED worldVars, IndexerTypeOK'
      PROVE  StepOK
  <2>1. (ChainsOK /\ StoreOK)'
    BY <1>0, <1>1 DEF ChainsOK, StoreOK, worldVars, chains, Heights
  <2>2. UNCHANGED <<queue, processorVars>> /\ Forward /\ RowsRead
    BY <1>1 DEF worldVars, chains, Forward, RowsRead
  <2>3. WorkOK(run', processing', queue') /\ Evolves
    BY <2>2, UnmovedSteps
  <2>. QED
    BY <1>1, <2>1, <2>3 DEF StepOK
<1>2. CASE IndexBatch
  <2>1. batchEnd' \in Heights
    BY <1>0, <1>2 DEF IndexBatch, ChainsOK, IndexerTypeOK, Heights, Least
  <2>2. todo' \subseteq Event
    BY <1>0, <1>2, EventsRead DEF IndexBatch
  <2>3. IndexerTypeOK'
    BY <1>0, <1>2, <2>1, <2>2 DEF IndexBatch, IndexerTypeOK, Event, Heights
  <2>. QED
    BY <1>1, <1>2, <2>3 DEF IndexBatch
<1>3. CASE HandleEvent
  <2>1. PICK ev \in todo : handleMessageSentEvent(ev, FALSE) /\ todo' = todo \ {ev}
    BY <1>3 DEF HandleEvent
  <2>2. IndexerTypeOK'
    BY <1>0, <1>3, <2>1 DEF HandleEvent, IndexerTypeOK, Event, Heights
  <2>3. ev \in Event
    BY <1>0 DEF IndexerTypeOK
  <2>4. (ChainsOK /\ StoreOK)' /\ WorkOK(run', processing', queue') /\ Evolves
    BY <1>3, <2>1, <2>3, HandlerSteps DEF HandleEvent
  <2>. QED
    BY <2>2, <2>4 DEF StepOK
<1>4. CASE HandleEventFails
  <2>0. PICK ev \in todo :
          /\ todo' = todo \ {ev}
          /\ \/ UNCHANGED <<rows, emitted>>
             \/ Confirmed(ev.msg) /\ Queued(ev) /\ saveEventToDB(ev, FALSE)
    BY <1>4 DEF HandleEventFails
  <2>1. /\ Fault /\ failed' = TRUE
        /\ UNCHANGED <<chains, syncRows, queue, cursor, batchEnd, retries, syncSeen>>
    BY <1>4 DEF HandleEventFails
  <2>2. IndexerTypeOK'
    BY <1>0, <2>0, <2>1 DEF IndexerTypeOK, Event, Heights
  <2>3. ev \in Event /\ dest' = dest
    BY <1>0, <2>1 DEF IndexerTypeOK, chains
  <2>4. rows' \in [Msgs -> Status \cup {"none"}] /\ emitted' \in [Msgs -> Heights] /\ RowsRead
    <3>1. CASE UNCHANGED <<rows, emitted>>
      BY <1>0, <3>1 DEF StoreOK, RowsRead
    <3>2. CASE saveEventToDB(ev, FALSE)
      BY <2>3, <3>2, SaveKeeps
    <3>. QED
      BY <2>0, <3>1, <3>2
  <2>5. (ChainsOK /\ StoreOK)'
    BY <1>0, <2>1, <2>4, FaultKeeps DEF ChainsOK, StoreOK, chains, Heights
  <2>6. UNCHANGED <<queue, processorVars>> /\ Forward
    BY <2>1, <2>3 DEF Forward
  <2>7. WorkOK(run', processing', queue') /\ Evolves
    BY <2>4, <2>6, UnmovedSteps
  <2>. QED
    BY <2>2, <2>5, <2>7 DEF StepOK
<1>5. CASE ConfirmationTimeout
  <2>1. IndexerTypeOK'
    BY <1>0, <1>5 DEF ConfirmationTimeout, IndexerTypeOK, Event, Heights
  <2>. QED
    BY <1>1, <1>5, <2>1 DEF ConfirmationTimeout
<1>6. CASE RetryBatch
  <2>1. todo' \subseteq Event
    BY <1>0, <1>6, EventsRead DEF RetryBatch
  <2>2. retries' \in 0..BackOffMaxRetries
    BY <1>0, <1>6 DEF RetryBatch, IndexerTypeOK
  <2>3. /\ cursor' \in Heights /\ batchEnd' \in Heights /\ syncSeen' \in Heights
        /\ failed' \in BOOLEAN
    BY <1>0, <1>6 DEF RetryBatch, IndexerTypeOK
  <2>4. IndexerTypeOK'
    BY <2>1, <2>2, <2>3 DEF IndexerTypeOK, Heights, Event
  <2>. QED
    BY <1>1, <1>6, <2>4 DEF RetryBatch
<1>7. CASE FinishBatch
  <2>1. IndexerTypeOK'
    BY <1>0, <1>7 DEF FinishBatch, IndexerTypeOK, Event, Heights
  <2>. QED
    BY <1>1, <1>7, <2>1 DEF FinishBatch
<1>8. CASE RestartIndexer
  <2>1. IndexerTypeOK'
    BY <1>0, <1>8, InitialBlock DEF RestartIndexer, IndexerTypeOK, Event, Heights
  <2>2. (ChainsOK /\ StoreOK)'
    BY <1>0, <1>8, FaultKeeps DEF RestartIndexer, ChainsOK, StoreOK, chains, Heights
  <2>3. UNCHANGED <<queue, processorVars>> /\ Forward /\ RowsRead
    BY <1>8 DEF RestartIndexer, chains, Forward, RowsRead
  <2>4. WorkOK(run', processing', queue') /\ Evolves
    BY <2>3, UnmovedSteps
  <2>. QED
    BY <2>1, <2>2, <2>4 DEF StepOK
<1>9. CASE \E m \in Msgs : CrawlEvent(m)
  <2>1. PICK m \in Msgs : CrawlEvent(m)
    BY <1>9
  <2>. DEFINE ev == [msg |-> m, block |-> blockOf[m]]
  <2>2. ev \in Event
    BY <1>0 DEF ChainsOK, Event
  <2>3. handleMessageSentEvent(ev, TRUE) /\ UNCHANGED <<chains, syncRows, faults, indexerVars>>
    BY <2>1 DEF CrawlEvent
  <2>. HIDE DEF ev
  <2>4. (ChainsOK /\ StoreOK)' /\ WorkOK(run', processing', queue') /\ Evolves
    BY <2>2, <2>3, HandlerSteps
  <2>5. IndexerTypeOK'
    BY <1>0, <2>3 DEF IndexerTypeOK, indexerVars, Event, Heights
  <2>. QED
    BY <2>4, <2>5 DEF StepOK
<1>10. CASE handleChainDataSyncedEvent
  <2>1. IndexerTypeOK'
    BY <1>0, <1>10 DEF handleChainDataSyncedEvent, IndexerTypeOK, ChainsOK, Event, Heights
  <2>2. (ChainsOK /\ StoreOK)'
    BY <1>0, <1>10 DEF handleChainDataSyncedEvent, ChainsOK, StoreOK, chains, Heights
  <2>3. UNCHANGED <<queue, processorVars>> /\ Forward /\ RowsRead
    BY <1>10 DEF handleChainDataSyncedEvent, chains, Forward, RowsRead
  <2>4. WorkOK(run', processing', queue') /\ Evolves
    BY <2>3, UnmovedSteps
  <2>. QED
    BY <2>1, <2>2, <2>4 DEF StepOK
<1>11. CASE DeleteAllAfterBlockID
  <2>1. IndexerTypeOK'
    BY <1>0, <1>11 DEF DeleteAllAfterBlockID, IndexerTypeOK, indexerVars, Event, Heights
  <2>2. (ChainsOK /\ StoreOK)'
    BY <1>0, <1>11, FaultKeeps DEF DeleteAllAfterBlockID, ChainsOK, StoreOK, chains, Heights
  <2>3. UNCHANGED <<queue, processorVars>> /\ Forward /\ RowsRead
    BY <1>11 DEF DeleteAllAfterBlockID, chains, Forward, RowsRead
  <2>4. WorkOK(run', processing', queue') /\ Evolves
    BY <2>3, UnmovedSteps
  <2>. QED
    BY <2>1, <2>2, <2>4 DEF StepOK
<1>. QED
  BY <1>2, <1>3, <1>4, <1>5, <1>6, <1>7, <1>8, <1>9, <1>10, <1>11 DEF IndexerNext

\* What a goroutine advances to.
LEMMA AdvanceForms ==
  ASSUME RelayInv, NEW g \in Goroutines, Busy(g)
  PROVE  /\ \A phase \in {"confirming", "syncing", "sending", "updating"} :
              LET r == [run[g] EXCEPT !.phase = phase]
              IN  /\ r \in Running /\ r.copy = run[g].copy /\ r.open = run[g].open
                  /\ r.read = run[g].read
         /\ \A proof \in Heights :
              LET r == [run[g] EXCEPT !.phase = "sending", !.proof = proof]
              IN  /\ r \in Running /\ r.copy = run[g].copy /\ r.open = run[g].open
                  /\ r.read = run[g].read
         /\ \A status \in Status :
              LET r == [run[g] EXCEPT !.phase = "updating", !.proof = 0, !.read = status]
              IN  /\ r \in Running /\ r.copy = run[g].copy /\ r.open = run[g].open
                  /\ r.read = status
<1>1. run[g] \in Running
  BY InvParts, BusyFacts
<1>2. 0 \in Heights
  BY RelayAssumption DEF Heights
<1>. QED
  BY <1>1, <1>2 DEF Running

\* Publishing after another change of the queue.
LEMMA MovedAgain ==
  ASSUME NEW q, NEW r, NEW s, NEW a, NEW b, NEW f, IsQueue(q), Moved(q, r, a, f), Moved(r, s, b, {})
  PROVE  Moved(q, s, a \cup b, f)
<1>1. IsQueue(s) /\ AllCopies(s) \subseteq AllCopies(q) \cup (a \cup b)
  BY DEF Moved
<1>2. ASSUME NEW x
      PROVE  CopiesOf(x, s.held) >= CopiesOf(x, q.held) - (IF x \in f THEN 1 ELSE 0)
  <2>1. /\ CopiesOf(x, q.held) \in Nat /\ CopiesOf(x, r.held) \in Nat /\ CopiesOf(x, s.held) \in Nat
    BY QueueParts, CopiesNat DEF Moved
  <2>2. /\ CopiesOf(x, r.held) >= CopiesOf(x, q.held) - (IF x \in f THEN 1 ELSE 0)
        /\ CopiesOf(x, s.held) >= CopiesOf(x, r.held) - (IF x \in {} THEN 1 ELSE 0)
    BY DEF Moved
  <2>. QED
    BY <2>1, <2>2
<1>. QED
  BY <1>1, <1>2 DEF Moved

\* Steps of the processor, one case per step of a goroutine.
LEMMA ProcessorSteps ==
  ASSUME RelayInv, ProcessorNext, UNCHANGED indexerVars
  PROVE  StepOK
<1>0. /\ ChainsOK /\ StoreOK /\ IndexerTypeOK /\ TypeInv /\ IsQueue(queue)
      /\ run \in [Goroutines -> Running \cup {Idle}]
      /\ HasRows(rows, queue, run) /\ RowsOK(rows, dest, run)
  BY InvParts DEF RelayInv
<1>a. IndexerTypeOK'
  BY <1>0 DEF IndexerTypeOK, indexerVars, Event, Heights
<1>b. ASSUME UNCHANGED <<chains, rows, emitted, syncRows>>, UNCHANGED faults \/ Fault
      PROVE  (ChainsOK /\ StoreOK)' /\ dest' = dest /\ rows' = rows /\ RowsRead /\ Forward
  BY <1>0, <1>b, FaultKeeps DEF ChainsOK, StoreOK, chains, Heights, RowsRead, Forward
\* Returns that only settle the delivery.
<1>c. ASSUME NEW g \in Goroutines, Busy(g), Return(g), UNCHANGED <<chains, rows, emitted, syncRows>>,
             UNCHANGED faults \/ Fault,
             queue' = Settle(g, Ack) \/ queue' = Settle(g, DeadLetter) \/ queue' = queue
      PROVE  StepOK
  <2>1. Moved(queue, queue', {}, Given(g)) /\ \A c \in {} : c.msg = MsgOf(g)
    BY <1>0, <1>c, SettleMoves
  <2>2. (ChainsOK /\ StoreOK)' /\ dest' = dest /\ RowsRead
    BY <1>b, <1>c
  <2>3. WorkOK(run', processing', queue') /\ Evolves
    BY <1>c, <2>1, <2>2, ReturnSteps
  <2>. QED
    BY <1>a, <2>2, <2>3 DEF StepOK
<1>1. CASE Take
  <2>1. (ChainsOK /\ StoreOK)'
    BY <1>1, <1>b DEF Take
  <2>2. WorkOK(run', processing', queue') /\ Evolves
    BY <1>1, TakeSteps
  <2>. QED
    BY <1>a, <2>1, <2>2 DEF StepOK
<1>2. ASSUME NEW g \in Goroutines, Confirm(g) \/ Send(g)
      PROVE  StepOK
  <2>1. Busy(g) /\ UNCHANGED <<worldVars, processing>>
    BY <1>2 DEF Confirm, Send, At, HeaderSynced
  <2>2. PICK r \in Running : r.copy = run[g].copy /\ r.open = run[g].open /\ r.read = run[g].read
                             /\ run' = [run EXCEPT ![g] = r]
    <3>1. CASE Confirm(g)
      <4>. DEFINE r == [run[g] EXCEPT !.phase = "syncing"]
      <4>1. r \in Running /\ r.copy = run[g].copy /\ r.open = run[g].open /\ r.read = run[g].read
        BY <2>1, AdvanceForms
      <4>2. run' = [run EXCEPT ![g] = r]
        BY <3>1 DEF Confirm, Advance
      <4>. QED
        BY <4>1, <4>2
    <3>2. CASE Send(g)
      <4>. DEFINE r == [run[g] EXCEPT !.phase = "sending", !.proof = Max(syncRows)]
      <4>0. Max(syncRows) \in Heights
        <5>1. syncRows \subseteq Heights /\ syncRows # {}
          BY <1>0, <3>2 DEF Send, HeaderSynced, StoreOK
        <5>. QED
          BY <5>1, MaxHeights
      <4>1. r \in Running /\ r.copy = run[g].copy /\ r.open = run[g].open /\ r.read = run[g].read
        BY <2>1, <4>0, AdvanceForms
      <4>2. run' = [run EXCEPT ![g] = r]
        BY <1>0, <3>2 DEF Send
      <4>. QED
        BY <4>1, <4>2
    <3>. QED
      BY <1>2, <3>1, <3>2
  <2>3. /\ (ChainsOK /\ StoreOK)' /\ Forward /\ UNCHANGED <<rows, queue, processing>>
    BY <1>b, <2>1 DEF worldVars
  <2>4. WorkOK(run', processing', queue') /\ Evolves
    BY <2>1, <2>2, <2>3, AdvanceSteps
  <2>. QED
    BY <1>a, <2>3, <2>4 DEF StepOK
<1>3. ASSUME NEW g \in Goroutines, RequeuePaused(g)
      PROVE  StepOK
  <2>. DEFINE w == [run[g].copy EXCEPT !.body = "wrapped"]
              q == Settle(g, Requeue)
  <2>1. /\ Busy(g) /\ Return(g) /\ queue' = Publish(q, w)
        /\ UNCHANGED <<chains, rows, emitted, syncRows, faults>>
    BY <1>3 DEF RequeuePaused, At
  <2>2. run[g].copy \in Copy(Msgs, Heights)
    BY <1>0, <2>1, BusyFacts
  <2>3. w \in Copy(Msgs, Heights) /\ w.msg = MsgOf(g) /\ run[g].copy.msg = MsgOf(g)
    BY <2>2 DEF Copy, MsgOf
  <2>4. Moved(queue, q, {run[g].copy}, Given(g))
    BY <1>0, <2>1, SettleMoves
  <2>. HIDE DEF w, q
  <2>5. IsQueue(q)
    BY <2>4 DEF Moved
  <2>6. Moved(q, queue', {w}, {})
    BY <2>1, <2>3, <2>5, PublishMoves
  <2>. DEFINE new == {run[g].copy} \cup {w}
  <2>7. Moved(queue, queue', new, Given(g)) /\ \A c \in new : c.msg = MsgOf(g)
    BY <1>0, <2>3, <2>4, <2>6, MovedAgain
  <2>8. (ChainsOK /\ StoreOK)' /\ dest' = dest /\ RowsRead
    BY <1>b, <2>1
  <2>. HIDE DEF new
  <2>9. WorkOK(run', processing', queue') /\ Evolves
    BY <2>1, <2>7, <2>8, ReturnSteps
  <2>. QED
    BY <1>a, <2>8, <2>9 DEF StepOK
<1>4. ASSUME NEW g \in Goroutines, Unprofitable(g)
      PROVE  StepOK
  <2>. DEFINE c == run[g].copy
              q == Settle(g, Ack)
  <2>1. /\ Busy(g) /\ Return(g) /\ queue' = PublishUnprofitable(q, c)
        /\ UNCHANGED <<chains, rows, emitted, syncRows, faults>>
    BY <1>4 DEF Unprofitable, HeaderSynced, At
  <2>2. c \in Copy(Msgs, Heights) /\ c.msg = MsgOf(g)
    BY <1>0, <2>1, BusyFacts DEF MsgOf
  <2>4. Moved(queue, q, {}, Given(g))
    BY <1>0, <2>1, SettleMoves
  <2>. HIDE DEF c, q
  <2>5. IsQueue(q)
    BY <2>4 DEF Moved
  <2>6. Moved(q, queue', {c}, {})
    BY <2>1, <2>2, <2>5, PublishMoves
  <2>. DEFINE new == {} \cup {c}
  <2>7. Moved(queue, queue', new, Given(g)) /\ \A x \in new : x.msg = MsgOf(g)
    BY <1>0, <2>2, <2>4, <2>6, MovedAgain
  <2>8. (ChainsOK /\ StoreOK)' /\ dest' = dest /\ RowsRead
    BY <1>b, <2>1
  <2>. HIDE DEF new
  <2>9. WorkOK(run', processing', queue') /\ Evolves
    BY <2>1, <2>7, <2>8, ReturnSteps
  <2>. QED
    BY <1>a, <2>8, <2>9 DEF StepOK
<1>5. ASSUME NEW g \in Goroutines, NotReceived(g) \/ Unprocessable(g) \/ SendReverts(g)
      PROVE  StepOK
  <2>1. /\ Busy(g) /\ Return(g) /\ UNCHANGED <<chains, rows, emitted, syncRows>> /\ UNCHANGED faults
        /\ queue' = Settle(g, Ack) \/ queue' = Settle(g, DeadLetter)
    BY <1>5 DEF NotReceived, Unprocessable, SendReverts, HeaderSynced, At, ReturnOk, ReturnError
  <2>. QED
    BY <1>c, <2>1
<1>6. ASSUME NEW g \in Goroutines, CallFails(g) \/ ConnectionFails(g)
      PROVE  StepOK
  <2>1. /\ Busy(g) /\ Return(g) /\ UNCHANGED <<chains, rows, emitted, syncRows>> /\ Fault
        /\ queue' = Settle(g, DeadLetter) \/ queue' = queue
    BY <1>6 DEF CallFails, ConnectionFails, ReturnError
  <2>. QED
    BY <1>c, <2>1
<1>7. ASSUME NEW g \in Goroutines, SendSucceeds(g)
      PROVE  StepOK
  <2>1. /\ Busy(g) /\ dest[MsgOf(g)] = "New"
        /\ UNCHANGED <<height, blockOf, paused, synced, cheap, rows, emitted, syncRows, queue, faults, processing>>
    BY <1>7 DEF SendSucceeds, At
  <2>2. PICK status \in Processed("New") :
          /\ dest' = [dest EXCEPT ![MsgOf(g)] = status]
          /\ run' = [run EXCEPT ![g].phase = "updating", ![g].proof = 0, ![g].read = status]
    BY <1>7 DEF SendSucceeds
  <2>. DEFINE r == [run[g] EXCEPT !.phase = "updating", !.proof = 0, !.read = status]
  <2>3. status \in {"Done", "Retriable"} /\ status \in Status
    BY <2>2 DEF Processed, Status
  <2>4. r \in Running /\ r.copy = run[g].copy /\ r.open = run[g].open /\ r.read = status
    BY <2>1, <2>3, AdvanceForms
  <2>5. run' = [run EXCEPT ![g] = r]
    BY <1>0, <2>2
  <2>. HIDE DEF r
  <2>6. dest \in [Msgs -> Status] /\ MsgOf(g) \in Msgs
    BY <1>0, <2>1, BusyFacts DEF ChainsOK
  <2>7. Forward
    BY <2>1, <2>2, <2>6 DEF Forward
  <2>8. (ChainsOK /\ StoreOK)'
    BY <1>0, <2>1, <2>2, <2>3, <2>6 DEF ChainsOK, StoreOK, Heights
  <2>9. Behind(r.read, dest'[MsgOf(g)])
    BY <2>2, <2>3, <2>4, <2>6 DEF Behind
  <2>10. WorkOK(run', processing', queue') /\ Evolves
    BY <2>1, <2>4, <2>5, <2>7, <2>9, AdvanceSteps
  <2>. QED
    BY <1>a, <2>8, <2>10 DEF StepOK
<1>8. ASSUME NEW g \in Goroutines, UpdateStatus(g)
      PROVE  StepOK
  <2>1. /\ Busy(g) /\ Return(g) /\ queue' = Settle(g, Ack)
        /\ rows' = [rows EXCEPT ![MsgOf(g)] = run[g].read]
        /\ UNCHANGED <<chains, emitted, syncRows, faults>>
    BY <1>8 DEF UpdateStatus, At, ReturnOk
  <2>2. /\ rows \in [Msgs -> Status \cup {"none"}] /\ MsgOf(g) \in Msgs /\ run[g].read \in Status
        /\ Behind(run[g].read, dest[MsgOf(g)]) /\ dest' = dest
    BY <1>0, <2>1, BusyFacts DEF StoreOK, RowsOK, Busy, MsgOf, chains
  <2>3. "none" \notin Status
    BY DEF Status
  <2>4. RowsRead
    BY <2>1, <2>2, <2>3 DEF RowsRead
  <2>5. (ChainsOK /\ StoreOK)'
    BY <1>0, <2>1, <2>2 DEF ChainsOK, StoreOK, chains, Heights
  <2>6. Moved(queue, queue', {}, Given(g)) /\ \A c \in {} : c.msg = MsgOf(g)
    BY <1>0, <2>1, SettleMoves
  <2>7. WorkOK(run', processing', queue') /\ Evolves
    BY <2>1, <2>2, <2>4, <2>6, ReturnSteps
  <2>. QED
    BY <1>a, <2>5, <2>7 DEF StepOK
<1>9. CASE ConsumerTimeout \/ ChannelLost \/ RestartProcessor
  <2>1. /\ ResetChannel \/ RestartProcessor
        /\ UNCHANGED <<chains, rows, emitted, syncRows>> /\ (UNCHANGED faults \/ Fault)
    BY <1>9 DEF ConsumerTimeout, ChannelLost, RestartProcessor, ResetChannel
  <2>2. (ChainsOK /\ StoreOK)'
    BY <1>b, <2>1
  <2>3. WorkOK(run', processing', queue') /\ Evolves
    BY <2>1, ResetSteps
  <2>. QED
    BY <1>a, <2>2, <2>3 DEF StepOK
<1>. QED
  BY <1>1, <1>2, <1>3, <1>4, <1>5, <1>6, <1>7, <1>8, <1>9 DEF ProcessorNext, ProcessorStep

\* No rows and no copies initially.
LEMMA RelayInit == Init => RelayInv
<1>. SUFFICES ASSUME Init PROVE RelayInv
  OBVIOUS
<1>0. 0 \in Heights /\ 0 \in 0..BackOffMaxRetries /\ 0 \in 0..MaxFaults
  BY RelayAssumption, IndexerAssumption DEF Heights
<1>1. ChainsOK /\ StoreOK
  BY <1>0 DEF Init, WorldInit, ChainsOK, StoreOK, Status
<1>2. IndexerTypeOK
  BY <1>0 DEF Init, IndexerInit, IndexerTypeOK
<1>3. /\ run = [g \in Goroutines |-> Idle] /\ processing = {} /\ queue = NoCopies
      /\ dest = [m \in Msgs |-> "New"] /\ rows = [m \in Msgs |-> "none"]
  BY DEF Init, WorldInit, ProcessorInit
<1>4. IsQueue(queue) /\ AllCopies(queue) = {}
  BY <1>3, EmptyQueue
<1>5. \A c : Holders(c, run) = {} /\ CopiesOf(c, queue.held) \in Nat
  BY <1>3, <1>4, QueueParts, CopiesNat DEF Holders
<1>6. HeldOK(run, queue)
  BY <1>5, FS_EmptySet DEF HeldOK
<1>7. OwnTx(run, processing)
  BY <1>3 DEF OwnTx
<1>8. WorkOK(run, processing, queue)
  BY <1>3, <1>4, <1>6, <1>7 DEF WorkOK
<1>9. RowsOK(rows, dest, run) /\ HasRows(rows, queue, run)
  BY <1>3, <1>4 DEF RowsOK, HasRows, Behind
<1>. QED
  BY <1>1, <1>2, <1>8, <1>9 DEF RelayInv

\* Every step of the composition.
LEMMA RelayStep == RelayInv /\ [Next]_vars => RelayInv'
<1>. SUFFICES ASSUME RelayInv, [Next]_vars PROVE RelayInv'
  OBVIOUS
<1>1. CASE WorldNext /\ UNCHANGED <<indexerVars, processorVars>>
  BY <1>1, WorldSteps, EvolvesKeeps
<1>2. CASE IndexerNext /\ UNCHANGED processorVars
  BY <1>2, IndexerSteps, EvolvesKeeps
<1>3. CASE ProcessorNext /\ UNCHANGED indexerVars
  BY <1>3, ProcessorSteps, EvolvesKeeps
<1>4. CASE UNCHANGED vars
  <2>1. /\ UNCHANGED worldVars /\ UNCHANGED indexerVars /\ UNCHANGED processorVars
    BY <1>4 DEF vars
  <2>2. ChainsOK' /\ StoreOK' /\ IndexerTypeOK'
    BY <2>1 DEF RelayInv, ChainsOK, StoreOK, IndexerTypeOK, worldVars, chains, indexerVars, Heights, Event
  <2>3. UNCHANGED <<queue, processorVars>> /\ Forward /\ RowsRead
    BY <2>1 DEF worldVars, chains, Forward, RowsRead
  <2>4. WorkOK(run', processing', queue') /\ Evolves
    BY <2>3, UnmovedSteps
  <2>5. StepOK
    BY <2>2, <2>4 DEF StepOK
  <2>. QED
    BY <2>5, EvolvesKeeps
<1>. QED
  BY <1>1, <1>2, <1>3, <1>4 DEF Next

\* The inductive invariant in every reachable state.
LEMMA RelayAlways == Spec => []RelayInv
BY RelayInit, RelayStep, PTL DEF Spec

---------------------------------------------------------------------------------
(* What the relayer promises *)

\* Every variable of the two indexers, the queue and the processor keeps its type:
\* the cursor restarts within the chain, a proof is for a block there is, and no
\* handler leaves a copy in the queue that is no message of this direction.
THEOREM RelayTypeCorrect == Spec => []TypeOK
<1>1. RelayInv => TypeOK
  BY InvType DEF TypeInv
<1>. QED
  BY <1>1, RelayAlways, PTL

\* checkHash of processMessage: whatever the queue delivers again, no two goroutines
\* ever work on messages of one transaction, and processingTxHashes holds the
\* transactions of those at work, no more and no less.
THEOREM TransactionsAreOwned == Spec => []OneGoroutinePerTx
<1>1. RelayInv => OneGoroutinePerTx
  <2>. SUFFICES ASSUME RelayInv PROVE OneGoroutinePerTx
    OBVIOUS
  <2>1. OwnTx(run, processing)
    BY InvParts
  <2>2. \A g, h \in Goroutines :
          Busy(g) /\ Busy(h) /\ g # h => TxOf[MsgOf(g)] # TxOf[MsgOf(h)]
    BY <2>1 DEF OwnTx, Busy, MsgOf
  <2>3. processing = {TxOf[MsgOf(g)] : g \in {h \in Goroutines : Busy(h)}}
    BY <2>1 DEF OwnTx, Busy, MsgOf
  <2>. QED
    BY <2>2, <2>3 DEF OneGoroutinePerTx
<1>. QED
  BY <1>1, RelayAlways, PTL

\* Ack and Nack of the queue: each goroutine whose channel is still open finds a
\* delivery of its own to acknowledge, through lost channels, restarts, copies that
\* are requeued and copies that are published again.
THEOREM DeliveriesAreHeld == Spec => []DeliveryHeld
<1>1. RelayInv => DeliveryHeld
  BY InvParts DEF HeldOK, Holders, DeliveryHeld, Busy
<1>. QED
  BY <1>1, RelayAlways, PTL

\* saveEventToDB, its update when crawling, and the processor's UpdateStatus: none of
\* them, with a status it read long before, makes the database say more than the
\* bridge.
THEOREM RowsNeverAhead == Spec => []RowNeverAhead
<1>1. RelayInv => RowNeverAhead
  BY InvParts DEF RowsOK, Behind, RowNeverAhead
<1>. QED
  BY <1>1, RelayAlways, PTL

\* handleMessageSentEvent saves before it publishes, so every copy the queue has is
\* of a message with a row, whichever call failed in between and whatever restarted.
THEOREM QueuedMessagesHaveRows == Spec => []QueuedHasRow
<1>1. RelayInv => QueuedHasRow
  BY InvParts, LiveCopiesOf DEF HasRows, QueuedHasRow
<1>. QED
  BY <1>1, RelayAlways, PTL
=================================================================================
