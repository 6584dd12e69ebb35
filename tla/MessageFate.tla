------------------------------ MODULE MessageFate ------------------------------
(***************************************************************************)
(* What a bridge promises of a message, whatever chains, proofs, retries   *)
(* and pauses it takes: it is sent once, and it is then delivered on the   *)
(* destination chain or returned on the source chain, never both and never *)
(* twice.                                                                  *)
(***************************************************************************)
CONSTANT Messages

VARIABLES sent, delivered, returned

vars == <<sent, delivered, returned>>

Pending == sent \ (delivered \cup returned)

Init == sent = {} /\ delivered = {} /\ returned = {}

Send ==
  \E m \in Messages \ sent : sent' = sent \cup {m} /\ UNCHANGED <<delivered, returned>>

Deliver ==
  \E m \in Pending : delivered' = delivered \cup {m} /\ UNCHANGED <<sent, returned>>

Return ==
  \E m \in Pending : returned' = returned \cup {m} /\ UNCHANGED <<sent, delivered>>

Next == Send \/ Deliver \/ Return

Spec == Init /\ [][Next]_vars

================================================================================
