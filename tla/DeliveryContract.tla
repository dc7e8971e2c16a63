-------------------------- MODULE DeliveryContract --------------------------
(***************************************************************************)
(* What a queue with one session promises to those who put messages and to *)
(* the consumer: every accepted message meets exactly one fate; messages   *)
(* reach the consumer in the order in which their puts followed each       *)
(* other; and only a session whose delivery has been started and has not   *)
(* finished stopping receives any.  Threads, locks and callbacks do not    *)
(* appear.                                                                 *)
(***************************************************************************)
CONSTANTS Msgs, CanDiscard, CanReject

VARIABLES
  fate,      \* what became of each message
  earlier,   \* the puts that had returned when the put of a message began
  returned,  \* the puts that have returned
  open       \* delivery is started, or still stopping

vars == <<fate, earlier, returned, open>>

Init ==
  /\ fate = [m \in Msgs |-> "unsent"]
  /\ earlier = [m \in Msgs |-> {}]
  /\ returned = {}
  /\ open = FALSE

(* No message whose put had returned before the put of m is still waiting. *)
FirstInLine(m) == \A p \in earlier[m] : fate[p] # "putting"

Put(m) ==
  /\ fate[m] = "unsent"
  /\ fate' = [fate EXCEPT ![m] = "putting"]
  /\ earlier' = [earlier EXCEPT ![m] = returned]
  /\ UNCHANGED <<returned, open>>

Reject(m) ==
  /\ CanReject
  /\ fate[m] = "unsent"
  /\ fate' = [fate EXCEPT ![m] = "rejected"]
  /\ earlier' = [earlier EXCEPT ![m] = returned]
  /\ UNCHANGED <<returned, open>>

PutReturns(m) ==
  /\ fate[m] # "unsent"
  /\ returned' = returned \cup {m}
  /\ UNCHANGED <<fate, earlier, open>>

Deliver(m) ==
  /\ open
  /\ fate[m] = "putting"
  /\ FirstInLine(m)
  /\ fate' = [fate EXCEPT ![m] = "delivered"]
  /\ UNCHANGED <<earlier, returned, open>>

Discard(m) ==
  /\ CanDiscard
  /\ fate[m] = "putting"
  /\ FirstInLine(m)
  /\ fate' = [fate EXCEPT ![m] = "discarded"]
  /\ UNCHANGED <<earlier, returned, open>>

Expire(S) ==
  /\ \A m \in S : fate[m] = "putting"
  /\ fate' = [m \in Msgs |-> IF m \in S THEN "expired" ELSE fate[m]]
  /\ UNCHANGED <<earlier, returned, open>>

Open  == ~open /\ open' = TRUE /\ UNCHANGED <<fate, earlier, returned>>
Close == open /\ open' = FALSE /\ UNCHANGED <<fate, earlier, returned>>

Next ==
  \/ \E m \in Msgs : Put(m) \/ Reject(m) \/ PutReturns(m) \/ Deliver(m) \/ Discard(m)
  \/ \E S \in SUBSET Msgs : Expire(S)
  \/ Open \/ Close

Spec == Init /\ [][Next]_vars
=============================================================================
