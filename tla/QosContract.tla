----------------------------- MODULE QosContract -----------------------------
(***************************************************************************)
(* What a subscription promises about each message it has accepted, seen   *)
(* from the publisher and the subscriber only: no queue, no store, no      *)
(* packet ids, no connection.                                              *)
(***************************************************************************)
EXTENDS Naturals

CONSTANT Msgs        \* the messages, in the order they are accepted

VARIABLES quality,   \* [Msgs -> how the message is to be delivered, "none" before it is accepted]
          received,  \* [Msgs -> how many times the subscriber took the message]
          ended      \* the messages that will not be sent again

vars == <<quality, received, ended>>

Qualities == {"q0", "n1", "q1", "q2"}

(* Persistent messages survive everything until the subscriber has them.   *)
Durable(m) == quality[m] \in {"q1", "q2"}
Once(m)    == quality[m] \in {"q0", "q2"}

Init ==
  /\ quality  = [m \in Msgs |-> "none"]
  /\ received = [m \in Msgs |-> 0]
  /\ ended    = {}

Accept(m, k) ==
  /\ quality[m] = "none"
  /\ quality' = [quality EXCEPT ![m] = k]
  /\ UNCHANGED <<received, ended>>

(* A durable message is not sent again after it ended; a message that may  *)
(* be sent once only is taken once only.                                   *)
Receive(m) ==
  /\ quality[m] # "none"
  /\ Durable(m) => m \notin ended
  /\ Once(m) => received[m] = 0
  /\ received' = [received EXCEPT ![m] = @ + 1]
  /\ UNCHANGED <<quality, ended>>

(* Several messages can end at once: a restart drops all that were not     *)
(* stored.  A durable one ends only when the subscriber has it.            *)
End(S) ==
  /\ \A m \in S : quality[m] # "none" /\ (Durable(m) => received[m] > 0)
  /\ ended' = ended \cup S
  /\ UNCHANGED <<quality, received>>

Next ==
  \/ \E m \in Msgs : \E k \in Qualities : Accept(m, k)
  \/ \E m \in Msgs : Receive(m)
  \/ \E S \in (SUBSET Msgs) \ {{}} : End(S)

Spec == Init /\ [][Next]_vars
=============================================================================
