------------------------- MODULE MCConsumerDelivery -------------------------
(***************************************************************************)
(* Instances of ConsumerDelivery for TLC.  Each budget is a mix of calls   *)
(* that makes one group of operations meet; TLC tries every distribution   *)
(* of the calls over the threads and every interleaving of their steps.    *)
(***************************************************************************)
EXTENDS ConsumerDelivery, TLC

CONSTANTS t1, t2, c1, c2, m1, m2, m3, m4, m5

Calls(f) == [o \in Ops |-> IF o \in DOMAIN f THEN f[o] ELSE 0]

(* Puts against start, stop and destroy; calls that wait for each other.   *)
FlowBudget == Calls([create |-> 1, start |-> 1, stop |-> 1, destroy |-> 1, put |-> 2])

(* Creating, suspending, resuming and destroying consumers.                *)
LifecycleCalls == Calls([create |-> 2, start |-> 2, resume |-> 1, stop |-> 1, destroy |-> 2,
                         put |-> 1])

(* The end of the session and of the queue.                                *)
SessionCalls == Calls([create |-> 1, start |-> 1, stop |-> 1, resume |-> 1, put |-> 1,
                       destroySession |-> 1, deleteQ |-> 1])

(* Calls made from inside the message callback; the flow run puts from it. *)
CallbackCalls == Calls([create |-> 1, start |-> 2, resume |-> 1, stop |-> 1, destroy |-> 1,
                        put |-> 1])

(* A queue that overflows while it is read.                                *)
OverflowCalls == Calls([create |-> 1, start |-> 1, put |-> 3])

(* A message that expires while others are delivered, and a reap.          *)
ExpiryCalls == Calls([create |-> 1, start |-> 1, put |-> 2, reap |-> 1])

(* A reap that meets the put of the next message that expires.             *)
ReapCalls == Calls([create |-> 1, put |-> 2, reap |-> 1])

Mixes == {LifecycleCalls, SessionCalls, CallbackCalls, OverflowCalls, ExpiryCalls,
          ReapCalls}

(* No mix makes more calls of a kind than this.                            *)
MixBudget == Calls([create |-> 2, start |-> 2, resume |-> 1, stop |-> 1, destroy |-> 2,
                    put |-> 3, reap |-> 1, destroySession |-> 1, deleteQ |-> 1])

(* The calls of a behaviour are some of the calls of one mix.  Only the    *)
(* callback mix calls from inside the callback, only the last two put      *)
(* messages that expire, and only the last one two of them.                *)
WithinMix ==
  \E mix \in Mixes :
    /\ \A o \in Ops : MixBudget[o] - budget[o] <= mix[o]
    /\ mix # CallbackCalls => \A t \in Threads : cb[t] # NoCb => pc[t] = "idle"
    /\ mix \notin {ExpiryCalls, ReapCalls} => fate[m1] = "unsent"
    /\ mix # ReapCalls => fate[m5] = "unsent"

(* Messages of a kind are alike: they are put in this order.               *)
After(m, n) == fate[n] # "unsent" => fate[m] # "unsent"
InTurn == After(m1, m5) /\ After(m2, m3) /\ After(m3, m4)

MixStep == WithinMix' /\ InTurn'

(* Threads can be exchanged, and so can consumers.                         *)
Symmetry == Permutations(Threads) \cup Permutations(Consumers)
=============================================================================
