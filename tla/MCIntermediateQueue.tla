------------------------ MODULE MCIntermediateQueue ------------------------
(***************************************************************************)
(* Instances of the intermediate queue for TLC.  A mix says what a         *)
(* behaviour may contain: how many messages, of which kinds, and how many  *)
(* faults of each sort.  Every behaviour stays within one mix.             *)
(***************************************************************************)
EXTENDS IntermediateQueue

Mix(msgs, kinds, faults) == [msgs |-> msgs, kinds |-> kinds, faults |-> faults]

Faults(crash, break, refuse, reject) ==
  [crash |-> crash, break |-> break, refuse |-> refuse, reject |-> reject]

(* Persistent messages with a crash and a broken connection.               *)
CrashMix == Mix(2, {"q1", "q2"}, Faults(1, 1, 0, 0))

(* Persistent messages with a crash and a refusal.                         *)
RefusalMix == Mix(2, {"q1", "q2"}, Faults(1, 0, 1, 0))

(* More messages than delivery ids: the engine stops and restarts.         *)
FlowMix == Mix(3, {"q1"}, Faults(0, 0, 0, 0))

(* At-most-once messages handed over directly while others are queued.     *)
DirectMix == Mix(2, {"q0", "q2"}, Faults(0, 0, 1, 0))

(* An error PUBREC, a message that is not persistent, a broken connection. *)
RejectMix == Mix(2, {"n1", "q2"}, Faults(0, 1, 0, 1))

Mixes == {CrashMix, RefusalMix, FlowMix, DirectMix, RejectMix}

AllKinds == {"q0", "n1", "q1", "q2"}

AllFaults == Faults(MaxCrashes, MaxBreaks, MaxRefusals, MaxRejects)

WithinMix ==
  \E mix \in Mixes :
    /\ Cardinality(Msgs \ Unput) + trying <= mix.msgs
    /\ {kind[m] : m \in Msgs \ Unput} \subseteq mix.kinds
    /\ trying > 0 => "q0" \in mix.kinds
    /\ \A f \in DOMAIN budget : AllFaults[f] - budget[f] <= mix.faults[f]

MixStep == WithinMix'
=============================================================================
