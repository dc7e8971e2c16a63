--------------------------- MODULE MCForwarderXA ---------------------------
(* Model checking of ForwarderXA: a sender and a receiver, a few messages, *)
(* and as many breaks, crashes and failed engine calls as MaxFaults says.  *)
(* MaxGtrid is larger than any sequence number these reach, so that bound  *)
(* hides no behaviour.                                                     *)
EXTENDS ForwarderXA

(***************************************************************************)
(* Three mixes: one message and two, with faults, and four without, which  *)
(* is what the flow control takes; there the other direction of the        *)
(* channel has no transactions, so that delivery starts at once.  With two *)
(* messages the second fault is the crash of a server, which breaks the    *)
(* connection too, and waits until a message has been received: what two   *)
(* faults can do to the transaction of the first message before that, they *)
(* can do to that of the second.  Connections come early, before the       *)
(* recovery of a restarted receiver, in the mix of one message.  The       *)
(* filter holds back faults, early connections and what the other          *)
(* direction does, no other step of the forwarder.                         *)
(***************************************************************************)
MixInit == Init /\ Cardinality(Forwarded) \in {1, 2, 4}

WithinMix ==
  /\ Cardinality(Forwarded) = 4 =>
       /\ \A i \in DOMAIN r2s' : r2s'[i].t = "ConnectReply" => r2s'[i].auto
       /\ \A i \in DOMAIN s2r' : s2r'[i].t # "Recover"
  /\ faults' > faults => Cardinality(Forwarded) # 4
  /\ early' => Cardinality(Forwarded) = 1
  /\ faults' = 2 /\ faults = 1 /\ Cardinality(Forwarded) = 2 =>
       /\ SenderCrash \/ ReceiverCrash
       /\ \E m \in Msgs : received[m] > 0

MixNext == Next /\ WithinMix
MixSpec == MixInit /\ [][MixNext]_vars /\ Fairness
=============================================================================
