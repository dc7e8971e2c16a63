--------------------------- MODULE HaHeartbeat ---------------------------
(***************************************************************************)
(* How the two servers of a paired high-availability group notice that    *)
(* something broke, and which of them goes on: the part of the control    *)
(* thread's loop (ism_store_haThread) that runs once the view of the pair *)
(* was raised, with the view changes it leads to.                         *)
(*                                                                         *)
(* The servers share two connections, 0 on the discovery interface and 1  *)
(* on the replication interface.  A turn of the loop first looks at the   *)
(* two connections (Look) and then does the ready input and output (Io).  *)
(* Time is counted in ticks; both loops turn many times in a tick, and a  *)
(* message on a working link arrives in the tick it was sent.             *)
(*                                                                         *)
(* A server that is PRIMARY and not paired works alone; ERROR and TERM    *)
(* are views after which the control thread ends; DOWN is a crash.        *)
(***************************************************************************)
EXTENDS Integers, Sequences

CONSTANTS
    Hbto,           \* HeartbeatTimeout of each server, in ticks
    HbPerTimeout,   \* heartbeats sent in one own HeartbeatTimeout (20 in the code)
    Faults,         \* what may break: kinds of fault
    LinkFaults,     \* which links may break: <<link, servers it carries nothing from>>
    MaxFaults       \* how many faults a behaviour may have (bound)

Servers == {"A", "B"}          \* A starts as the primary, B as the standby
Conns   == {0, 1}
Kinds   == {"kill", "poweroff", "channel", "apply", "shutdown"}

ASSUME TimeAssumption ==
    /\ Hbto \in [Servers -> Nat \ {0}]
    /\ HbPerTimeout \in Nat \ {0}
ASSUME FaultAssumption ==
    /\ Faults \subseteq Kinds
    /\ LinkFaults \subseteq Conns \X SUBSET Servers
    /\ MaxFaults \in Nat

VARIABLES
    view,       \* lastView->NewRole, or DOWN
    paired,     \* dInfo->state has DSC_VU_SENT and DSC_HAVE_PAIR
    synced,     \* HAInfo.State of the standby is STANDBY, not UNSYNC
    bits,       \* the TRM bits of dInfo->state
    sendBit,    \* dInfo->sendBit: set in the state when the next write ends
    viewBreak,  \* the data channels were invalidated
    sbError,    \* the standby failed to apply what it received
    ending,     \* return code with which a receiving thread is on its way out
    goDown,     \* the control thread was told to end the pair
    closing,    \* ism_store_memTerm waits for the answer of the standby
    open,       \* cIhb[i] is there and valid
    out,        \* message in the write buffer of a connection
    nextS,      \* ticks until the next heartbeat is due on a connection
    silent,     \* ticks since the last heartbeat arrived on a connection
    wire,       \* what a server sent on a connection and the other has not read
    dead,       \* the link of a connection loses what the server sends
    turn,       \* next half of the server's loop
    looked,     \* the loop has turned in this tick
    faults      \* history: number of faults so far

vars == <<view, paired, synced, bits, sendBit, viewBreak, sbError, ending, goDown,
          closing, open, out, nextS, silent, wire, dead, turn, looked, faults>>

Views   == {"PRIMARY", "STANDBY", "ERROR", "TERM", "DOWN"}
TrmBits == {"TRM_MSG_SENT", "TRM_MSG_RECV", "ACK_TRM_SENT", "ACK_TRM_RECV"}
Msgs    == {"HBT", "NOD_TRM", "ACK_TRM", "FIN"}
Codes   == {"OK", "SystemError", "StoreTerm"}

TypeOK ==
    /\ view \in [Servers -> Views]
    /\ paired \in [Servers -> BOOLEAN]
    /\ synced \in [Servers -> BOOLEAN]
    /\ bits \in [Servers -> SUBSET TrmBits]
    /\ sendBit \in [Servers -> BOOLEAN]
    /\ viewBreak \in [Servers -> BOOLEAN]
    /\ sbError \in [Servers -> BOOLEAN]
    /\ ending \in [Servers -> Codes]
    /\ goDown \in [Servers -> 0..2]
    /\ closing \in [Servers -> BOOLEAN]
    /\ open \in [Servers -> [Conns -> BOOLEAN]]
    /\ out \in [Servers -> [Conns -> (Msgs \ {"FIN"}) \union {"none"}]]
    /\ nextS \in [Servers -> [Conns -> Nat]]
    /\ silent \in [Servers -> [Conns -> Nat]]
    /\ wire \in [Servers -> [Conns -> Seq(Msgs)]]
    /\ dead \in [Servers -> [Conns -> BOOLEAN]]
    /\ turn \in [Servers -> {"look", "io"}]
    /\ looked \in [Servers -> BOOLEAN]
    /\ faults \in Nat

Other(s) == IF s = "A" THEN "B" ELSE "A"

(* The timeout both servers use is the smaller of the two; the interval    *)
(* between heartbeats stays a share of the server's own.                   *)
HbTimeOut == IF Hbto["A"] < Hbto["B"] THEN Hbto["A"] ELSE Hbto["B"]
HbInterval(s) == (Hbto[s] + HbPerTimeout - 1) \div HbPerTimeout

(* A server that is alone, going down or gone does not run this part.      *)
Running(s) == paired[s] /\ view[s] \in {"PRIMARY", "STANDBY"}

(* ----------------------------- the connections ------------------------- *)

(* cip_conn_failed: the descriptor is closed, what waits to be written is  *)
(* lost, and the other side reads the end of the stream if the link works. *)
Closed(s, cs) ==
    /\ open' = [open EXCEPT ![s] = [i \in Conns |-> @[i] /\ i \notin cs]]
    /\ out' = [out EXCEPT ![s] = [i \in Conns |-> IF i \in cs THEN "none" ELSE @[i]]]
    /\ wire' = [wire EXCEPT
          ![s] = [i \in Conns |->
                    IF i \in cs /\ open[s][i] /\ ~dead[s][i] THEN Append(@[i], "FIN") ELSE @[i]],
          ![Other(s)] = [i \in Conns |-> IF i \in cs THEN << >> ELSE @[i]]]

(* A heartbeat is overdue when its time has passed and the loop turned     *)
(* often enough since, an eighth of the server's own timeout.              *)
Overdue(s, i) == silent[s][i] > HbTimeOut /\ 8 * silent[s][i] > Hbto[s]

Bad(s) == {i \in Conns : ~open[s][i] \/ Overdue(s, i)}

Trouble(s) == Bad(s) # {} \/ viewBreak[s]

(* ------------------------------ view changes --------------------------- *)

(* cip_raise_view: every connection is closed, the bits are reset.         *)
RaiseView(s, role) ==
    /\ Closed(s, Conns)
    /\ view' = [view EXCEPT ![s] = role]
    /\ paired' = [paired EXCEPT ![s] = FALSE]
    /\ bits' = [bits EXCEPT ![s] = {}]
    /\ viewBreak' = [viewBreak EXCEPT ![s] = FALSE]
    /\ UNCHANGED <<sendBit, nextS>>

(* The store refuses to make a primary of a standby that is not            *)
(* synchronized yet (ism_store_memHAViewChanged).                          *)
PromotedRole_Bad(s) == IF synced[s] THEN "PRIMARY" ELSE "UNSYNC"
PromotedRole(s) == IF synced[s] THEN "PRIMARY" ELSE "ERROR"

(* It also refuses to go on with a primary that loses its standby before   *)
(* that is synchronized if the two started together (the primary's store   *)
(* is still in its initial state); a primary that was at work when the     *)
(* standby joined goes on.  Which of the two it is shows only here.        *)
SoloRoles(s) == IF synced[Other(s)] THEN {"PRIMARY"} ELSE {"PRIMARY", "ERROR"}

RaiseSolo(s) == \E role \in SoloRoles(s) : RaiseView(s, role)

(* Both connections are bad.                                               *)
BothBad_BadTrm(s) ==
    IF view[s] = "PRIMARY" THEN RaiseSolo(s)
    ELSE IF sbError[s] THEN RaiseView(s, "ERROR") ELSE RaiseView(s, PromotedRole(s))
BothBad(s) ==
    IF view[s] = "PRIMARY" THEN RaiseSolo(s)
    ELSE IF "TRM_MSG_RECV" \in bits[s] \/ sbError[s] THEN RaiseView(s, "ERROR")
    ELSE RaiseView(s, PromotedRole(s))

(* One connection is bad: the primary asks the standby over the other one  *)
(* to end, and goes on alone when it agreed; the standby ends once it has  *)
(* prepared its answer.                                                    *)
PrimaryEnds(s, good) ==
    \/ /\ "TRM_MSG_SENT" \notin bits[s]
       /\ out' = [out EXCEPT ![s][good] = "NOD_TRM"]
       /\ sendBit' = [sendBit EXCEPT ![s] = TRUE]
       /\ viewBreak' = [viewBreak EXCEPT ![s] = TRUE]
       /\ UNCHANGED <<view, paired, bits, open, nextS, wire>>
    \/ /\ {"TRM_MSG_SENT", "ACK_TRM_RECV"} \subseteq bits[s]
       /\ RaiseSolo(s)

StandbyEnds(s) == "ACK_TRM_SENT" \in bits[s] /\ RaiseView(s, "ERROR")

(* Nothing to do but wait: for the answer of the standby, or for the       *)
(* request of the primary.                                                 *)
Waiting(s) ==
    /\ Bad(s) # {} /\ Bad(s) # Conns
    /\ IF view[s] = "PRIMARY" THEN "TRM_MSG_SENT" \in bits[s] /\ "ACK_TRM_RECV" \notin bits[s]
                              ELSE "ACK_TRM_SENT" \notin bits[s]

Waits(s) ==
    /\ Waiting(s)
    /\ viewBreak' = [viewBreak EXCEPT ![s] = TRUE]
    /\ UNCHANGED <<view, paired, bits, sendBit, open, out, nextS, wire>>

(* Fault: the broken data channel is noticed but the connection is kept.   *)
GiveUpReplication_Bad(s) == UNCHANGED <<view, paired, bits, sendBit, viewBreak, open, out, nextS, wire>>

(* Neither connection is bad, but a data channel broke: the replication    *)
(* connection is given up.                                                 *)
GiveUpReplication(s) ==
    /\ Closed(s, {1})
    /\ UNCHANGED <<view, paired, bits, sendBit, viewBreak, nextS>>

(* All is well: a heartbeat is put in the buffer of each connection where  *)
(* one is due, whatever the buffer held.                                   *)
Heartbeats(s) ==
    /\ out' = [out EXCEPT ![s] = [i \in Conns |-> IF nextS[s][i] = 0 THEN "HBT" ELSE @[i]]]
    /\ UNCHANGED <<view, paired, bits, sendBit, viewBreak, open, nextS, wire>>

Readable(s, i) == open[s][i] /\ out[s][i] = "none" /\ wire[Other(s)][i] # << >>
Writable(s, i) == open[s][i] /\ out[s][i] # "none"

(* A server has nothing left to do in this tick; the further turns of its  *)
(* loop, which change nothing, are left out.                               *)
Settled(s) ==
    Running(s) =>
      /\ turn[s] = "look" /\ looked[s] /\ goDown[s] = 0
      /\ \A i \in Conns : ~Writable(s, i) /\ ~Readable(s, i)
      /\ IF Trouble(s) THEN Waiting(s) /\ viewBreak[s] ELSE \A i \in Conns : nextS[s][i] > 0

Look(s) ==
    /\ Running(s) /\ ~Settled(s)
    /\ turn[s] = "look"
    /\ turn' = [turn EXCEPT ![s] = "io"]
    /\ \/ ~Trouble(s) /\ Heartbeats(s)
       \/ Trouble(s) /\ Bad(s) = {} /\ GiveUpReplication(s)
       \/ Bad(s) = Conns /\ BothBad(s)
       \/ \E i \in Conns : Bad(s) = {i} /\ view[s] = "PRIMARY" /\ PrimaryEnds(s, 1 - i)
       \/ \E i \in Conns : Bad(s) = {i} /\ view[s] = "STANDBY" /\ StandbyEnds(s)
       \/ Waits(s)
    /\ UNCHANGED <<synced, sbError, ending, goDown, closing, silent, dead, looked, faults>>

(* ------------------------------ input and output ----------------------- *)

(* One pass over the connections: those with something to write write it,  *)
(* the others read one message.  Any write that ends sets the bit that     *)
(* waits in sendBit.  The end of the stream closes the connection.         *)
IoStep(s, ready) ==
    LET writes == {i \in ready : Writable(s, i)}
        reads  == {i \in ready : Readable(s, i)}
        got(i) == IF i \in reads THEN Head(wire[Other(s)][i]) ELSE "none"
        sent(i) == i \in writes /\ ~dead[s][i] /\ open[Other(s)][i] /\ view[Other(s)] # "DOWN"
    IN /\ open' = [open EXCEPT ![s] = [i \in Conns |-> @[i] /\ got(i) # "FIN"]]
       /\ out' = [out EXCEPT ![s] = [i \in Conns |->
                    IF got(i) = "NOD_TRM" THEN "ACK_TRM" ELSE IF i \in writes THEN "none" ELSE @[i]]]
       /\ wire' = [wire EXCEPT
             ![s] = [i \in Conns |-> IF sent(i) THEN Append(@[i], out[s][i]) ELSE @[i]],
             ![Other(s)] = [i \in Conns |-> IF i \in reads THEN Tail(@[i]) ELSE @[i]]]
       /\ nextS' = [nextS EXCEPT ![s] = [i \in Conns |-> IF i \in writes THEN HbInterval(s) ELSE @[i]]]
       /\ silent' = [silent EXCEPT ![s] = [i \in Conns |-> IF got(i) = "HBT" THEN 0 ELSE @[i]]]
       /\ bits' = [bits EXCEPT ![s] = @
             \union (IF writes # {} /\ sendBit[s] THEN {"TRM_MSG_SENT"} ELSE {})
             \union (IF \E i \in reads : got(i) = "NOD_TRM" THEN {"TRM_MSG_RECV", "ACK_TRM_SENT"} ELSE {})
             \union (IF \E i \in reads : got(i) = "ACK_TRM" THEN {"ACK_TRM_RECV"} ELSE {})]
       /\ sendBit' = [sendBit EXCEPT ![s] = @ /\ writes = {}]

(* How the control thread leaves its loop: a server that shuts down stops  *)
(* (1); a standby told of the shutdown of its primary raises the last view *)
(* (2), which the store refuses from a server that is primary by then.     *)
Ended(s) == IF goDown[s] = 1 THEN "DOWN" ELSE IF view[s] = "STANDBY" THEN "TERM" ELSE "ERROR"

Io(s) ==
    /\ Running(s)
    /\ turn[s] = "io"
    /\ turn' = [turn EXCEPT ![s] = "look"]
    /\ looked' = [looked EXCEPT ![s] = TRUE]
    /\ IF goDown[s] # 0
       THEN /\ Closed(s, Conns)
            /\ view' = [view EXCEPT ![s] = Ended(s)]
            /\ paired' = [paired EXCEPT ![s] = FALSE]
            /\ UNCHANGED <<bits, sendBit, nextS, silent>>
       ELSE /\ \E ready \in SUBSET Conns : IoStep(s, ready)
            /\ UNCHANGED <<view, paired>>
    /\ UNCHANGED <<synced, viewBreak, sbError, ending, goDown, closing, dead, faults>>

(* A server told to go down after it became the only one.                  *)
LateShutdown(s) ==
    /\ goDown[s] # 0 /\ ~paired[s] /\ view[s] = "PRIMARY"
    /\ view' = [view EXCEPT ![s] = Ended(s)]
    /\ UNCHANGED <<paired, synced, bits, sendBit, viewBreak, sbError, ending, goDown, closing, open, out,
                   nextS, silent, wire, dead, turn, looked, faults>>

(* ------------------------------ other threads -------------------------- *)

(* The synchronization of the standby completes.                           *)
SyncCompletes(s) ==
    /\ Running(s) /\ view[s] = "STANDBY" /\ ~synced[s] /\ ~viewBreak[s]
    /\ synced' = [synced EXCEPT ![s] = TRUE]
    /\ UNCHANGED <<view, paired, bits, sendBit, viewBreak, sbError, ending, goDown, closing, open, out,
                   nextS, silent, wire, dead, turn, looked, faults>>

(* A thread that receives on a data channel stops on an error: it breaks   *)
(* the view first and reports why only when the channel is gone.           *)
RecvThreadStops(s, rc) ==
    /\ Running(s) /\ view[s] = "STANDBY" /\ ~viewBreak[s] /\ ending[s] = "OK"
    /\ ending' = [ending EXCEPT ![s] = rc]
    /\ UNCHANGED <<view, paired, synced, bits, sendBit, sbError, open, out, nextS, silent,
                   wire, dead, turn, looked>>

RecvThreadEnds(s) ==
    /\ ending[s] # "OK" /\ view[s] # "DOWN"
    /\ sbError' = [sbError EXCEPT ![s] = @ \/ ending[s] = "SystemError"]
    /\ goDown' = [goDown EXCEPT ![s] = IF ending[s] = "StoreTerm" THEN 2 ELSE @]
    /\ ending' = [ending EXCEPT ![s] = "OK"]
    /\ UNCHANGED <<view, paired, synced, bits, sendBit, viewBreak, closing, open, out, nextS, silent,
                   wire, dead, turn, looked, faults>>

(* A server that uses a data channel finds it closed by the other, which   *)
(* broke its view or left the pair (the channels run over link 1).         *)
ChannelClosed(s) ==
    /\ Running(s) /\ ~viewBreak[s]
    /\ viewBreak[Other(s)] \/ ~Running(Other(s))
    /\ ~dead[Other(s)][1]
    /\ viewBreak' = [viewBreak EXCEPT ![s] = TRUE]
    /\ UNCHANGED <<view, paired, synced, bits, sendBit, sbError, ending, goDown, closing, open, out, nextS,
                   silent, wire, dead, turn, looked, faults>>

(* ------------------------------- faults -------------------------------- *)

Fault(kind) ==
    /\ kind \in Faults
    /\ faults < MaxFaults

(* A link stops carrying anything, or anything in one direction; what was  *)
(* on it is lost.                                                          *)
LinkFails(i, senders) ==
    /\ faults < MaxFaults
    /\ \E s \in senders : ~dead[s][i]
    /\ dead' = [s \in Servers |-> [dead[s] EXCEPT ![i] = @ \/ s \in senders]]
    /\ wire' = [s \in Servers |-> IF s \in senders THEN [wire[s] EXCEPT ![i] = << >>] ELSE wire[s]]
    /\ faults' = faults + 1
    /\ UNCHANGED <<view, paired, synced, bits, sendBit, viewBreak, sbError, ending, goDown, closing, open, out,
                   nextS, silent, turn, looked>>

(* The process dies and its sockets are closed for it, or the machine does *)
(* and nothing is sent.                                                    *)
Crash(s) ==
    /\ view[s] # "DOWN"
    /\ \/ Fault("kill") /\ Closed(s, Conns) /\ UNCHANGED dead
       \/ /\ Fault("poweroff")
          /\ open' = [open EXCEPT ![s] = [i \in Conns |-> FALSE]]
          /\ out' = [out EXCEPT ![s] = [i \in Conns |-> "none"]]
          /\ dead' = [dead EXCEPT ![s] = [i \in Conns |-> TRUE]]
          /\ UNCHANGED wire
    /\ view' = [view EXCEPT ![s] = "DOWN"]
    /\ paired' = [paired EXCEPT ![s] = FALSE]
    /\ ending' = [ending EXCEPT ![s] = "OK"]
    /\ faults' = faults + 1
    /\ UNCHANGED <<synced, bits, sendBit, viewBreak, sbError, goDown, closing, nextS, silent, turn, looked>>

(* A data channel breaks at either end.                                    *)
ChannelBreaks(s) ==
    /\ Fault("channel")
    /\ Running(s) /\ ~viewBreak[s]
    /\ viewBreak' = [viewBreak EXCEPT ![s] = TRUE]
    /\ faults' = faults + 1
    /\ UNCHANGED <<view, paired, synced, bits, sendBit, sbError, ending, goDown, closing, open, out, nextS,
                   silent, wire, dead, turn, looked>>

(* The standby cannot apply what it received.                              *)
ApplyFails(s) ==
    /\ Fault("apply")
    /\ RecvThreadStops(s, "SystemError")
    /\ viewBreak' = [viewBreak EXCEPT ![s] = TRUE]
    /\ faults' = faults + 1
    /\ UNCHANGED <<goDown, closing>>

(* The primary is shut down in an orderly way: the standby has the request *)
(* and has answered it.                                                    *)
ShutdownArrives(s) ==
    /\ Fault("shutdown")
    /\ Running(Other(s)) /\ ~viewBreak[Other(s)] /\ synced[s]
    /\ RecvThreadStops(s, "StoreTerm")
    /\ viewBreak' = [viewBreak EXCEPT ![s] = TRUE]
    /\ closing' = [closing EXCEPT ![Other(s)] = TRUE]
    /\ faults' = faults + 1
    /\ UNCHANGED goDown

(* The primary has the answer, closes its streams and ends its control     *)
(* thread (ism_storeHA_term), whatever became of the pair meanwhile; or    *)
(* the channel is gone before the answer, and ism_store_memTerm gives up.  *)
ShutdownAnswered(s) ==
    /\ closing[s] /\ view[s] # "DOWN"
    /\ closing' = [closing EXCEPT ![s] = FALSE]
    /\ \/ /\ goDown' = [goDown EXCEPT ![s] = 1]
          /\ viewBreak' = [viewBreak EXCEPT ![s] = TRUE]
       \/ viewBreak[s] /\ UNCHANGED <<goDown, viewBreak>>
    /\ UNCHANGED <<view, paired, synced, bits, sendBit, sbError, ending, open, out, nextS, silent, wire,
                   dead, turn, looked, faults>>

(* -------------------------------- time --------------------------------- *)

Limit(s) == HbTimeOut + Hbto[s] + 1

Tick ==
    /\ \A s \in Servers : Settled(s)
    /\ looked' = [s \in Servers |-> FALSE]
    /\ nextS' = [s \in Servers |-> [i \in Conns |-> IF nextS[s][i] = 0 THEN 0 ELSE nextS[s][i] - 1]]
    /\ silent' = [s \in Servers |-> [i \in Conns |->
                    IF silent[s][i] < Limit(s) THEN silent[s][i] + 1 ELSE silent[s][i]]]
    /\ UNCHANGED <<view, paired, synced, bits, sendBit, viewBreak, sbError, ending, goDown, closing, open, out,
                   wire, dead, turn, faults>>

(* ------------------------------------------------------------------------ *)

(* The view of the pair has just been raised on both servers.              *)
Init ==
    /\ view = [s \in Servers |-> IF s = "A" THEN "PRIMARY" ELSE "STANDBY"]
    /\ paired = [s \in Servers |-> TRUE]
    /\ synced = [s \in Servers |-> s = "A"]
    /\ bits = [s \in Servers |-> {}]
    /\ sendBit = [s \in Servers |-> FALSE]
    /\ viewBreak = [s \in Servers |-> FALSE]
    /\ sbError = [s \in Servers |-> FALSE]
    /\ ending = [s \in Servers |-> "OK"]
    /\ goDown = [s \in Servers |-> 0]
    /\ closing = [s \in Servers |-> FALSE]
    /\ open = [s \in Servers |-> [i \in Conns |-> TRUE]]
    /\ out = [s \in Servers |-> [i \in Conns |-> "none"]]
    /\ nextS \in [Servers -> {[i \in Conns |-> n[i]] : n \in [Conns -> {0, 1}]}]
    /\ silent = [s \in Servers |-> [i \in Conns |-> 0]]
    /\ wire = [s \in Servers |-> [i \in Conns |-> << >>]]
    /\ dead = [s \in Servers |-> [i \in Conns |-> FALSE]]
    /\ turn = [s \in Servers |-> "look"]
    /\ looked = [s \in Servers |-> FALSE]
    /\ faults = 0

Breaks ==
    \/ \E f \in LinkFaults : LinkFails(f[1], f[2])
    \/ \E s \in Servers : Crash(s) \/ ChannelBreaks(s) \/ ApplyFails(s) \/ ShutdownArrives(s)

Next ==
    \/ \E s \in Servers : Look(s) \/ Io(s) \/ SyncCompletes(s) \/ RecvThreadEnds(s) \/ LateShutdown(s)
                         \/ ChannelClosed(s) \/ ShutdownAnswered(s)
    \/ Tick
    \/ Breaks

Spec == Init /\ [][Next]_vars

(* The control threads and the receiving threads keep running, so time     *)
(* passes; every poll may find a connection ready, so one that stays ready *)
(* is served in the end.  Faults, the synchronization and the use of the   *)
(* data channels are not owed.                                             *)
FairSpec ==
    /\ Spec
    /\ SF_vars(Tick)
    /\ \A s \in Servers :
         /\ WF_vars(Look(s))
         /\ SF_vars(Io(s) /\ (goDown[s] = 0 => IoStep(s, Conns)))
         /\ WF_vars(RecvThreadEnds(s))
         /\ WF_vars(LateShutdown(s))

(* ------------------------------ properties ----------------------------- *)

(* Two servers never serve clients at the same time.                       *)
OnePrimary == \E s \in Servers : view[s] # "PRIMARY"

(* The discovery link is cut, or the replication link from the primary     *)
(* only: the request of the primary, or the silence it would notice, is    *)
(* lost.  Nothing in the exchange can tell this from the other's death.    *)
Isolated ==
    \/ \E s \in Servers : dead[s][0]
    \/ dead["A"][1] /\ ~dead["B"][1]

(* Whatever else breaks, only one of the servers goes on: a standby        *)
(* promotes itself only when its primary is gone, and not when it was told *)
(* by it to end (cip_raise_view called from the branches of                *)
(* ism_store_haThread).                                                    *)
OnePrimaryUnlessIsolated == Isolated \/ OnePrimary

(* A pair in which one server noticed a break is dissolved on both: the    *)
(* NOD_TRM and ACK_TRM exchange, the closing of the connections and the    *)
(* timeouts leave no server waiting in a pair that no longer replicates.   *)
BrokenPairEnds ==
    (\E s \in Servers : Running(s) /\ Trouble(s)) ~> (\A s \in Servers : ~Running(s))

(* When the primary dies, and was not being shut down, its synchronized    *)
(* standby takes over (VIEW_CHANGE_TYPE_BKUP_PRIM).                        *)
Failover ==
    (view["A"] = "DOWN" /\ goDown["A"] = 0 /\ ~closing["A"] /\ synced["B"]) ~> (view["B"] = "PRIMARY")

(* A broken pair does not linger, and a synchronized standby takes over.   *)
PairResolves == BrokenPairEnds /\ Failover
==========================================================================
