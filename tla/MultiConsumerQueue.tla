------------------------- MODULE MultiConsumerQueue -------------------------
(***************************************************************************)
(* Getting from a multi-consumer queue (server_engine/src/multiConsumerQ.c)*)
(* while transactions commit and roll back around it.                      *)
(*                                                                         *)
(* The messages are nodes in put order.  All getters share one get cursor; *)
(* who needs a message scans forward from it under the get lock, past what *)
(* is locked or taken, with the cursor set to "searching", higher than any *)
(* message, so that whoever makes a message available meanwhile is sure to *)
(* rewind it.  The message found is only kept if the cursor has not been   *)
(* rewound before it.  Threads that make messages available run            *)
(* checkWaiters, which gives messages to enabled consumers in batches.     *)
(*                                                                         *)
(* The lock manager appears through what it promises (module LockManager): *)
(* a lock that is being released makes a request wait, any other lock      *)
(* makes it fail.  Consumers are destructive getters that acknowledge.     *)
(***************************************************************************)
EXTENDS Integers, Sequences, FiniteSets, SequencesExt

CONSTANTS
    Threads,        \* threads that use the queue; each may have one transaction
    Consumers,      \* the queue's consumers
    MaxMsgs,        \* how many messages are ever put
    BatchSize,      \* iemq_chooseDeliveryBatchSizeFromMaxInflight
    DeliveryLimit,  \* targetBufferedMessages of a discarding queue; 0: no limit
    Returns         \* whether clients also hand messages back

ASSUME QueueParameters ==
    /\ IsFiniteSet(Threads) /\ IsFiniteSet(Consumers)
    /\ MaxMsgs \in Nat \ {0} /\ BatchSize \in Nat \ {0} /\ DeliveryLimit \in Nat
    /\ Returns \in BOOLEAN

NoThread == "none"
ASSUME NoThreadFresh == NoThread \notin Threads \union Consumers

Nodes == 1 .. (MaxMsgs + 1)     \* the node after the last message is always there
Searching == MaxMsgs + 2        \* IEMQ_GETCURSOR_SEARCHING

VARIABLES
    tail,       \* how many nodes have been assigned to puts
    node,       \* node[n]: its state and whether it holds a message
    lock,       \* lock[n]: the thread whose transaction has n locked
    releasing,  \* threads between releaseAllLocksBegin and the end of Complete
    getCursor,  \* Q->getCursor
    getlock,    \* who holds Q->getlock
    status,     \* status[c]: the consumer's waiter status
    inflight,   \* Q->inflightEnqs + Q->inflightDeqs
    prevented,  \* Q->fullDeliveryPrevention
    out,        \* out: nodes that clients have and have not acknowledged
    pc,         \* pc[t]: where thread t is
    puts,       \* puts[t]: nodes put in t's transaction, oldest first
    acks,       \* acks[t]: nodes acknowledged in t's transaction
    woken,      \* woken[t]: t's transaction made messages available
    todo,       \* todo[t]: nodes t still has to rewind to or to unlock
    cons,       \* cons[t]: the consumer t is delivering to
    pos,        \* pos[t]: the node t is looking at
    batch,      \* batch[t]: the nodes t has found for cons[t]
    left,       \* left[t]: consumers t has not looked at in this pass
    met,        \* met[t]: the statuses t met among the others
    short       \* history: the unfinished transactional put at which the last
                \*   search took the queue to end; 0 if it went to the real end

tranVars == <<puts, acks, woken>>
scanVars == <<cons, pos, batch, left, met, short>>
vars == <<tail, node, lock, releasing, getCursor, getlock, status, inflight, prevented, out,
          pc, puts, acks, woken, todo, cons, pos, batch, left, met, short>>

TranPcs == {"rewind", "unlock", "posted"}
GetPcs == {"mark", "cas", "scan", "keep", "giveup"}

(***************************************************************************)
(* Type correctness.                                                       *)
(***************************************************************************)
TypeOK ==
    /\ tail \in 0 .. MaxMsgs
    /\ node \in [Nodes -> [state : {"available", "delivered", "consumed"}, msg : BOOLEAN]]
    /\ lock \in [Nodes -> Threads \union {NoThread}]
    /\ releasing \in SUBSET Threads
    /\ getCursor \in Nodes \union {Searching}
    /\ getlock \in Threads \union {NoThread}
    /\ status \in [Consumers -> {"disabled", "enabled", "getting", "delivering"}]
    /\ inflight \in 0 .. MaxMsgs
    /\ prevented \in BOOLEAN
    /\ out \in SUBSET Nodes
    /\ pc \in [Threads -> {"idle", "put", "tranput", "nack", "check", "full", "prevent",
                           "recheck", "allow", "exchange", "look",
                            "lock", "deliver", "undo", "undone", "startable"}
                           \union TranPcs \union GetPcs]
    /\ puts \in [Threads -> Seq(Nodes)]
    /\ acks \in [Threads -> Seq(Nodes)]
    /\ woken \in [Threads -> BOOLEAN]
    /\ todo \in [Threads -> Seq(Nodes)]
    /\ cons \in [Threads -> Consumers \union {NoThread}]
    /\ pos \in [Threads -> 0 .. (MaxMsgs + 1)]
    /\ batch \in [Threads -> Seq(Nodes)]
    /\ left \in [Threads -> SUBSET Consumers]
    /\ met \in [Threads -> SUBSET {"getting", "delivering"}]
    /\ short \in 0 .. MaxMsgs

Init ==
    /\ tail = 0
    /\ node = [n \in Nodes |-> [state |-> "available", msg |-> FALSE]]
    /\ lock = [n \in Nodes |-> NoThread]
    /\ releasing = {}
    /\ getCursor = 1
    /\ getlock = NoThread
    /\ status = [c \in Consumers |-> "disabled"]
    /\ inflight = 0
    /\ prevented = FALSE
    /\ out = {}
    /\ pc = [t \in Threads |-> "idle"]
    /\ puts = [t \in Threads |-> << >>]
    /\ acks = [t \in Threads |-> << >>]
    /\ woken = [t \in Threads |-> FALSE]
    /\ todo = [t \in Threads |-> << >>]
    /\ cons = [t \in Threads |-> NoThread]
    /\ pos = [t \in Threads |-> 0]
    /\ batch = [t \in Threads |-> << >>]
    /\ left = [t \in Threads |-> {}]
    /\ met = [t \in Threads |-> {}]
    /\ short = 0

Goto(t, l) == pc' = [pc EXCEPT ![t] = l]

(* Q->bufferedMsgs: what has been assigned a node and is not consumed.      *)
bufferedMsgs == {n \in 1 .. tail : node[n].state # "consumed" \/ node[n].msg}

----------------------------------------------------------------------------
(* Putting                                                                 *)

(* iemq_assignQSlot: the next node, under the put lock.  In a transaction  *)
(* the message is locked before anybody can see it.                        *)
AssignQSlot(t, inTran) ==
    /\ pc[t] = "idle"
    /\ tail < MaxMsgs
    /\ inTran \/ (puts[t] = << >> /\ acks[t] = << >>)
    /\ tail' = tail + 1
    /\ IF inTran
       THEN /\ lock' = [lock EXCEPT ![tail'] = t]
            /\ inflight' = inflight + 1
            /\ puts' = [puts EXCEPT ![t] = Append(@, tail')]
            /\ Goto(t, "tranput")
       ELSE /\ Goto(t, "put")
            /\ UNCHANGED <<lock, inflight, puts>>
    /\ pos' = [pos EXCEPT ![t] = tail']
    /\ UNCHANGED <<node, releasing, getCursor, getlock, status, prevented, out, acks, woken, todo,
                   cons, batch, left, met, short>>

(* iemq_finishPut: the message appears in its node; a put outside any      *)
(* transaction then looks for someone to give messages to.                 *)
FinishPut(t) ==
    /\ pc[t] \in {"put", "tranput"}
    /\ node' = [node EXCEPT ![pos[t]].msg = TRUE]
    /\ pos' = [pos EXCEPT ![t] = 0]
    /\ Goto(t, IF pc[t] = "put" THEN "check" ELSE "idle")
    /\ UNCHANGED <<tail, lock, releasing, getCursor, getlock, status, inflight, prevented, out,
                   puts, acks, woken, todo, cons, batch, left, met, short>>

----------------------------------------------------------------------------
(* Ending a transaction                                                    *)

(* The whole transaction: what it locked, oldest first.                    *)
Locked(t) == puts[t] \o acks[t]

(* Mutant: MemoryCommit does not rewind the cursor.                       *)
CommitWithoutRewind(t) ==
    /\ pc[t] = "idle"
    /\ Locked(t) # << >>
    /\ node' = [n \in Nodes |-> IF n \in ToSet(acks[t]) THEN [node[n] EXCEPT !.msg = FALSE] ELSE node[n]]
    /\ inflight' = inflight - Len(Locked(t))
    /\ releasing' = releasing \union {t}
    /\ todo' = [todo EXCEPT ![t] = << >>]
    /\ woken' = [woken EXCEPT ![t] = puts[t] # << >>]
    /\ Goto(t, "rewind")
    /\ UNCHANGED <<tail, lock, getCursor, getlock, status, prevented, out, puts, acks, scanVars>>

(* Commit phase of the soft log: puts stop being in flight and             *)
(* acknowledged messages go; then releaseAllLocksBegin marks the locks.    *)
(* MemoryCommit rewinds the cursor for the puts, still locked.             *)
Commit(t) ==
    /\ pc[t] = "idle"
    /\ Locked(t) # << >>
    /\ node' = [n \in Nodes |-> IF n \in ToSet(acks[t]) THEN [node[n] EXCEPT !.msg = FALSE] ELSE node[n]]
    /\ inflight' = inflight - Len(Locked(t))
    /\ releasing' = releasing \union {t}
    /\ todo' = [todo EXCEPT ![t] = puts[t]]
    /\ woken' = [woken EXCEPT ![t] = puts[t] # << >>]
    /\ Goto(t, "rewind")
    /\ UNCHANGED <<tail, lock, getCursor, getlock, status, prevented, out, puts, acks, scanVars>>

(* Rollback phase: puts are written off and acknowledged messages become   *)
(* available, all still locked.  MemoryRollback rewinds for the latter.    *)
Rollback(t) ==
    /\ pc[t] = "idle"
    /\ Locked(t) # << >>
    /\ Returns \/ acks[t] = << >>
    /\ node' = [n \in Nodes |->
                  CASE n \in ToSet(puts[t]) -> [state |-> "consumed", msg |-> FALSE]
                    [] n \in ToSet(acks[t]) -> [node[n] EXCEPT !.state = "available"]
                    [] OTHER -> node[n]]
    /\ inflight' = inflight - Len(Locked(t))
    /\ releasing' = releasing \union {t}
    /\ todo' = [todo EXCEPT ![t] = acks[t]]
    /\ woken' = [woken EXCEPT ![t] = acks[t] # << >>]
    /\ Goto(t, "rewind")
    /\ UNCHANGED <<tail, lock, getCursor, getlock, status, prevented, out, puts, acks, scanVars>>

Earlier(m, n) == IF m < n THEN m ELSE n

(* iemq_rewindGetCursor for one message of the memory phase.               *)
RewindGetCursor(t) ==
    /\ pc[t] = "rewind"
    /\ todo[t] # << >>
    /\ getCursor' = Earlier(Head(todo[t]), getCursor)
    /\ todo' = [todo EXCEPT ![t] = Tail(@)]
    /\ UNCHANGED <<tail, node, lock, releasing, getlock, status, inflight, prevented, out, pc,
                   tranVars, scanVars>>

(* releaseAllLocksComplete unlinks the locks, newest first.                *)
StartComplete(t) ==
    /\ pc[t] = "rewind"
    /\ todo[t] = << >>
    /\ todo' = [todo EXCEPT ![t] = Reverse(Locked(t))]
    /\ Goto(t, "unlock")
    /\ UNCHANGED <<tail, node, lock, releasing, getCursor, getlock, status, inflight, prevented,
                   out, tranVars, scanVars>>

Unlock(t) ==
    /\ pc[t] = "unlock"
    /\ todo[t] # << >>
    /\ lock' = [lock EXCEPT ![Head(todo[t])] = NoThread]
    /\ todo' = [todo EXCEPT ![t] = Tail(@)]
    /\ UNCHANGED <<tail, node, releasing, getCursor, getlock, status, inflight, prevented, out,
                   pc, tranVars, scanVars>>

(* After the release: a committed put and a rolled back acknowledgement    *)
(* call checkWaiters, the others only if delivery had been stopped.        *)
PostRelease(t) ==
    /\ pc[t] = "unlock"
    /\ todo[t] = << >>
    /\ releasing' = releasing \ {t}
    /\ Goto(t, IF woken[t] THEN "check" ELSE "startable")
    /\ woken' = [woken EXCEPT ![t] = FALSE]
    /\ puts' = [puts EXCEPT ![t] = << >>]
    /\ acks' = [acks EXCEPT ![t] = << >>]
    /\ UNCHANGED <<tail, node, lock, getCursor, getlock, status, inflight, prevented, out, todo,
                   scanVars>>

----------------------------------------------------------------------------
(* What clients do                                                         *)

(* iemq_completeConsumeAck outside a transaction.                          *)
Acknowledge(t, n) ==
    /\ pc[t] = "idle"
    /\ n \in out
    /\ puts[t] = << >> /\ acks[t] = << >>
    /\ out' = out \ {n}
    /\ inflight' = inflight - 1
    /\ node' = [node EXCEPT ![n] = [state |-> "consumed", msg |-> FALSE]]
    /\ Goto(t, "startable")
    /\ UNCHANGED <<tail, lock, releasing, getCursor, getlock, status, prevented, tranVars, todo,
                   scanVars>>

(* iemq_completeConsumeAck in t's transaction: the message, which nobody   *)
(* else should be fiddling with, is locked until the transaction ends.     *)
AcknowledgeInTran(t, n) ==
    /\ pc[t] = "idle"
    /\ n \in out
    /\ out' = out \ {n}
    /\ lock' = [lock EXCEPT ![n] = t]
    /\ acks' = [acks EXCEPT ![t] = Append(@, n)]
    /\ node' = [node EXCEPT ![n].state = "consumed"]
    /\ UNCHANGED <<tail, releasing, getCursor, getlock, status, inflight, prevented, pc, puts,
                   woken, todo, scanVars>>

(* iemq_processNack: available first, and only then the cursor.            *)
NackAvailable(t, n) ==
    /\ Returns
    /\ pc[t] = "idle"
    /\ n \in out
    /\ puts[t] = << >> /\ acks[t] = << >>
    /\ out' = out \ {n}
    /\ node' = [node EXCEPT ![n].state = "available"]
    /\ inflight' = inflight - 1
    /\ pos' = [pos EXCEPT ![t] = n]
    /\ Goto(t, "nack")
    /\ UNCHANGED <<tail, lock, releasing, getCursor, getlock, status, prevented, tranVars, todo,
                   cons, batch, left, met, short>>

NackRewind(t) ==
    /\ pc[t] = "nack"
    /\ getCursor' = Earlier(pos[t], getCursor)
    /\ pos' = [pos EXCEPT ![t] = 0]
    /\ Goto(t, "check")
    /\ UNCHANGED <<tail, node, lock, releasing, getlock, status, inflight, prevented, out,
                   tranVars, todo, cons, batch, left, met, short>>

(* A consumer that starts, or starts again, is enabled and looked after.   *)
EnableWaiter(t, c) ==
    /\ pc[t] = "idle"
    /\ puts[t] = << >> /\ acks[t] = << >>
    /\ status[c] = "disabled"
    /\ status' = [status EXCEPT ![c] = "enabled"]
    /\ Goto(t, "check")
    /\ UNCHANGED <<tail, node, lock, releasing, getCursor, getlock, inflight, prevented, out,
                   tranVars, todo, scanVars>>

(* iemq_checkFullDeliveryStartable: the flag is looked at, and if delivery *)
(* could start, exchanged, so that one thread alone starts it.             *)
CheckStartable(t) ==
    /\ pc[t] = "startable"
    /\ Goto(t, IF prevented /\ inflight < DeliveryLimit THEN "exchange" ELSE "idle")
    /\ UNCHANGED <<tail, node, lock, releasing, getCursor, getlock, status, inflight, prevented,
                   out, tranVars, todo, scanVars>>

ExchangePrevention(t) ==
    /\ pc[t] = "exchange"
    /\ prevented' = FALSE
    /\ Goto(t, IF prevented THEN "check" ELSE "idle")
    /\ UNCHANGED <<tail, node, lock, releasing, getCursor, getlock, status, inflight, out,
                   tranVars, todo, scanVars>>

----------------------------------------------------------------------------
(* iemq_checkWaiters                                                       *)

CheckWaiters(t) ==
    /\ pc[t] = "check"
    /\ Goto(t, IF bufferedMsgs = {} THEN "idle" ELSE "full")
    /\ UNCHANGED <<tail, node, lock, releasing, getCursor, getlock, status, inflight, prevented,
                   out, tranVars, todo, scanVars>>

TooMany == DeliveryLimit > 0 /\ inflight >= DeliveryLimit

StartPass(t) ==
    /\ left' = [left EXCEPT ![t] = Consumers]
    /\ met' = [met EXCEPT ![t] = {}]
    /\ Goto(t, "look")

(* iemq_checkAndSetFullDeliveryPrevention: set, then look again, since the *)
(* last acknowledgement may have come before the flag did.                 *)
CheckFullDelivery(t) ==
    /\ pc[t] = "full"
    /\ Goto(t, IF TooMany THEN "prevent" ELSE "allow")
    /\ UNCHANGED <<tail, node, lock, releasing, getCursor, getlock, status, inflight, prevented,
                   out, tranVars, todo, scanVars>>

PreventDelivery(t) ==
    /\ pc[t] = "prevent"
    /\ prevented' = TRUE
    /\ Goto(t, "recheck")
    /\ UNCHANGED <<tail, node, lock, releasing, getCursor, getlock, status, inflight, out,
                   tranVars, todo, scanVars>>

RecheckFullDelivery(t) ==
    /\ pc[t] = "recheck"
    /\ Goto(t, IF TooMany THEN "idle" ELSE "allow")
    /\ UNCHANGED <<tail, node, lock, releasing, getCursor, getlock, status, inflight, prevented,
                   out, tranVars, todo, scanVars>>

AllowDelivery(t) ==
    /\ pc[t] = "allow"
    /\ prevented' = FALSE
    /\ StartPass(t)
    /\ UNCHANGED <<tail, node, lock, releasing, getCursor, getlock, status, inflight, out,
                   tranVars, todo, cons, pos, batch, short>>

(* iemq_lockWillingWaiter: the first enabled consumer is ours; the others  *)
(* are noted.                                                              *)
LockWaiter(t, c) ==
    /\ pc[t] = "look"
    /\ c \in left[t]
    /\ IF status[c] = "enabled"
       THEN /\ status' = [status EXCEPT ![c] = "getting"]
            /\ cons' = [cons EXCEPT ![t] = c]
            /\ left' = [left EXCEPT ![t] = {}]
            /\ met' = [met EXCEPT ![t] = {}]
            /\ Goto(t, "lock")
       ELSE /\ left' = [left EXCEPT ![t] = @ \ {c}]
            /\ met' = [met EXCEPT ![t] = @ \union ({status[c]} \ {"disabled"})]
            /\ UNCHANGED <<status, cons, pc>>
    /\ UNCHANGED <<tail, node, lock, releasing, getCursor, getlock, inflight, prevented, out,
                   tranVars, todo, pos, batch, short>>

(* A consumer in getting may have missed our message, so look again; one   *)
(* in delivering is sure to get again.                                     *)
NoWaiter(t) ==
    /\ pc[t] = "look"
    /\ left[t] = {}
    /\ IF met[t] = {"getting"}
       THEN StartPass(t)
       ELSE met' = [met EXCEPT ![t] = {}] /\ Goto(t, "idle") /\ UNCHANGED left
    /\ UNCHANGED <<tail, node, lock, releasing, getCursor, getlock, status, inflight, prevented,
                   out, tranVars, todo, cons, pos, batch, short>>

----------------------------------------------------------------------------
(* iemq_locateMessageForGetter, under the get lock                         *)

TakeGetLock(t) ==
    /\ pc[t] = "lock"
    /\ getlock = NoThread
    /\ getlock' = t
    /\ pos' = [pos EXCEPT ![t] = getCursor]
    /\ Goto(t, "mark")
    /\ UNCHANGED <<tail, node, lock, releasing, getCursor, status, inflight, prevented, out,
                   tranVars, todo, cons, batch, left, met, short>>

(* iemq_markMessageIfGettable: an available node without a message is the  *)
(* end of the queue; a lock being released is waited for.                  *)
Present(n) == node[n].state = "available" /\ node[n].msg
AtEnd(n) == node[n].state = "available" /\ ~node[n].msg
Gettable(n) == Present(n) /\ lock[n] = NoThread
Skipped(n) == ~AtEnd(n) /\ (Present(n) => lock[n] \notin releasing \union {NoThread})

(* Mutant: the lock manager is not asked.                                  *)
MarkLocked(t) ==
    /\ Present(pos[t])
    /\ node' = [node EXCEPT ![pos[t]].state = "delivered"]
    /\ Goto(t, "keep")
    /\ UNCHANGED <<getlock, pos, short>>

MarkDelivered(t) ==
    /\ Gettable(pos[t])
    /\ node' = [node EXCEPT ![pos[t]].state = "delivered"]
    /\ Goto(t, "keep")
    /\ UNCHANGED <<getlock, pos, short>>

(* No message: remember whether this was the real end of the queue.        *)
EndSearch(t) ==
    /\ getlock' = NoThread
    /\ short' = IF lock[pos[t]] = NoThread THEN 0 ELSE pos[t]
    /\ Goto(t, "giveup")

(* The node the cursor is at, before anybody is told that we search.       *)
TryCursor(t) ==
    /\ pc[t] = "mark"
    /\ \/ MarkDelivered(t)
       \/ Skipped(pos[t]) /\ Goto(t, "cas") /\ UNCHANGED <<node, getlock, pos, short>>
       \/ AtEnd(pos[t]) /\ EndSearch(t) /\ UNCHANGED <<node, pos>>
    /\ UNCHANGED <<tail, lock, releasing, getCursor, status, inflight, prevented, out, tranVars,
                   todo, cons, batch, left, met>>

(* If the cursor has moved, whoever rewound it will call checkWaiters.     *)
SetSearching(t) ==
    /\ pc[t] = "cas"
    /\ IF getCursor = pos[t]
       THEN getCursor' = Searching /\ Goto(t, "scan") /\ UNCHANGED getlock
       ELSE getlock' = NoThread /\ Goto(t, "giveup") /\ UNCHANGED getCursor
    /\ UNCHANGED <<tail, node, lock, releasing, status, inflight, prevented, out, tranVars, todo,
                   scanVars>>

(* iemq_updateGetCursor: fails if the cursor was rewound before limit.     *)
UpdateGetCursor(limit, new) ==
    getCursor' = IF limit <= getCursor THEN new ELSE getCursor

ScanForward(t) ==
    /\ pc[t] = "scan"
    /\ \/ MarkDelivered(t) /\ UNCHANGED getCursor
       \/ Skipped(pos[t]) /\ pos' = [pos EXCEPT ![t] = @ + 1] /\ UNCHANGED <<node, getlock, getCursor, pc, short>>
       \/ /\ AtEnd(pos[t])
          /\ UpdateGetCursor(pos[t], pos[t])
          /\ EndSearch(t)
          /\ UNCHANGED <<node, pos>>
    /\ UNCHANGED <<tail, lock, releasing, status, inflight, prevented, out, tranVars, todo, cons,
                   batch, left, met>>

(* Mutant: a rewind behind the scan is not noticed.                       *)
KeptAnyway(t) == TRUE

Kept(t) == pos[t] <= getCursor

(* The message found is ours if the cursor is not before it; if it is, the *)
(* message goes back, and the queue is looked at again.                    *)
KeepOrReturn(t) ==
    /\ pc[t] = "keep"
    /\ UpdateGetCursor(pos[t], pos[t] + 1)
    /\ getlock' = NoThread
    /\ IF Kept(t)
       THEN /\ batch' = [batch EXCEPT ![t] = Append(@, pos[t])]
            /\ status' = [status EXCEPT ![cons[t]] = "delivering"]
            /\ Goto(t, IF Len(batch'[t]) < BatchSize THEN "lock" ELSE "deliver")
            /\ UNCHANGED <<node, cons>>
       ELSE /\ node' = [node EXCEPT ![pos[t]].state = "available"]
            /\ IF batch[t] = << >>
               THEN /\ status' = [status EXCEPT ![cons[t]] = "enabled"]
                    /\ cons' = [cons EXCEPT ![t] = NoThread]
                    /\ Goto(t, "full")
               ELSE Goto(t, "deliver") /\ UNCHANGED <<status, cons>>
            /\ UNCHANGED batch
    /\ pos' = [pos EXCEPT ![t] = 0]
    /\ UNCHANGED <<tail, lock, releasing, inflight, prevented, out, tranVars, todo, left, met, short>>

(* No message: without a batch checkWaiters is over.                       *)
GiveUp(t) ==
    /\ pc[t] = "giveup"
    /\ pos' = [pos EXCEPT ![t] = 0]
    /\ IF batch[t] = << >>
       THEN /\ status' = [status EXCEPT ![cons[t]] = "enabled"]
            /\ cons' = [cons EXCEPT ![t] = NoThread]
            /\ Goto(t, "idle")
       ELSE Goto(t, "deliver") /\ UNCHANGED <<status, cons>>
    /\ UNCHANGED <<tail, node, lock, releasing, getCursor, getlock, inflight, prevented, out,
                   tranVars, todo, batch, left, met, short>>

----------------------------------------------------------------------------
(* iemq_deliverMessages                                                    *)

Release(t, s) ==
    /\ status' = [status EXCEPT ![cons[t]] = s]
    /\ cons' = [cons EXCEPT ![t] = NoThread]
    /\ Goto(t, "full")

(* One message to the consumer's callback, which says whether it wants     *)
(* more.  If not, the consumer is disabled once the rest is back.          *)
DeliverMessage(t, wantsMore) ==
    /\ pc[t] = "deliver"
    /\ out' = out \union {Head(batch[t])}
    /\ inflight' = inflight + 1
    /\ batch' = [batch EXCEPT ![t] = Tail(@)]
    /\ IF batch'[t] = << >>
       THEN Release(t, IF wantsMore THEN "enabled" ELSE "disabled")
       ELSE Goto(t, IF wantsMore THEN "deliver" ELSE "undo") /\ UNCHANGED <<status, cons>>
    /\ UNCHANGED <<tail, node, lock, releasing, getCursor, getlock, prevented, tranVars, todo,
                   pos, left, met, short>>

(* iemq_completeUndoInitialPrepareMessage: the rest of the batch becomes   *)
(* available, and then the cursor is rewound to the earliest of it.        *)
UndoBatch(t) ==
    /\ pc[t] = "undo"
    /\ node' = [n \in Nodes |-> IF n \in ToSet(batch[t]) THEN [node[n] EXCEPT !.state = "available"]
                                ELSE node[n]]
    /\ Goto(t, "undone")
    /\ UNCHANGED <<tail, lock, releasing, getCursor, getlock, status, inflight, prevented, out,
                   tranVars, todo, scanVars>>

UndoRewind(t) ==
    /\ pc[t] = "undone"
    /\ getCursor' = Earlier(CHOOSE m \in ToSet(batch[t]) : \A n \in ToSet(batch[t]) : m <= n, getCursor)
    /\ batch' = [batch EXCEPT ![t] = << >>]
    /\ Release(t, "disabled")
    /\ UNCHANGED <<tail, node, lock, releasing, getlock, inflight, prevented, out, tranVars, todo,
                   pos, left, met, short>>

----------------------------------------------------------------------------
TranEnds(t) == RewindGetCursor(t) \/ StartComplete(t) \/ Unlock(t) \/ PostRelease(t)

Checks(t) ==
    \/ CheckStartable(t) \/ ExchangePrevention(t) \/ CheckWaiters(t) \/ CheckFullDelivery(t)
    \/ PreventDelivery(t) \/ RecheckFullDelivery(t) \/ AllowDelivery(t)
    \/ \E c \in Consumers : LockWaiter(t, c)
    \/ NoWaiter(t)

Locates(t) ==
    TakeGetLock(t) \/ TryCursor(t) \/ SetSearching(t) \/ ScanForward(t) \/ KeepOrReturn(t) \/ GiveUp(t)

Delivers(t) == (\E more \in BOOLEAN : DeliverMessage(t, more)) \/ UndoBatch(t) \/ UndoRewind(t)

(* What a thread inside the engine goes on to do by itself.                *)
Continue(t) == FinishPut(t) \/ TranEnds(t) \/ NackRewind(t) \/ Checks(t) \/ Locates(t) \/ Delivers(t)

Requests(t) ==
    \/ \E inTran \in BOOLEAN : AssignQSlot(t, inTran)
    \/ Commit(t) \/ Rollback(t)
    \/ \E n \in Nodes : Acknowledge(t, n) \/ AcknowledgeInTran(t, n) \/ NackAvailable(t, n)
    \/ \E c \in Consumers : EnableWaiter(t, c)

(* All messages put, taken and acknowledged: nothing is left to ask for.   *)
Finished ==
    /\ tail = MaxMsgs /\ out = {}
    /\ \A t \in Threads : pc[t] = "idle" /\ Locked(t) = << >>
    /\ \A c \in Consumers : status[c] # "disabled"
    /\ UNCHANGED vars

Next == (\E t \in Threads : Requests(t) \/ Continue(t)) \/ Finished

Spec == Init /\ [][Next]_vars

(* A thread inside the engine keeps running, and gets the get lock if it   *)
(* is free again and again; clients need not do anything.                  *)
Fairness ==
    \A t \in Threads : WF_vars(Continue(t)) /\ SF_vars(TakeGetLock(t))

FairSpec == Spec /\ Fairness

----------------------------------------------------------------------------
Quiet == \A t \in Threads : pc[t] \in {"idle"} /\ t \notin releasing

(***************************************************************************)
(* iemq_checkWaiters, iemq_lockWillingWaiter: no message is trapped.  When *)
(* every thread has left the queue, either no consumer is waiting, or so   *)
(* much is in flight that an acknowledgement will restart delivery, or     *)
(* there is nothing to get, but behind a put that was unfinished when the  *)
(* last search for a message met it.                                       *)
(***************************************************************************)
Served(n) ==
    \/ ~Gettable(n)
    \/ \A c \in Consumers : status[c] # "enabled"
    \/ TooMany /\ prevented

NothingTrapped ==
    Quiet => \A n \in Nodes : (short > 0 /\ short < n) \/ Served(n)

(***************************************************************************)
(* The comment in iemq_markMessageIfGettable: whoever makes a message      *)
(* available after the getter looked calls checkWaiters, so no message     *)
(* stays on the queue while a consumer waits and no transaction is open.   *)
(* But a put in a transaction that fills its node after the getter took it *)
(* for the end of the queue calls nothing, nor does its rollback.          *)
(***************************************************************************)
NeverTrapped ==
    (Quiet /\ \A t \in Threads : Locked(t) = << >>) => \A n \in Nodes : Served(n)

(***************************************************************************)
(* iemq_rewindGetCursor: with nobody scanning, no message that could be    *)
(* got lies before the get cursor, except one that its thread is about to  *)
(* rewind for.                                                             *)
(***************************************************************************)
AboutToRewind(t) ==
    CASE pc[t] = "nack" -> {pos[t]}
      [] pc[t] = "undone" -> ToSet(batch[t])
      [] OTHER -> {}

CursorNotPastMessages ==
    getlock = NoThread =>
        \A n \in Nodes : (Gettable(n) /\ n < getCursor) => \E t \in Threads : n \in AboutToRewind(t)

(***************************************************************************)
(* A message is in one place: in one thread's batch, with a client, or on  *)
(* the queue.                                                              *)
(***************************************************************************)
InHand(t) == IF pc[t] = "undone" THEN {} ELSE ToSet(batch[t])

DeliveredOnce ==
    /\ \A t, u \in Threads : t # u => InHand(t) \cap InHand(u) = {}
    /\ \A t \in Threads : \A n \in InHand(t) : node[n].state = "delivered" /\ n \notin out
    /\ \A n \in out : node[n].state = "delivered"

(***************************************************************************)
(* Transactions are isolated: what is on its way to a consumer, or with a  *)
(* client, was put by nobody whose transaction is still open or was rolled *)
(* back.                                                                   *)
(***************************************************************************)
OnlyCommittedDelivered ==
    \A n \in out \union UNION {InHand(t) : t \in Threads} :
        /\ node[n].msg
        /\ \A t \in Threads \ releasing : n \notin ToSet(Locked(t))

(***************************************************************************)
(* iemq_updateGetCursor: messages are got in the order they were put.      *)
(* When a getter keeps a message, no earlier one is there to be got,       *)
(* whatever commits and rollbacks happened since it passed that point;     *)
(* only a message being handed back, and not yet rewound for, is excepted. *)
(***************************************************************************)
Keeps(t) == batch'[t] # batch[t] /\ pc[t] = "keep"

GotInOrder ==
    [][\A t \in Threads : Keeps(t) =>
          \A m \in 1 .. (pos[t] - 1) :
              Gettable(m) => \E u \in Threads : m \in AboutToRewind(u)]_vars

(***************************************************************************)
(* iemq_checkWaiters: every message that can be got is got, unless no      *)
(* consumer is waiting or too much is in flight, or a search took an       *)
(* unfinished put before it for the end of the queue.                      *)
(***************************************************************************)
MessagesGot ==
    \A n \in 1 .. MaxMsgs :
        Gettable(n) ~> \/ ~Gettable(n) \/ TooMany \/ (short > 0 /\ short < n)
                       \/ \A c \in Consumers : status[c] = "disabled"

(***************************************************************************)
(* A message goes to one consumer at a time, and only when its put has     *)
(* been committed.                                                         *)
(***************************************************************************)
OnceWhenCommitted == TypeOK /\ DeliveredOnce /\ OnlyCommittedDelivered

(***************************************************************************)
(* No message is out of reach of the consumers: behind the get cursor, or  *)
(* before it with a waiting consumer and nobody who will look.             *)
(***************************************************************************)
NothingOutOfReach == CursorNotPastMessages /\ NothingTrapped
=============================================================================
