-------------------------- MODULE ConsumerDelivery --------------------------
(***************************************************************************)
(* Delivery from a simple queue to the consumers of a session.             *)
(*                                                                         *)
(* Threads of the server put messages (simpQ.c), start, stop and resume    *)
(* delivery and create and destroy consumers (engine.c), fire the status   *)
(* callbacks (messageDelivery.c), discard and expire messages; all of them *)
(* meet in the waiter status word of the queue (module WaiterStatus).      *)
(*                                                                         *)
(* Each thread has a program counter and a call stack.  A step of a thread *)
(* is one access to shared data: a compare-and-swap, an atomic add, a read *)
(* that is acted upon, or a section under the session lock that calls      *)
(* nothing.  The page structure of the queue is abstracted here to a       *)
(* sequence of nodes.                                                      *)
(***************************************************************************)
EXTENDS WaiterStatus, Integers, Sequences, FiniteSets

CONSTANTS
  Threads,          \* server threads
  Consumers,        \* consumer structures; each is created at most once
  Msgs,             \* messages; each is put at most once
  Expiring,         \* the messages with Header.Expiry # 0 (at most NUM_EARLIEST_MESSAGES)
  MaxMsgCount,      \* PolicyInfo->maxMessageCount (0 is unlimited)
  MaxMsgBehavior,   \* PolicyInfo->maxMsgBehavior
  ExplicitSuspends, \* pSession->fExplicitSuspends
  CallbackOps,      \* the calls the message callback may make into the engine
  Budget,           \* how many times each kind of call is made
  SlowPut,          \* TRUE: a message may reach its expiry during its own put
  RacingDestroy,    \* TRUE: a session may be destroyed while a consumer joins it
                    \*   or while its delivery is being stopped
  NoThread, NoConsumer, NoMsg, NoCb

Ops == {"put", "reap", "start", "stop", "resume", "create", "destroy",
        "destroySession", "deleteQ"}

(* Program counters.  A thread at one of LockPcs owns the waiter lock; so  *)
(* does a thread inside the message callback (cb[t] # NoCb).               *)
LockPcs == {"get", "got", "deliver", "reenable", "pend", "empty", "complete",
            "waiterDisabledCB", "endStop", "completeUnlock", "disabling",
            "disconnect", "disconnecting", "reclaim", "reapWork", "unlock", "ffdc", "crash"}

FreePcs == {"idle", "suspended", "putTry", "putToWaitingGetter", "enqueue", "count",
            "addExpiry", "store", "postput", "postput2", "putDone",
            "check", "checkLock", "reclaimLock", "reapLock", "reapDone",
            "uncancelCB", "uncancelEndStop", "removed", "reducePreDelete", "release",
            "finishDestroy", "term", "acquire", "enable", "enableUndo", "disable",
            "startNext", "startDeliver", "startRelease", "resumeCheck",
            "stopDisable", "stopNext", "stopDone", "stopFinish",
            "createConnect", "createLink", "createUnlock", "createDone",
            "sessMark", "sessNack", "sessNext", "sessRelease"}

(* Where a function that has been called returns to.                       *)
ReturnPcs == {"putDone", "postput", "postput2", "reapDone", "check", "checkLock", "release",
              "startNext", "startRelease", "startDeliver", "resumeCheck", "enableUndo",
              "stopNext", "stopDone", "createUnlock", "createDone", "sessNext", "sessRelease"}

Frame == [pc : ReturnPcs, con : Consumers \cup {NoConsumer}, cur : Msgs \cup {NoMsg}]

Callback == [stack : Seq(Frame), con : Consumers \cup {NoConsumer},
             after : {"check", "checkLock"}]

Locals == [con : Consumers \cup {NoConsumer}, cur : Msgs \cup {NoMsg}, old : Status,
           after : LockPcs \cup FreePcs, deliver : BOOLEAN, wasEnabled : BOOLEAN]

SessionRecord == [started : BOOLEAN, stopping : BOOLEAN, destroyed : BOOLEAN,
                  activeCallbacks : Int, useCount : Int, preNackAll : Int,
                  list : Seq(Consumers), lock : Threads \cup {NoThread}]

NodeRecord == [msg : Msgs, state : {"empty", "full", "removed"}]

ASSUME ConstantsAssumption ==
  /\ Expiring \subseteq Msgs
  /\ MaxMsgCount \in Nat
  /\ MaxMsgBehavior \in {"RejectNewMessages", "DiscardOldMessages"}
  /\ ExplicitSuspends \in BOOLEAN
  /\ CallbackOps \subseteq Ops
  /\ Budget \in [Ops -> Nat]
  /\ SlowPut \in BOOLEAN
  /\ RacingDestroy \in BOOLEAN
  /\ NoThread \notin Threads
  /\ NoConsumer \notin Consumers
  /\ NoMsg \notin Msgs
  /\ NoCb \notin Callback

VARIABLES
  \* the queue (iesqQueue_t)
  waiterStatus, pConsumer, nodes, bufferedMsgs, preDeleteCount, expiryData,
  \* the consumers (ismEngine_Consumer_t)
  useCount, fIsDestroyed, consumerState,
  \* the session (ismEngine_Session_t)
  session,
  \* the threads
  pc, stack, cb, loc,
  \* what became of each message, and the clock
  fate, earlier, returned, late,
  budget

queueVars    == <<waiterStatus, pConsumer, nodes, bufferedMsgs, preDeleteCount, expiryData>>
consumerVars == <<useCount, fIsDestroyed, consumerState>>
threadVars   == <<pc, stack, cb, loc>>
msgVars      == <<fate, earlier, returned, late>>
vars == <<queueVars, consumerVars, session, threadVars, msgVars, budget>>

----------------------------------------------------------------------------
(* The variables of the C functions on a thread's stack that outlive a     *)
(* step: the consumer and the message in hand, the status a queue          *)
(* operation locked the waiter from, where to go on after a sub-step, and  *)
(* the parameters of completeWaiterActions and tryLockForQOperation.       *)
InitLoc == [con |-> NoConsumer, cur |-> NoMsg, old |-> WS_DISCONNECTED, after |-> "idle",
            deliver |-> FALSE, wasEnabled |-> FALSE]

InitSession == [started |-> FALSE, stopping |-> FALSE, destroyed |-> FALSE,
                activeCallbacks |-> 0, useCount |-> 2, preNackAll |-> 1,
                list |-> <<>>, lock |-> NoThread]

Init ==
  /\ waiterStatus = WS_DISCONNECTED
  /\ pConsumer = NoConsumer
  /\ nodes = <<>>
  /\ bufferedMsgs = 0
  /\ preDeleteCount = 1
  /\ expiryData = {}
  /\ useCount = [c \in Consumers |-> 0]
  /\ fIsDestroyed = [c \in Consumers |-> FALSE]
  /\ consumerState = [c \in Consumers |-> "new"]
  /\ session = InitSession
  /\ pc = [t \in Threads |-> "idle"]
  /\ stack = [t \in Threads |-> <<>>]
  /\ cb = [t \in Threads |-> NoCb]
  /\ loc = [t \in Threads |-> InitLoc]
  /\ fate = [m \in Msgs |-> "unsent"]
  /\ earlier = [m \in Msgs |-> {}]
  /\ returned = {}
  /\ late = {}
  /\ budget = Budget

----------------------------------------------------------------------------
(* Control of a thread. *)

Goto(t, l) == pc' = [pc EXCEPT ![t] = l]

FrameAt(t, r) == [pc |-> r, con |-> loc[t].con, cur |-> NoMsg]

Push(t, r) == stack' = [stack EXCEPT ![t] = <<FrameAt(t, r)>> \o @]

Call(t, l, r) == Goto(t, l) /\ Push(t, r)

Return(t) ==
  IF stack[t] = <<>>
    THEN /\ Goto(t, "idle")
         /\ loc' = [loc EXCEPT ![t] = InitLoc]
         /\ UNCHANGED stack
    ELSE /\ Goto(t, Head(stack[t]).pc)
         /\ loc' = [loc EXCEPT ![t].con = Head(stack[t]).con, ![t].cur = Head(stack[t]).cur]
         /\ stack' = [stack EXCEPT ![t] = Tail(@)]

(* A thread that is idle, or in a callback that may make this call, enters *)
(* the engine.                                                             *)
Begin(t, op) ==
  /\ pc[t] = "idle"
  /\ cb[t] = NoCb \/ op \in CallbackOps
  /\ budget[op] > 0
  /\ budget' = [budget EXCEPT ![op] = @ - 1]

(* Queue contents.  A node is empty until the putter stores its message.   *)
Node(m) == [msg |-> m, state |-> "empty"]

SkipRemoved(ns) ==
  LET kept == {i \in DOMAIN ns : ns[i].state # "removed"}
  IN  IF kept = {} THEN <<>>
      ELSE SubSeq(ns, CHOOSE i \in kept : \A j \in kept : i <= j, Len(ns))

HeadReady(ns) == ns # <<>> /\ Head(ns).state = "full"

Expired(m) == m \in late

----------------------------------------------------------------------------
(* iesq_putMessage (outside a transaction; allowSend is on).               *)

PutMessage(t, m) ==
  /\ Begin(t, "put")
  /\ fate[m] = "unsent"
  /\ preDeleteCount > 0 /\ budget["deleteQ"] = Budget["deleteQ"]
  /\ earlier' = [earlier EXCEPT ![m] = returned]
  /\ loc' = [loc EXCEPT ![t].cur = m]
  /\ IF /\ MaxMsgCount > 0 /\ bufferedMsgs >= MaxMsgCount
        /\ MaxMsgBehavior = "RejectNewMessages"
       THEN /\ fate' = [fate EXCEPT ![m] = "rejected"]
            /\ Goto(t, "putDone")
            /\ stack' = stack
       ELSE /\ fate' = [fate EXCEPT ![m] = "putting"]
            /\ Goto(t, "putTry")
            /\ stack' = [stack EXCEPT ![t] = <<[FrameAt(t, "putDone") EXCEPT !.cur = m]>> \o @]
  /\ UNCHANGED <<queueVars, consumerVars, session, cb, returned, late>>

(* Fault: the messages already in the queue are overtaken.                 *)
AlwaysPutDirect == TRUE

(* With nothing buffered, try to hand the message straight over.           *)
MayPutDirect == bufferedMsgs = 0

PutTry(t) ==
  /\ pc[t] = "putTry"
  /\ Goto(t, IF MayPutDirect THEN "putToWaitingGetter" ELSE "enqueue")
  /\ UNCHANGED <<queueVars, consumerVars, session, stack, cb, loc, msgVars, budget>>

(* iesq_putToWaitingGetter: loops while another thread is getting.         *)
PutToWaitingGetter(t) ==
  /\ pc[t] = "putToWaitingGetter"
  /\ ~DirectPutWaits(waiterStatus)
  /\ IF waiterStatus = WS_ENABLED
       THEN /\ waiterStatus' = WS_DELIVERING
            /\ loc' = [loc EXCEPT ![t].con = pConsumer, ![t].after = "check"]
            /\ Goto(t, "deliver")
       ELSE /\ Goto(t, "enqueue")
            /\ UNCHANGED <<waiterStatus, loc>>
  /\ UNCHANGED <<pConsumer, nodes, bufferedMsgs, preDeleteCount, expiryData,
                 consumerVars, session, stack, cb, msgVars, budget>>

(* Under the put lock: take the node at the tail.                          *)
Enqueue(t) ==
  /\ pc[t] = "enqueue"
  /\ nodes' = Append(nodes, Node(loc[t].cur))
  /\ Goto(t, "count")
  /\ UNCHANGED <<waiterStatus, pConsumer, bufferedMsgs, preDeleteCount, expiryData,
                 consumerVars, session, stack, cb, loc, msgVars, budget>>

CountMessage(t) ==
  /\ pc[t] = "count"
  /\ bufferedMsgs' = bufferedMsgs + 1
  /\ Goto(t, IF loc[t].cur \in Expiring THEN "addExpiry" ELSE "store")
  /\ UNCHANGED <<waiterStatus, pConsumer, nodes, preDeleteCount, expiryData,
                 consumerVars, session, stack, cb, loc, msgVars, budget>>

(* ieme_addMessageExpiryData: from here on the reaper can reach the node.  *)
AddMessageExpiryData(t) ==
  /\ pc[t] = "addExpiry"
  /\ expiryData' = expiryData \cup {loc[t].cur}
  /\ Goto(t, "store")
  /\ UNCHANGED <<waiterStatus, pConsumer, nodes, bufferedMsgs, preDeleteCount,
                 consumerVars, session, stack, cb, loc, msgVars, budget>>

(* The message becomes visible to getters; then checkWaiters.              *)
StoreMessage(t) ==
  /\ pc[t] = "store"
  /\ nodes' = [i \in DOMAIN nodes |->
                 IF nodes[i].msg = loc[t].cur THEN [nodes[i] EXCEPT !.state = "full"]
                                              ELSE nodes[i]]
  /\ Call(t, "check", "postput")
  /\ UNCHANGED <<waiterStatus, pConsumer, bufferedMsgs, preDeleteCount, expiryData,
                 consumerVars, session, cb, loc, msgVars, budget>>

(* ieme_reapQExpiredMessages looks before it asks for the lock.            *)
ReapNeeded == expiryData \cap late # {}

PostPut(t) ==
  /\ pc[t] = "postput"
  /\ IF bufferedMsgs < MaxMsgCount
       THEN Return(t)
       ELSE IF ReapNeeded
         THEN /\ Call(t, "reapLock", "postput2")
              /\ loc' = [loc EXCEPT ![t].deliver = TRUE]
         ELSE Goto(t, "postput2") /\ UNCHANGED <<stack, loc>>
  /\ UNCHANGED <<queueVars, consumerVars, session, cb, msgVars, budget>>

PostPutDiscard(t) ==
  /\ pc[t] = "postput2"
  /\ IF MaxMsgBehavior = "DiscardOldMessages" /\ bufferedMsgs > MaxMsgCount
       THEN Goto(t, "reclaimLock") /\ UNCHANGED <<stack, loc>>
       ELSE Return(t)
  /\ UNCHANGED <<queueVars, consumerVars, session, cb, msgVars, budget>>

(* The caller of put gets its return code.                                 *)
PutDone(t) ==
  /\ pc[t] = "putDone"
  /\ returned' = returned \cup {m \in Msgs : m = loc[t].cur}
  /\ Return(t)
  /\ UNCHANGED <<queueVars, consumerVars, session, cb, fate, earlier, late, budget>>

----------------------------------------------------------------------------
(* iesq_checkWaiters *)

CheckWaiters(t) ==
  /\ pc[t] = "check"
  /\ IF bufferedMsgs = 0 THEN Return(t)
                         ELSE Goto(t, "checkLock") /\ UNCHANGED <<stack, loc>>
  /\ UNCHANGED <<queueVars, consumerVars, session, cb, msgVars, budget>>

(* Loops while another thread is getting: its get may just have missed us. *)
CheckLock(t) ==
  /\ pc[t] = "checkLock"
  /\ ~CheckWaits(waiterStatus)
  /\ IF CheckLocks(waiterStatus)
       THEN /\ waiterStatus' = WS_GETTING
            /\ loc' = [loc EXCEPT ![t].con = pConsumer]
            /\ Goto(t, "get")
            /\ UNCHANGED stack
       ELSE Return(t) /\ UNCHANGED waiterStatus
  /\ UNCHANGED <<pConsumer, nodes, bufferedMsgs, preDeleteCount, expiryData,
                 consumerVars, session, cb, msgVars, budget>>

(* iesq_getMessage takes the first message, if it has been stored.         *)
TakeHead ==
  LET rest == SkipRemoved(nodes)
  IN  /\ HeadReady(rest)
      /\ nodes' = Tail(rest)
      /\ bufferedMsgs' = bufferedMsgs - 1
      /\ expiryData' = expiryData \ {Head(rest).msg}

GetMessage(t) ==
  /\ pc[t] = "get"
  /\ \/ /\ TakeHead
        /\ loc' = [loc EXCEPT ![t].cur = Head(SkipRemoved(nodes)).msg]
        /\ Goto(t, "got")
     \/ /\ ~HeadReady(SkipRemoved(nodes))
        /\ nodes' = SkipRemoved(nodes)
        /\ Goto(t, "empty")
        /\ UNCHANGED <<bufferedMsgs, expiryData, loc>>
  /\ UNCHANGED <<waiterStatus, pConsumer, preDeleteCount,
                 consumerVars, session, stack, cb, msgVars, budget>>

(* Tell threads that look at the queue not to wait for us any more.        *)
StateToDelivering(t) ==
  /\ pc[t] = "got"
  /\ waiterStatus' = IF waiterStatus = WS_GETTING THEN WS_DELIVERING ELSE waiterStatus
  /\ loc' = [loc EXCEPT ![t].after = "checkLock"]
  /\ Goto(t, "deliver")
  /\ UNCHANGED <<pConsumer, nodes, bufferedMsgs, preDeleteCount, expiryData,
                 consumerVars, session, stack, cb, msgVars, budget>>

(* ism_engine_deliverMessage: an expired message never reaches the         *)
(* callback; otherwise the thread is in the protocol's code until the      *)
(* callback returns.                                                       *)
DeliverMessage(t) ==
  /\ pc[t] = "deliver"
  /\ IF Expired(loc[t].cur)
       THEN /\ fate' = [fate EXCEPT ![loc[t].cur] = "expired"]
            /\ Goto(t, "reenable")
            /\ loc' = [loc EXCEPT ![t].cur = NoMsg]
            /\ UNCHANGED <<cb, stack>>
       ELSE /\ fate' = [fate EXCEPT ![loc[t].cur] = "delivered"]
            /\ cb' = [cb EXCEPT ![t] = [stack |-> stack[t], con |-> loc[t].con,
                                        after |-> loc[t].after]]
            /\ stack' = [stack EXCEPT ![t] = <<>>]
            /\ loc' = [loc EXCEPT ![t] = InitLoc]
            /\ Goto(t, "idle")
  /\ UNCHANGED <<queueVars, consumerVars, session, earlier, returned, late, budget>>

LeaveCallback(t, l) ==
  /\ cb[t] # NoCb
  /\ cb' = [cb EXCEPT ![t] = NoCb]
  /\ stack' = [stack EXCEPT ![t] = cb[t].stack]
  /\ loc' = [loc EXCEPT ![t].con = cb[t].con, ![t].after = cb[t].after]
  /\ Goto(t, l)
  /\ UNCHANGED <<queueVars, consumerVars, session, msgVars, budget>>

(* The callback asks for more messages...                                  *)
CallbackReturnsTrue(t) == pc[t] = "idle" /\ LeaveCallback(t, "reenable")

(* ... or, where returning false is what suspends delivery, for no more... *)
CallbackReturnsFalse(t) ==
  pc[t] = "idle" /\ ~ExplicitSuspends /\ LeaveCallback(t, "pend")

(* ... or it calls ism_engine_suspendMessageDelivery before it does so.    *)
SuspendMessageDelivery(t) ==
  /\ pc[t] = "idle" /\ cb[t] # NoCb
  /\ ExplicitSuspends
  /\ waiterStatus' = AddPendFlag(waiterStatus, DISABLE_PEND)
  /\ Goto(t, "suspended")
  /\ UNCHANGED <<pConsumer, nodes, bufferedMsgs, preDeleteCount, expiryData,
                 consumerVars, session, stack, cb, loc, msgVars, budget>>

(* Hand the lock to ieq_completeWaiterActions, which returns to frames.   *)
CallComplete(t, frames, con, wasEnabled, deliver) ==
  /\ Goto(t, "complete")
  /\ stack' = [stack EXCEPT ![t] = frames]
  /\ loc' = [loc EXCEPT ![t].con = con, ![t].wasEnabled = wasEnabled,
                        ![t].deliver = deliver]

SuspendedCallbackReturns(t) ==
  /\ pc[t] = "suspended"
  /\ cb' = [cb EXCEPT ![t] = NoCb]
  /\ CallComplete(t, <<[pc |-> cb[t].after, con |-> cb[t].con, cur |-> NoMsg]>> \o cb[t].stack,
                  cb[t].con, TRUE, FALSE)
  /\ UNCHANGED <<queueVars, consumerVars, session, msgVars, budget>>

(* After the callback: unlock, or act on the flags that were left.         *)
ReenableWaiter(t) ==
  /\ pc[t] = "reenable"
  /\ IF waiterStatus = WS_DELIVERING
       THEN /\ waiterStatus' = WS_ENABLED
            /\ Goto(t, loc[t].after)
            /\ UNCHANGED <<stack, loc>>
       ELSE /\ CallComplete(t, <<FrameAt(t, loc[t].after)>> \o stack[t], loc[t].con, TRUE, FALSE)
            /\ UNCHANGED waiterStatus
  /\ UNCHANGED <<pConsumer, nodes, bufferedMsgs, preDeleteCount, expiryData,
                 consumerVars, session, cb, msgVars, budget>>

PendDisable(t) ==
  /\ pc[t] = "pend"
  /\ waiterStatus' = AddPendFlag(waiterStatus, DISABLE_PEND)
  /\ CallComplete(t, <<FrameAt(t, loc[t].after)>> \o stack[t], loc[t].con, TRUE, FALSE)
  /\ UNCHANGED <<pConsumer, nodes, bufferedMsgs, preDeleteCount, expiryData,
                 consumerVars, session, cb, msgVars, budget>>

(* Nothing to get: unlock, or act on the flags and look again.             *)
QueueEmpty(t) ==
  /\ pc[t] = "empty"
  /\ IF waiterStatus = WS_GETTING
       THEN /\ waiterStatus' = WS_ENABLED
            /\ Return(t)
       ELSE /\ CallComplete(t, <<FrameAt(t, "checkLock")>> \o stack[t], loc[t].con, TRUE, FALSE)
            /\ UNCHANGED waiterStatus
  /\ UNCHANGED <<pConsumer, nodes, bufferedMsgs, preDeleteCount, expiryData,
                 consumerVars, session, cb, msgVars, budget>>

----------------------------------------------------------------------------
(* ism_engine_deliverStatus(ISMRC_WaiterDisabled): count the callback ...   *)

(* Fault: the last callback leaves the stop to the stopping thread.        *)
NoCallbackIsLast == FALSE

LastCallback == session.activeCallbacks = 1

WaiterDisabledStatus == session' = [session EXCEPT !.activeCallbacks = @ - 1]

(* ... and the last one of a session that is stopping ends the stop and    *)
(* drops the session reference that delivery held.                         *)
EndStop ==
  session' = IF session.stopping THEN [session EXCEPT !.stopping = FALSE, !.useCount = @ - 1]
                                 ELSE session

(* ieq_completeWaiterActions.  First, a request to discard messages that   *)
(* is the only request: serve it and try to unlock.                        *)
CompleteWaiterActions(t) ==
  /\ pc[t] = "complete"
  /\ IF waiterStatus = {RECLAIMSPACE_PEND}
       THEN /\ waiterStatus' = WS_DELIVERING
            /\ loc' = [loc EXCEPT ![t].after = "completeUnlock"]
            /\ Goto(t, "reclaim")
       ELSE LET next == IF DISABLE_PEND \in waiterStatus THEN "disabling" ELSE "disconnect"
            IN  /\ loc' = [loc EXCEPT ![t].after = next]
                /\ Goto(t, IF loc[t].wasEnabled THEN "waiterDisabledCB" ELSE next)
                /\ UNCHANGED waiterStatus
  /\ UNCHANGED <<pConsumer, nodes, bufferedMsgs, preDeleteCount, expiryData,
                 consumerVars, session, stack, cb, msgVars, budget>>

CompleteUnlock(t) ==
  /\ pc[t] = "completeUnlock"
  /\ IF waiterStatus = WS_DELIVERING
       THEN /\ waiterStatus' = WS_ENABLED
            /\ IF loc[t].deliver THEN Goto(t, "check") /\ UNCHANGED <<stack, loc>>
                                 ELSE Return(t)
       ELSE /\ Goto(t, "complete")
            /\ UNCHANGED <<waiterStatus, stack, loc>>
  /\ UNCHANGED <<pConsumer, nodes, bufferedMsgs, preDeleteCount, expiryData,
                 consumerVars, session, cb, msgVars, budget>>

WaiterDisabledCallback(t) ==
  /\ pc[t] = "waiterDisabledCB"
  /\ WaiterDisabledStatus
  /\ Goto(t, IF LastCallback THEN "endStop" ELSE loc[t].after)
  /\ UNCHANGED <<queueVars, consumerVars, stack, cb, loc, msgVars, budget>>

WaiterDisabledEndStop(t) ==
  /\ pc[t] = "endStop"
  /\ EndStop
  /\ Goto(t, loc[t].after)
  /\ UNCHANGED <<queueVars, consumerVars, stack, cb, loc, msgVars, budget>>

(* A request to discard is served before the lock is given up.             *)
ClearReclaim(t) ==
  /\ pc[t] \in {"disabling", "disconnecting"}
  /\ RECLAIMSPACE_PEND \in waiterStatus
  /\ waiterStatus' = waiterStatus \ {RECLAIMSPACE_PEND}
  /\ loc' = [loc EXCEPT ![t].after = pc[t]]
  /\ Goto(t, "reclaim")
  /\ UNCHANGED <<pConsumer, nodes, bufferedMsgs, preDeleteCount, expiryData,
                 consumerVars, session, stack, cb, msgVars, budget>>

(* The reference an enabled waiter holds is released once the waiter can   *)
(* no longer be seen to be ours.                                           *)
FinishComplete(t) ==
  IF loc[t].wasEnabled THEN Goto(t, "release") /\ UNCHANGED <<stack, loc>> ELSE Return(t)

Disabling(t) ==
  /\ pc[t] = "disabling"
  /\ RECLAIMSPACE_PEND \notin waiterStatus
  /\ IF DISCONNECT_PEND \in waiterStatus
       THEN /\ waiterStatus' = {DISCONNECT_PEND}
            /\ Goto(t, "disconnect")
            /\ UNCHANGED <<stack, loc>>
       ELSE IF CANCEL_DISABLE_PEND \in waiterStatus
         THEN /\ waiterStatus' = WS_ENABLED
              /\ IF loc[t].deliver
                   THEN /\ Goto(t, "check")
                        /\ IF loc[t].wasEnabled THEN Push(t, "release") ELSE UNCHANGED stack
                        /\ UNCHANGED loc
                   ELSE FinishComplete(t)
         ELSE waiterStatus' = WS_DISABLED /\ FinishComplete(t)
  /\ UNCHANGED <<pConsumer, nodes, bufferedMsgs, preDeleteCount, expiryData,
                 consumerVars, session, cb, msgVars, budget>>

(* Fault: the queue keeps its pointer.                                     *)
DisconnectKeepsConsumer(t) ==
  /\ pc[t] = "disconnect"
  /\ Goto(t, "disconnecting")
  /\ UNCHANGED <<queueVars, consumerVars, session, stack, cb, loc, msgVars, budget>>

(* The queue no longer has a right to refer to this consumer.              *)
DisconnectConsumer(t) ==
  /\ pc[t] = "disconnect"
  /\ pConsumer' = NoConsumer
  /\ Goto(t, "disconnecting")
  /\ UNCHANGED <<waiterStatus, nodes, bufferedMsgs, preDeleteCount, expiryData,
                 consumerVars, session, stack, cb, loc, msgVars, budget>>

Disconnecting(t) ==
  /\ pc[t] = "disconnecting"
  /\ waiterStatus = {DISCONNECT_PEND}
  /\ waiterStatus' = WS_DISCONNECTED
  /\ Goto(t, "removed")
  /\ UNCHANGED <<pConsumer, nodes, bufferedMsgs, preDeleteCount, expiryData,
                 consumerVars, session, stack, cb, loc, msgVars, budget>>

(* ism_engine_deliverStatus(ISMRC_WaiterRemoved): free the consumer.       *)
WaiterRemovedCallback(t) ==
  /\ pc[t] = "removed"
  /\ consumerState' = [consumerState EXCEPT ![loc[t].con] = "freed"]
  /\ session' = [session EXCEPT !.useCount = @ - 1]
  /\ Goto(t, "reducePreDelete")
  /\ UNCHANGED <<queueVars, useCount, fIsDestroyed, stack, cb, loc, msgVars, budget>>

(* iesq_reducePreDeleteCount: at zero the queue is freed.                  *)
ReducePreDeleteCount(t) ==
  /\ pc[t] = "reducePreDelete"
  /\ preDeleteCount' = preDeleteCount - 1
  /\ FinishComplete(t)
  /\ UNCHANGED <<waiterStatus, pConsumer, nodes, bufferedMsgs, expiryData,
                 consumerVars, session, cb, msgVars, budget>>

----------------------------------------------------------------------------
(* iesq_reclaimSpace *)

ReclaimTarget == 1 + (MaxMsgCount * 95) \div 100

LockForReclaim(t) ==
  /\ pc[t] = "reclaimLock"
  /\ ~ReclaimWaits(waiterStatus)
  /\ waiterStatus' = ReclaimTo(waiterStatus)
  /\ IF IsLocked(waiterStatus)
       THEN Return(t)
       ELSE /\ loc' = [loc EXCEPT ![t].old = waiterStatus, ![t].after = "unlock",
                                  ![t].con = pConsumer]
            /\ Goto(t, "reclaim")
            /\ UNCHANGED stack
  /\ UNCHANGED <<pConsumer, nodes, bufferedMsgs, preDeleteCount, expiryData,
                 consumerVars, session, cb, msgVars, budget>>

ReclaimSpace(t) ==
  /\ pc[t] = "reclaim"
  /\ \/ /\ bufferedMsgs > ReclaimTarget
        /\ TakeHead
        /\ fate' = [fate EXCEPT ![Head(SkipRemoved(nodes)).msg] = "discarded"]
        /\ UNCHANGED pc
     \/ /\ bufferedMsgs <= ReclaimTarget \/ ~HeadReady(SkipRemoved(nodes))
        /\ Goto(t, loc[t].after)
        /\ UNCHANGED <<nodes, bufferedMsgs, expiryData, fate>>
  /\ UNCHANGED <<waiterStatus, pConsumer, preDeleteCount, consumerVars, session,
                 stack, cb, loc, earlier, returned, late, budget>>

(* iews_unlockAfterQOperation.  A waiter that was not enabled was locked   *)
(* in a state no other thread may change: finding it changed is an FFDC.   *)
UnlockAfterQOperation(t) ==
  /\ pc[t] = "unlock"
  /\ IF loc[t].old = WS_ENABLED
       THEN IF waiterStatus = WS_DELIVERING
              THEN /\ waiterStatus' = WS_ENABLED
                   /\ Goto(t, "check")
                   /\ UNCHANGED <<stack, loc>>
              ELSE /\ CallComplete(t, <<FrameAt(t, "check")>> \o stack[t], loc[t].con, TRUE, FALSE)
                   /\ UNCHANGED waiterStatus
       ELSE IF waiterStatus = WS_DISABLED_LOCKEDWAIT
              THEN waiterStatus' = loc[t].old /\ Return(t)
              ELSE Goto(t, "ffdc") /\ UNCHANGED <<waiterStatus, stack, loc>>
  /\ UNCHANGED <<pConsumer, nodes, bufferedMsgs, preDeleteCount, expiryData,
                 consumerVars, session, cb, msgVars, budget>>

----------------------------------------------------------------------------
(* iesq_reapExpiredMsgs.  The reaper thread holds the list of queues with  *)
(* expiring messages locked, so it may not deliver; a put may.             *)

ReapExpiredMessages(t) ==
  /\ Begin(t, "reap")
  /\ ReapNeeded
  /\ preDeleteCount > 0
  /\ Call(t, "reapLock", "reapDone")
  /\ UNCHANGED <<queueVars, consumerVars, session, cb, loc, msgVars>>

LockForReap(t) ==
  /\ pc[t] = "reapLock"
  /\ ~QOpWaits(waiterStatus, loc[t].deliver)
  /\ waiterStatus' = QOpTo(waiterStatus, loc[t].deliver)
  /\ IF waiterStatus' = waiterStatus
       THEN Return(t)
       ELSE /\ loc' = [loc EXCEPT ![t].old = waiterStatus, ![t].con = pConsumer]
            /\ Goto(t, "reapWork")
            /\ UNCHANGED stack
  /\ UNCHANGED <<pConsumer, nodes, bufferedMsgs, preDeleteCount, expiryData,
                 consumerVars, session, cb, msgVars, budget>>

(* The messages past their expiry go, all at once under the queue's expiry *)
(* lock.  iesq_expireNode releases the message of the node without looking *)
(* whether it has been stored.                                             *)
ReapWork(t) ==
  LET due == {i \in DOMAIN nodes : nodes[i].msg \in expiryData \cap late}
      reaped == [i \in DOMAIN nodes |->
                   IF i \in due THEN [nodes[i] EXCEPT !.state = "removed"] ELSE nodes[i]]
  IN  /\ pc[t] = "reapWork"
      /\ IF \E i \in due : nodes[i].state = "empty"
           THEN /\ Goto(t, "crash")
                /\ UNCHANGED <<nodes, bufferedMsgs, expiryData, fate>>
           ELSE /\ nodes' = SkipRemoved(reaped)
                /\ bufferedMsgs' = bufferedMsgs - Cardinality(due)
                /\ expiryData' = expiryData \ late
                /\ fate' = [m \in Msgs |-> IF \E i \in due : nodes[i].msg = m
                                            THEN "expired" ELSE fate[m]]
                /\ Goto(t, "unlock")
      /\ UNCHANGED <<waiterStatus, pConsumer, preDeleteCount, consumerVars, session,
                     stack, cb, loc, earlier, returned, late, budget>>

(* A putter of an expiring message holds the queue's expiry lock: give up. *)
ReapLockBusy(t) ==
  /\ pc[t] = "reapWork"
  /\ \E u \in Threads : pc[u] = "addExpiry"
  /\ Goto(t, "unlock")
  /\ UNCHANGED <<queueVars, consumerVars, session, stack, cb, loc, msgVars, budget>>

ReapDone(t) ==
  /\ pc[t] = "reapDone"
  /\ Return(t)
  /\ UNCHANGED <<queueVars, consumerVars, session, cb, msgVars, budget>>

(* Time passes the expiry of a message.                                    *)
PutPcs == {"putTry", "putToWaitingGetter", "enqueue", "count", "addExpiry", "store"}

ExpiryTimePasses(m) ==
  /\ m \in Expiring \ late
  /\ fate[m] = "putting"
  /\ SlowPut \/ ~\E t \in Threads : pc[t] \in PutPcs /\ loc[t].cur = m
  /\ late' = late \cup {m}
  /\ UNCHANGED <<queueVars, consumerVars, session, threadVars, fate, earlier, returned, budget>>

----------------------------------------------------------------------------
(* References to consumers and to the session *)

(* releaseConsumerReference *)
ReleaseConsumerReference(t) ==
  /\ pc[t] = "release"
  /\ useCount' = [useCount EXCEPT ![loc[t].con] = @ - 1]
  /\ IF useCount[loc[t].con] = 1
       THEN Goto(t, "finishDestroy") /\ UNCHANGED <<stack, loc>>
       ELSE Return(t)
  /\ UNCHANGED <<queueVars, fIsDestroyed, consumerState, session, cb, msgVars, budget>>

(* reducePreNackAllCount; no message of a simple queue awaits an ack.      *)
ReducePreNackAll(s) ==
  [s EXCEPT !.preNackAll = @ - 1, !.useCount = IF s.preNackAll = 1 THEN @ - 1 ELSE @]

(* finishDestroyConsumer: the client is told that the consumer is gone.    *)
FinishDestroyConsumer(t) ==
  /\ pc[t] = "finishDestroy"
  /\ consumerState' = [consumerState EXCEPT ![loc[t].con] = "finished"]
  /\ session' = ReducePreNackAll(session)
  /\ Goto(t, "term")
  /\ UNCHANGED <<queueVars, useCount, fIsDestroyed, stack, cb, loc, msgVars, budget>>

(* disconnectThenFreeConsumer and iesq_termWaiter *)
TermWaiter(t) ==
  /\ pc[t] = "term"
  /\ ~TermWaits(waiterStatus)
  /\ waiterStatus' = TermTo(waiterStatus)
  /\ IF TermLocks(waiterStatus)
       THEN CallComplete(t, stack[t], loc[t].con, waiterStatus # WS_DISABLED, TRUE)
       ELSE Return(t)
  /\ UNCHANGED <<pConsumer, nodes, bufferedMsgs, preDeleteCount, expiryData,
                 consumerVars, session, cb, msgVars, budget>>

----------------------------------------------------------------------------
(* Enabling and disabling the waiter, as the session operations do it      *)

(* An enabled waiter counts as a reference and owes a disabled callback.   *)
AcquireForEnable(t) ==
  /\ pc[t] = "acquire"
  /\ useCount' = [useCount EXCEPT ![loc[t].con] = @ + 1]
  /\ session' = [session EXCEPT !.activeCallbacks = @ + 1]
  /\ Goto(t, "enable")
  /\ UNCHANGED <<queueVars, fIsDestroyed, consumerState, stack, cb, loc, msgVars, budget>>

(* The counts of an enable that did nothing are taken back: a start drops  *)
(* the callback first and then the reference, resume and create the other  *)
(* way round.                                                              *)
FromStart(t) == stack[t] # <<>> /\ Head(stack[t]).pc = "startNext"

EnableWaiter(t) ==
  /\ pc[t] = "enable"
  /\ ~EnableWaits(waiterStatus)
  /\ waiterStatus' = EnableTo(waiterStatus)
  /\ IF EnableRc(waiterStatus) \in {"OK", "DisableWaiterCancel"}
       THEN Return(t)
       ELSE IF FromStart(t)
         THEN Goto(t, "enableUndo") /\ UNCHANGED <<stack, loc>>
         ELSE Call(t, "release", "enableUndo") /\ UNCHANGED loc
  /\ UNCHANGED <<pConsumer, nodes, bufferedMsgs, preDeleteCount, expiryData,
                 consumerVars, session, cb, msgVars, budget>>

EnableUndo(t) ==
  /\ pc[t] = "enableUndo"
  /\ session' = [session EXCEPT !.activeCallbacks = @ - 1]
  /\ IF FromStart(t) THEN Goto(t, "release") /\ UNCHANGED <<stack, loc>>
                     ELSE Return(t)
  /\ UNCHANGED <<queueVars, consumerVars, cb, msgVars, budget>>

DisableWaiter(t) ==
  /\ pc[t] = "disable"
  /\ ~DisableWaits(waiterStatus)
  /\ waiterStatus' = DisableTo(waiterStatus)
  /\ CASE DisableOutcome(waiterStatus) = "lock" ->
            CallComplete(t, stack[t], loc[t].con, TRUE, TRUE)
       [] DisableOutcome(waiterStatus) = "uncancel" ->
            Goto(t, "uncancelCB") /\ UNCHANGED <<stack, loc>>
       [] DisableOutcome(waiterStatus) \in
            {"WaiterInvalid", "WaiterDisabled", "AsyncCompletion"} ->
            Return(t)
  /\ UNCHANGED <<pConsumer, nodes, bufferedMsgs, preDeleteCount, expiryData,
                 consumerVars, session, cb, msgVars, budget>>

(* The earlier disable that had been cancelled is reported after all.      *)
UncancelCallback(t) ==
  /\ pc[t] = "uncancelCB"
  /\ WaiterDisabledStatus
  /\ Goto(t, IF LastCallback THEN "uncancelEndStop" ELSE "release")
  /\ UNCHANGED <<queueVars, consumerVars, stack, cb, loc, msgVars, budget>>

UncancelEndStop(t) ==
  /\ pc[t] = "uncancelEndStop"
  /\ EndStop
  /\ Goto(t, "release")
  /\ UNCHANGED <<queueVars, consumerVars, stack, cb, loc, msgVars, budget>>

----------------------------------------------------------------------------
(* ism_engine_startMessageDelivery *)

Listed(c) == \E i \in DOMAIN session.list : session.list[i] = c

(* pConsumer->pNext, or NULL; the successor of NULL is the head.           *)
NextConsumer(c) ==
  LET at == {i \in DOMAIN session.list : session.list[i] = c}
      next == IF at = {} THEN 1 ELSE (CHOOSE i \in at : TRUE) + 1
  IN  IF next \in DOMAIN session.list THEN session.list[next] ELSE NoConsumer

(* The list after the consumer has been unlinked from it.                  *)
Without(list, c) ==
  LET at == {i \in DOMAIN list : list[i] = c}
      i  == CHOOSE i \in at : TRUE
  IN  IF at = {} THEN list ELSE SubSeq(list, 1, i - 1) \o SubSeq(list, i + 1, Len(list))

LockFree == session.lock = NoThread

(* Under the session lock, held until every consumer has been visited.     *)
StartMessageDelivery(t) ==
  /\ Begin(t, "start")
  /\ LockFree /\ ~session.destroyed /\ ~session.stopping
  /\ session' = IF session.started THEN [session EXCEPT !.lock = t]
                ELSE [session EXCEPT !.lock = t, !.started = TRUE, !.useCount = @ + 1,
                                     !.activeCallbacks = @ + 1]
  /\ Goto(t, "startNext")
  /\ UNCHANGED <<queueVars, consumerVars, stack, cb, loc, msgVars>>

StartNext(t) ==
  /\ pc[t] = "startNext"
  /\ LET c == NextConsumer(loc[t].con)
     IN  IF c # NoConsumer
           THEN /\ loc' = [loc EXCEPT ![t].con = c]
                /\ stack' = [stack EXCEPT ![t] =
                               <<[FrameAt(t, "startNext") EXCEPT !.con = c]>> \o @]
                /\ Goto(t, "acquire")
                /\ UNCHANGED session
           ELSE /\ session' = [session EXCEPT !.lock = NoThread]
                /\ loc' = [loc EXCEPT ![t].con = NoConsumer]
                /\ Goto(t, "startDeliver")
                /\ UNCHANGED stack
  /\ UNCHANGED <<queueVars, consumerVars, cb, msgVars, budget>>

(* getNextConsumerForDelivery, then checkWaiters with a reference held.    *)
StartDeliver(t) ==
  /\ pc[t] = "startDeliver"
  /\ LockFree
  /\ LET c == NextConsumer(loc[t].con)
     IN  IF session.destroyed \/ session.stopping \/ ~session.started \/ c = NoConsumer
           THEN Return(t) /\ UNCHANGED useCount
           ELSE /\ useCount' = [useCount EXCEPT ![c] = @ + 1]
                /\ loc' = [loc EXCEPT ![t].con = c]
                /\ stack' = [stack EXCEPT ![t] =
                               <<[FrameAt(t, "startRelease") EXCEPT !.con = c]>> \o @]
                /\ Goto(t, "check")
  /\ UNCHANGED <<queueVars, fIsDestroyed, consumerState, session, cb, msgVars, budget>>

StartRelease(t) ==
  /\ pc[t] = "startRelease"
  /\ Call(t, "release", "startDeliver")
  /\ UNCHANGED <<queueVars, consumerVars, session, cb, loc, msgVars, budget>>

(* Fault: a destroyed consumer can be resumed.                             *)
MayResumeDestroyed(c) == session.started /\ ~session.stopping /\ ~session.destroyed

(* ism_engine_resumeMessageDelivery *)
MayResume(c) ==
  session.started /\ ~session.stopping /\ ~session.destroyed /\ ~fIsDestroyed[c]

ResumeMessageDelivery(t, c) ==
  /\ Begin(t, "resume")
  /\ consumerState[c] = "live"
  /\ LockFree /\ MayResume(c)
  /\ session' = [session EXCEPT !.lock = t]
  /\ loc' = [loc EXCEPT ![t].con = c]
  /\ stack' = [stack EXCEPT ![t] = <<[FrameAt(t, "resumeCheck") EXCEPT !.con = c]>> \o @]
  /\ Goto(t, "acquire")
  /\ UNCHANGED <<queueVars, consumerVars, cb, msgVars>>

ResumeCheck(t) ==
  /\ pc[t] = "resumeCheck"
  /\ useCount' = [useCount EXCEPT ![loc[t].con] = @ + 1]
  /\ session' = [session EXCEPT !.lock = NoThread]
  /\ Call(t, "check", "release")
  /\ UNCHANGED <<queueVars, fIsDestroyed, consumerState, cb, loc, msgVars, budget>>

----------------------------------------------------------------------------
(* ism_engine_stopMessageDelivery *)

StopMessageDelivery(t) ==
  /\ Begin(t, "stop")
  /\ LockFree /\ session.started
  /\ RacingDestroy \/ ~session.destroyed
  /\ session' = [session EXCEPT !.started = FALSE, !.stopping = TRUE]
  /\ Goto(t, "stopDisable")
  /\ UNCHANGED <<queueVars, consumerVars, stack, cb, loc, msgVars>>

StopDisable(t) ==
  /\ pc[t] = "stopDisable"
  /\ LockFree
  /\ session' = [session EXCEPT !.lock = t]
  /\ Goto(t, "stopNext")
  /\ UNCHANGED <<queueVars, consumerVars, stack, cb, loc, msgVars, budget>>

StopNext(t) ==
  /\ pc[t] = "stopNext"
  /\ LET c == NextConsumer(loc[t].con)
     IN  IF c # NoConsumer
           THEN /\ loc' = [loc EXCEPT ![t].con = c]
                /\ stack' = [stack EXCEPT ![t] =
                               <<[FrameAt(t, "stopNext") EXCEPT !.con = c]>> \o @]
                /\ Goto(t, "disable")
                /\ UNCHANGED session
           ELSE /\ session' = [session EXCEPT !.lock = NoThread]
                /\ Goto(t, "stopDone")
                /\ UNCHANGED <<stack, loc>>
  /\ UNCHANGED <<queueVars, consumerVars, cb, msgVars, budget>>

(* Fault: the stop does not wait for the callbacks that are still owed.    *)
StopDoneAtOnce(t) ==
  /\ pc[t] = "stopDone"
  /\ session' = [session EXCEPT !.activeCallbacks = @ - 1]
  /\ Goto(t, "stopFinish")
  /\ UNCHANGED <<queueVars, consumerVars, stack, loc, cb, msgVars, budget>>

(* completeStopMessageDeliveryInternal *)
StopDone(t) ==
  /\ pc[t] = "stopDone"
  /\ session' = [session EXCEPT !.activeCallbacks = @ - 1]
  /\ IF session.activeCallbacks = 1
       THEN Goto(t, "stopFinish") /\ UNCHANGED <<stack, loc>>
       ELSE Return(t)
  /\ UNCHANGED <<queueVars, consumerVars, cb, msgVars, budget>>

StopFinish(t) ==
  /\ pc[t] = "stopFinish"
  /\ LockFree
  /\ session' = [session EXCEPT !.stopping = FALSE, !.useCount = @ - 1]
  /\ Return(t)
  /\ UNCHANGED <<queueVars, consumerVars, cb, msgVars, budget>>

----------------------------------------------------------------------------
(* ism_engine_createConsumer on this queue: first iesq_initWaiter ...      *)
CreateConsumer(t, c) ==
  /\ Begin(t, "create")
  /\ consumerState[c] = "new" /\ ~session.destroyed
  /\ preDeleteCount > 0 /\ budget["deleteQ"] = Budget["deleteQ"]
  /\ ~InitWaits(waiterStatus)
  /\ waiterStatus' = InitTo(waiterStatus)
  /\ IF waiterStatus = WS_DISCONNECTED
       THEN /\ consumerState' = [consumerState EXCEPT ![c] = "creating"]
            /\ useCount' = [useCount EXCEPT ![c] = 1]
            /\ loc' = [loc EXCEPT ![t].con = c]
            /\ Goto(t, "createConnect")
       ELSE /\ consumerState' = [consumerState EXCEPT ![c] = "freed"]
            /\ UNCHANGED <<useCount, loc, pc>>
  /\ UNCHANGED <<pConsumer, nodes, bufferedMsgs, preDeleteCount, expiryData,
                 fIsDestroyed, session, stack, cb, msgVars>>

(* "don't delete the queue whilst this consumer is connected"              *)
ConnectConsumer(t) ==
  /\ pc[t] = "createConnect"
  /\ preDeleteCount' = preDeleteCount + 1
  /\ pConsumer' = loc[t].con
  /\ Goto(t, "createLink")
  /\ UNCHANGED <<waiterStatus, nodes, bufferedMsgs, expiryData,
                 consumerVars, session, stack, cb, loc, msgVars, budget>>

(* ... then join the session, enabled if the session is delivering and the *)
(* consumer is not created paused.  A destroyed session frees the consumer *)
(* without disconnecting the waiter.                                       *)
CreateLink(t, paused) ==
  /\ pc[t] = "createLink"
  /\ LockFree
  /\ IF session.destroyed
       THEN /\ consumerState' = [consumerState EXCEPT ![loc[t].con] = "freed"]
            /\ Return(t)
            /\ UNCHANGED session
       ELSE LET s == [session EXCEPT !.list = <<loc[t].con>> \o @, !.useCount = @ + 1,
                                     !.preNackAll = @ + 1]
            IN  IF session.started /\ ~paused
                  THEN /\ session' = [s EXCEPT !.lock = t]
                       /\ Call(t, "acquire", "createUnlock")
                       /\ UNCHANGED <<consumerState, loc>>
                  ELSE /\ session' = s
                       /\ Goto(t, "createDone")
                       /\ UNCHANGED <<consumerState, stack, loc>>
  /\ UNCHANGED <<queueVars, useCount, fIsDestroyed, cb, msgVars, budget>>

CreateUnlock(t) ==
  /\ pc[t] = "createUnlock"
  /\ session' = [session EXCEPT !.lock = NoThread]
  /\ Call(t, "check", "createDone")
  /\ UNCHANGED <<queueVars, consumerVars, cb, loc, msgVars, budget>>

(* The caller receives the handle of the consumer.                         *)
CreateDone(t) ==
  /\ pc[t] = "createDone"
  /\ consumerState' = [consumerState EXCEPT ![loc[t].con] = "live"]
  /\ Return(t)
  /\ UNCHANGED <<queueVars, useCount, fIsDestroyed, session, cb, msgVars, budget>>

(* ism_engine_destroyConsumer: unlink, disable, release the reference of   *)
(* its creation.                                                           *)
DestroyConsumer(t, c) ==
  /\ Begin(t, "destroy")
  /\ consumerState[c] = "live"
  /\ LockFree /\ ~fIsDestroyed[c]
  /\ fIsDestroyed' = [fIsDestroyed EXCEPT ![c] = TRUE]
  /\ session' = [session EXCEPT !.list = Without(@, c)]
  /\ loc' = [loc EXCEPT ![t].con = c]
  /\ stack' = [stack EXCEPT ![t] = <<[FrameAt(t, "release") EXCEPT !.con = c]>> \o @]
  /\ Goto(t, "disable")
  /\ UNCHANGED <<queueVars, useCount, consumerState, cb, msgVars>>

----------------------------------------------------------------------------
(* ism_engine_destroySession *)

(* Calls that the protocol layer completes before it ends the session.     *)
SessionCallPcs == {"createConnect", "createLink", "createUnlock", "createDone",
                   "stopDisable", "stopNext"}

InCall(t, pcs) ==
  \/ pc[t] \in pcs
  \/ \E i \in DOMAIN stack[t] : stack[t][i].pc \in pcs
  \/ cb[t] # NoCb /\ \E i \in DOMAIN cb[t].stack : cb[t].stack[i].pc \in pcs

InSessionCall(t) == InCall(t, SessionCallPcs)

DestroySession(t) ==
  /\ Begin(t, "destroySession")
  /\ ~session.destroyed
  /\ RacingDestroy \/ ~\E u \in Threads : InSessionCall(u)
  /\ session' = [session EXCEPT !.destroyed = TRUE]
  /\ Call(t, "sessMark", "sessRelease")
  /\ UNCHANGED <<queueVars, consumerVars, cb, loc, msgVars>>

(* destroySessionInternalNoRelease, under the session lock                 *)
SessionMarkDestroyed(t) ==
  /\ pc[t] = "sessMark"
  /\ LockFree
  /\ fIsDestroyed' = [c \in Consumers |-> fIsDestroyed[c] \/ Listed(c)]
  /\ session' = [session EXCEPT !.started = FALSE, !.stopping = @ \/ session.started]
  /\ IF session.started THEN Push(t, "stopDone") ELSE UNCHANGED stack
  /\ Goto(t, "sessNack")
  /\ UNCHANGED <<queueVars, useCount, consumerState, cb, loc, msgVars, budget>>

SessionReducePreNackAll(t) ==
  /\ pc[t] = "sessNack"
  /\ session' = ReducePreNackAll(session)
  /\ Goto(t, "sessNext")
  /\ UNCHANGED <<queueVars, consumerVars, stack, cb, loc, msgVars, budget>>

(* destroyConsumerInternal for each consumer still in the list             *)
SessionNextConsumer(t) ==
  /\ pc[t] = "sessNext"
  /\ LET c == NextConsumer(loc[t].con)
     IN  IF c # NoConsumer
           THEN /\ loc' = [loc EXCEPT ![t].con = c]
                /\ stack' = [stack EXCEPT ![t] =
                     <<[FrameAt(t, "release") EXCEPT !.con = c],
                       [FrameAt(t, "sessNext") EXCEPT !.con = c]>> \o @]
                /\ Goto(t, "disable")
           ELSE Return(t)
  /\ UNCHANGED <<queueVars, consumerVars, session, cb, msgVars, budget>>

SessionRelease(t) ==
  /\ pc[t] = "sessRelease"
  /\ session' = [session EXCEPT !.useCount = @ - 1]
  /\ Return(t)
  /\ UNCHANGED <<queueVars, consumerVars, cb, msgVars, budget>>

----------------------------------------------------------------------------
(* iesq_deleteQ, once nobody can find the queue any more: no thread is in  *)
(* a call that was made through the queue's name.  The reaper finds queues *)
(* through its list, whose lock is not part of this module: it is taken to *)
(* have left the queue.                                                    *)
QueueCallPcs == {"putDone", "reapDone", "createConnect", "createLink", "createDone"}

InQueueCall(t) == InCall(t, QueueCallPcs)

DeleteQ(t) ==
  /\ Begin(t, "deleteQ")
  /\ \A u \in Threads : ~InQueueCall(u)
  /\ preDeleteCount' = preDeleteCount - 1
  /\ UNCHANGED <<waiterStatus, pConsumer, nodes, bufferedMsgs, expiryData,
                 consumerVars, session, threadVars, msgVars>>
----------------------------------------------------------------------------
(* The steps of a thread inside the engine or inside the message callback. *)
PutSteps(t) ==
  \/ PutTry(t) \/ PutToWaitingGetter(t) \/ Enqueue(t) \/ CountMessage(t)
  \/ AddMessageExpiryData(t) \/ StoreMessage(t) \/ PostPut(t) \/ PostPutDiscard(t)
  \/ PutDone(t)

GetSteps(t) ==
  \/ CheckWaiters(t) \/ CheckLock(t) \/ GetMessage(t) \/ StateToDelivering(t)
  \/ DeliverMessage(t) \/ ReenableWaiter(t) \/ PendDisable(t) \/ QueueEmpty(t)

CallbackSteps(t) ==
  \/ CallbackReturnsTrue(t) \/ CallbackReturnsFalse(t)
  \/ SuspendMessageDelivery(t) \/ SuspendedCallbackReturns(t)

CompleteSteps(t) ==
  \/ CompleteWaiterActions(t) \/ CompleteUnlock(t) \/ WaiterDisabledCallback(t)
  \/ WaiterDisabledEndStop(t) \/ ClearReclaim(t) \/ Disabling(t)
  \/ DisconnectConsumer(t) \/ Disconnecting(t)
  \/ WaiterRemovedCallback(t) \/ ReducePreDeleteCount(t)

QOperationSteps(t) ==
  \/ LockForReclaim(t) \/ ReclaimSpace(t) \/ UnlockAfterQOperation(t)
  \/ LockForReap(t) \/ ReapWork(t) \/ ReapLockBusy(t) \/ ReapDone(t)

WaiterSteps(t) ==
  \/ AcquireForEnable(t) \/ EnableWaiter(t) \/ EnableUndo(t)
  \/ DisableWaiter(t) \/ UncancelCallback(t) \/ UncancelEndStop(t)
  \/ ReleaseConsumerReference(t) \/ FinishDestroyConsumer(t) \/ TermWaiter(t)

SessionSteps(t) ==
  \/ StartNext(t) \/ StartDeliver(t) \/ StartRelease(t) \/ ResumeCheck(t)
  \/ StopDisable(t) \/ StopNext(t) \/ StopDone(t) \/ StopFinish(t)
  \/ ConnectConsumer(t)
  \/ \E paused \in BOOLEAN : CreateLink(t, paused)
  \/ CreateUnlock(t) \/ CreateDone(t)
  \/ SessionMarkDestroyed(t) \/ SessionReducePreNackAll(t) \/ SessionNextConsumer(t)
  \/ SessionRelease(t)

Step(t) ==
  \/ PutSteps(t) \/ GetSteps(t) \/ CallbackSteps(t) \/ CompleteSteps(t)
  \/ QOperationSteps(t) \/ WaiterSteps(t) \/ SessionSteps(t)

(* The calls the protocol layer and the reaper make into the engine.       *)
Request(t) ==
  \/ \E m \in Msgs : PutMessage(t, m)
  \/ ReapExpiredMessages(t)
  \/ StartMessageDelivery(t)
  \/ StopMessageDelivery(t)
  \/ \E c \in Consumers : ResumeMessageDelivery(t, c)
  \/ \E c \in Consumers : CreateConsumer(t, c)
  \/ \E c \in Consumers : DestroyConsumer(t, c)
  \/ DestroySession(t)
  \/ DeleteQ(t)

Quiescent == \A t \in Threads : pc[t] = "idle" /\ cb[t] = NoCb

(* Nobody need call again: a state with no other step is a stuck thread.   *)
Idle == Quiescent /\ UNCHANGED vars

Next ==
  \/ \E t \in Threads : Step(t) \/ Request(t)
  \/ \E m \in Msgs : ExpiryTimePasses(m)
  \/ Idle

Spec == Init /\ [][Next]_vars

(* A thread inside the engine keeps running, and callbacks return.         *)
Fairness == \A t \in Threads : WF_vars(Step(t))

FairSpec == Spec /\ Fairness

----------------------------------------------------------------------------
(* Properties *)

QueueTypeOK ==
  /\ waiterStatus \in Status
  /\ pConsumer \in Consumers \cup {NoConsumer}
  /\ nodes \in Seq(NodeRecord)
  /\ bufferedMsgs \in Int
  /\ preDeleteCount \in Int
  /\ expiryData \subseteq Msgs

ConsumerTypeOK ==
  /\ useCount \in [Consumers -> Int]
  /\ fIsDestroyed \in [Consumers -> BOOLEAN]
  /\ consumerState \in [Consumers -> {"new", "creating", "live", "finished", "freed"}]

SessionTypeOK == session \in SessionRecord

ThreadTypeOK ==
  /\ pc \in [Threads -> LockPcs \cup FreePcs]
  /\ stack \in [Threads -> Seq(Frame)]
  /\ cb \in [Threads -> Callback \cup {NoCb}]
  /\ loc \in [Threads -> Locals]

MsgTypeOK ==
  /\ fate \in [Msgs -> {"unsent", "putting", "delivered", "discarded", "expired", "rejected"}]
  /\ earlier \in [Msgs -> SUBSET Msgs]
  /\ returned \subseteq Msgs
  /\ late \subseteq Expiring
  /\ budget \in [Ops -> Nat]

(* The type invariant.  In particular the waiter status is always one of   *)
(* the exclusive statuses or a set of flags, as waiterStatus.h requires.   *)
TypeOK == QueueTypeOK /\ ConsumerTypeOK /\ SessionTypeOK /\ ThreadTypeOK /\ MsgTypeOK

(* The thread that may touch the get end of the queue and its consumer.    *)
Owner(t) == pc[t] \in LockPcs \/ cb[t] # NoCb

(* The waiter status is a lock: it says "locked" exactly while one thread  *)
(* is getting, delivering, inside the message callback, discarding,        *)
(* expiring or completing pending actions, and never two threads are.      *)
LockExclusion ==
  /\ \A t, u \in Threads : Owner(t) /\ Owner(u) => t = u
  /\ IsLocked(waiterStatus) <=> \E t \in Threads : Owner(t)

Shape(t) ==
  CASE pc[t] \in {"get", "got", "empty"} -> {WS_GETTING} \cup PendingStatus
    [] pc[t] \in {"deliver", "reenable", "pend", "completeUnlock"} ->
         {WS_DELIVERING} \cup PendingStatus
    [] pc[t] \in {"complete", "waiterDisabledCB", "endStop"} -> PendingStatus
    [] pc[t] = "disabling" -> {s \in PendingStatus : DISABLE_PEND \in s}
    [] pc[t] \in {"disconnect", "disconnecting"} ->
         {{DISCONNECT_PEND}, {DISCONNECT_PEND, RECLAIMSPACE_PEND}}
    [] pc[t] \in {"reapWork", "unlock"} ->
         IF loc[t].old = WS_ENABLED THEN {WS_DELIVERING} \cup PendingStatus
                                    ELSE {WS_DISABLED_LOCKEDWAIT}
    [] pc[t] = "suspended" -> {s \in PendingStatus : DISABLE_PEND \in s}
    [] OTHER -> Status

(* What the owner of the lock finds in the status when it gives the lock   *)
(* up is what its code is written for; the asserts and the FFDCs of        *)
(* checkWaiters, completeWaiterActions and unlockAfterQOperation never     *)
(* trip, whatever flags other threads have added meanwhile.                *)
OwnerStatus ==
  /\ \A t \in Threads : waiterStatus \in Shape(t)
  /\ CANCEL_DISABLE_PEND \in waiterStatus => DISABLE_PEND \in waiterStatus
  /\ \A t \in Threads : pc[t] # "ffdc"

----------------------------------------------------------------------------
(* Who holds a reference.  The activations of a thread: the code it is in, *)
(* the callers below it, and those below the callback it is in.            *)
Activations(t) ==
  <<[pc |-> pc[t], con |-> loc[t].con]>>
    \o [i \in DOMAIN stack[t] |-> [pc |-> stack[t][i].pc, con |-> stack[t][i].con]]
    \o (IF cb[t] = NoCb THEN <<>>
        ELSE [i \in DOMAIN cb[t].stack |->
                [pc |-> cb[t].stack[i].pc, con |-> cb[t].stack[i].con]])

(* How many activations are at one of the points ps.                       *)
CountAt(ps) ==
  Cardinality({a \in Threads \X (1 .. 8) :
                 a[2] \in DOMAIN Activations(a[1]) /\ Activations(a[1])[a[2]].pc \in ps})

CountFor(ps, c) ==
  Cardinality({a \in Threads \X (1 .. 8) :
                 /\ a[2] \in DOMAIN Activations(a[1])
                 /\ Activations(a[1])[a[2]].pc \in ps
                 /\ Activations(a[1])[a[2]].con = c})

One(b) == IF b THEN 1 ELSE 0

(* The owner is inside completeWaiterActions; before or after the disabled *)
(* callback that it owes.                                                  *)
Completing(t) ==
  \/ pc[t] \in {"complete", "completeUnlock", "waiterDisabledCB", "endStop", "disabling",
                "disconnect", "disconnecting"}
  \/ pc[t] = "reclaim" /\ loc[t].after \in {"completeUnlock", "disabling", "disconnecting"}

CallbackFired(t) ==
  \/ pc[t] \in {"endStop", "disabling", "disconnect", "disconnecting"}
  \/ pc[t] = "reclaim" /\ loc[t].after \in {"disabling", "disconnecting"}

(* The references behind the waiter: one while it is enabled or still owes *)
(* the work of a disable, one more for an enable that cancelled a disable. *)
WaiterRefs ==
  IF waiterStatus \in {WS_ENABLED, WS_GETTING, WS_DELIVERING} THEN 1
  ELSE IF HasPending(waiterStatus)
    THEN One(CANCEL_DISABLE_PEND \in waiterStatus)
           + One(~\E t \in Threads : Completing(t) /\ ~loc[t].wasEnabled)
    ELSE 0

(* The position in the session's list a walk to destroy has reached.       *)
Position(c) == LET at == {i \in DOMAIN session.list : session.list[i] = c}
               IN  IF at = {} THEN 0 ELSE CHOOSE i \in at : TRUE

DestroyAhead(c) ==
  \E t \in Threads : \E i \in DOMAIN Activations(t) :
    LET a == Activations(t)[i]
    IN  \/ a.pc \in {"sessNack", "sessNext"} /\ Position(a.con) < Position(c)

CreationRef(c) ==
  consumerState[c] \in {"creating", "live"} /\ (~fIsDestroyed[c] \/ DestroyAhead(c))

(* The use count of a consumer is the number of its owners: its creator,   *)
(* the enabled waiter, and the calls that have taken a reference and not   *)
(* released it.  A count too low frees a consumer in use; one too high     *)
(* keeps a destroyed consumer, its session and its client for ever.        *)
ReferenceCount ==
  \A c \in {d \in Consumers : consumerState[d] \in {"creating", "live", "finished"}} :
    useCount[c] = One(CreationRef(c)) + (IF pConsumer = c THEN WaiterRefs ELSE 0)
                    + CountFor({"release", "startRelease", "uncancelCB", "uncancelEndStop",
                                "enable"}, c)
                    + Cardinality({t \in Threads : pc[t] = "enableUndo" /\ FromStart(t)
                                                     /\ loc[t].con = c})

(* ActiveCallbacks is the number of WaiterDisabled callbacks still owed,   *)
(* plus one while delivery is started or a stop has not been completed.    *)
(* Too low and a stop ends under a running callback; too high and the      *)
(* session stays "stopping" for ever.                                      *)
CallbackBalance ==
  session.activeCallbacks =
      One(session.started \/ CountAt({"stopDisable", "stopNext", "stopDone"}) > 0)
    + WaiterRefs - One(\E t \in Threads : CallbackFired(t) /\ loc[t].wasEnabled)
    + CountAt({"enable", "enableUndo", "uncancelCB"})

(* The consumer has joined the session.                                    *)
Linked(c) ==
  \/ consumerState[c] \in {"live", "finished"}
  \/ consumerState[c] = "creating" /\ CountFor({"createUnlock", "createDone"}, c) > 0

(* The session's use count is the number of its owners: its creation, the  *)
(* messages not yet nacked, delivery, and each consumer not yet freed.     *)
SessionReferences ==
  /\ session.preNackAll =
       One(~session.destroyed \/ CountAt({"sessMark", "sessNack"}) > 0)
         + Cardinality({c \in Consumers : Linked(c) /\ consumerState[c] # "finished"})
  /\ session.useCount =
       One(~session.destroyed \/ CountAt({"sessRelease"}) > 0)
         + One(session.preNackAll > 0)
         + One(session.started \/ session.stopping)
         + Cardinality({c \in Consumers : Linked(c)})

(* Code that dereferences the consumer it has in hand.                     *)
ConsumerPcs ==
  {"deliver", "waiterDisabledCB", "removed", "acquire", "enable", "enableUndo", "disable",
   "uncancelCB", "uncancelEndStop", "endStop", "release", "startRelease", "finishDestroy",
   "term", "resumeCheck", "createConnect", "createLink", "createUnlock", "createDone"}

(* No thread works on a consumer that has been freed, and none is in its   *)
(* callback once the client has been told that it is gone.  engine.c takes *)
(* a reference where it "Need[s] to keep hold of this consumer".           *)
NoUseAfterFree ==
  \A t \in Threads :
    /\ pc[t] \in ConsumerPcs => consumerState[loc[t].con] # "freed"
    /\ cb[t] # NoCb => consumerState[cb[t].con] \notin {"finished", "freed"}

(* A queue never points to a freed consumer, and is disconnected when it   *)
(* points to none: in waiterStatus.c "The queue no longer has a right to   *)
(* refer to this consumer" comes before the free.                          *)
QueueConsumerAlive ==
  /\ pConsumer # NoConsumer => consumerState[pConsumer] # "freed"
  /\ Quiescent /\ pConsumer = NoConsumer => waiterStatus = WS_DISCONNECTED

(* Code that touches the queue.                                            *)
QueuePcs ==
  (LockPcs \ {"waiterDisabledCB", "endStop"}) \cup PutPcs
    \cup {"postput", "postput2", "check", "checkLock", "reclaimLock", "reapLock", "term",
          "enable", "disable", "removed", "reducePreDelete", "createConnect"}

(* The queue is freed when it has been deleted and its consumer has been   *)
(* disconnected, and by then no thread is using it.                        *)
QueueAlive ==
  /\ preDeleteCount >= 0
  /\ preDeleteCount = 0 =>
       /\ waiterStatus = WS_DISCONNECTED
       /\ \A t \in Threads : pc[t] \notin QueuePcs /\ cb[t] = NoCb

(* A consumer that is being destroyed is never enabled again: who enables  *)
(* holds the session lock and has found the consumer alive under it.       *)
DestroyedNotEnabled ==
  [][\A c \in Consumers : fIsDestroyed[c] /\ pConsumer = c =>
       ~(waiterStatus = WS_DISABLED /\ waiterStatus' = WS_ENABLED)]_vars

(* destroyConsumer and destroyConsumerInternal assert that disabling the   *)
(* waiter went well: no other thread has disconnected it before them.      *)
DestroyFindsWaiter ==
  \A t \in Threads :
    pc[t] = "disable" /\ fIsDestroyed[loc[t].con] => ~TermInvalid(waiterStatus)

(* ism_engine_stopMessageDelivery: once delivery has stopped no callback   *)
(* is running or about to run, and the waiter is not enabled.              *)
StoppedMeansQuiet ==
  ~session.started /\ ~session.stopping =>
    /\ waiterStatus \notin {WS_ENABLED, WS_GETTING, WS_DELIVERING}
    /\ \A t \in Threads : cb[t] = NoCb /\ pc[t] \notin {"deliver", "get", "got"}

(* engine.c: "don't want to do that with the session lock held".  The      *)
(* callback may call back into the engine, which takes the session lock.   *)
NoCallbackUnderSessionLock ==
  \A t \in Threads : pc[t] = "deliver" \/ pc[t] = "idle" => session.lock # t

(* When every thread has left the engine nothing is left undone: no flag   *)
(* is pending, and no stored message waits at the head of the queue while  *)
(* the consumer is enabled.                                                *)
NoLostWakeup ==
  Quiescent =>
    /\ ~IsLocked(waiterStatus)
    /\ waiterStatus = WS_ENABLED => ~HeadReady(SkipRemoved(nodes))

(* bufferedMsgs (unsigned in the code) counts the nodes in the queue whose *)
(* putter has got as far as counting; it never goes below zero.            *)
BufferedCount ==
  bufferedMsgs + Cardinality({t \in Threads : pc[t] = "count"})
    = Cardinality({i \in DOMAIN nodes : nodes[i].state # "removed"})

(* With DiscardOldMessages, a queue at rest is within its limit even when  *)
(* the discard was left to the owner of the lock.                          *)
DiscardKeepsLimit ==
  Quiescent /\ MaxMsgBehavior = "DiscardOldMessages" => bufferedMsgs <= MaxMsgCount

(* An expiring message of a queue at rest is on record for the reaper.     *)
ExpiryRecorded ==
  Quiescent => expiryData = {m \in Expiring : \E i \in DOMAIN nodes :
                               nodes[i].msg = m /\ nodes[i].state # "removed"}

(* iesq_expireNode never releases the message of a node that has none.     *)
NoReleaseOfUnstoredMessage == \A t \in Threads : pc[t] # "crash"

(* policyInfo.h: "Maximum count of messages (0 is unlimited)".             *)
UnlimitedNeverDiscards == MaxMsgCount = 0 => \A m \in Msgs : fate[m] # "discarded"

(* The contract of the queue, implemented by all of the above.             *)
Contract == INSTANCE DeliveryContract WITH
              open <- session.started \/ session.stopping,
              CanDiscard <- MaxMsgBehavior = "DiscardOldMessages",
              CanReject <- MaxMsgBehavior = "RejectNewMessages"

(* Every message meets one fate, in order, and only while delivery is on.  *)
ImplementsContract == Contract!Spec

(* A stop that has begun ends: the callbacks it waits for all come.        *)
StopCompletes == session.stopping ~> ~session.stopping

(* A consumer that is being destroyed is freed in the end.                 *)
DestroyCompletes == \A c \in Consumers : fIsDestroyed[c] ~> consumerState[c] = "freed"

(* A thread that has entered the engine leaves it: no spin loop waits for  *)
(* a thread that waits for it.                                             *)
CallsReturn == \A t \in Threads : pc[t] # "idle" ~> pc[t] = "idle" /\ cb[t] = NoCb

(* The three counts that keep consumer and session alive (useCount,        *)
(* activeCallbacks, preNackAll) are exact while calls that take and drop   *)
(* references interleave.                                                  *)
ReferencesBalance == ReferenceCount /\ CallbackBalance /\ SessionReferences

(* Nothing that has been freed - consumer or queue - is used or pointed    *)
(* to, and destroyConsumer finds the waiter where it expects it.           *)
NothingDangling == NoUseAfterFree /\ QueueConsumerAlive /\ QueueAlive /\ DestroyFindsWaiter

(* A queue that all threads have left has nothing undone: no wakeup, no    *)
(* discard and no record of an expiry is missing; its count is exact.      *)
NothingUndone == NoLostWakeup /\ BufferedCount /\ DiscardKeepsLimit /\ ExpiryRecorded

(* A message callback runs only while delivery is on, and never under the  *)
(* session lock that a call from inside it would take.                     *)
CallbacksAllowed == StoppedMeansQuiet /\ NoCallbackUnderSessionLock

(* Everything that has begun ends: a stop of delivery, the destruction of  *)
(* a consumer, and every call into the engine.                             *)
CallsComplete == StopCompletes /\ DestroyCompletes /\ CallsReturn
=============================================================================
