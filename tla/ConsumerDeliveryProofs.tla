----------------------- MODULE ConsumerDeliveryProofs -----------------------
(***************************************************************************)
(* The theorems about ConsumerDelivery: type correctness, mutual exclusion *)
(* by the waiter status, and the status its owner finds.  All three follow *)
(* from the one inductive invariant Inv of ConsumerDeliveryLemmas, which   *)
(* every step of a thread preserves: one lemma per action.  A step outside *)
(* the lock goes through FreeInv, a step that takes or keeps the lock      *)
(* through HoldInv or CompleteInv, and a step that gives it up through     *)
(* UnlockInv.                                                              *)
(***************************************************************************)
EXTENDS ConsumerDeliveryLemmas

(* Putting a message *)

(* A put begins, or is rejected by a full queue.                           *)
LEMMA PutMessageStep ==
  ASSUME Inv, NEW t \in Threads, NEW m \in Msgs, PutMessage(t, m)
  PROVE  Inv'
<1>1. ThreadTypeOK /\ LocalsMeet(t) /\ pc[t] \in FreePcs \ {"suspended"}
  BY ThreadFacts DEF PutMessage, Begin, FreePcs
<1>2. FreeMove(t)
  <2>1. /\ pc[t] = "idle"
        /\ loc' = [loc EXCEPT ![t].cur = m]
        /\ \/ pc' = [pc EXCEPT ![t] = "putDone"] /\ stack' = stack
           \/ /\ pc' = [pc EXCEPT ![t] = "putTry"]
              /\ stack' = [stack EXCEPT ![t] = <<[FrameAt(t, "putDone") EXCEPT !.cur = m]>> \o @]
        /\ UNCHANGED cb
    BY DEF PutMessage, Begin, Goto
  <2>2. /\ loc' \in [Threads -> Locals]
        /\ loc'[t].cur = m
        /\ \A u \in Threads : u # t => loc'[u] = loc[u]
    <3>1. loc \in [Threads -> Locals]
      BY <1>1 DEF ThreadTypeOK
    <3> QED
      BY <2>1, <3>1 DEF Locals
  <2>3. stack' \in [Threads -> Seq(Frame)]
    <3>1. [FrameAt(t, "putDone") EXCEPT !.cur = m] \in Frame
      BY <1>1, FrameAtType DEF Frame, ReturnPcs
    <3>2. CASE stack' = stack
      BY <1>1, <3>2 DEF ThreadTypeOK
    <3>3. CASE stack' = [stack EXCEPT ![t] = <<[FrameAt(t, "putDone") EXCEPT !.cur = m]>> \o @]
      BY <1>1, <3>1, <3>3, StackType
    <3> QED
      BY <2>1, <3>2, <3>3
  <2>4. /\ ThreadTypeOK' /\ OthersStay(t)
        /\ pc'[t] \in {"putDone", "putTry"}
    <3>1. "putDone" \in FreePcs /\ "putTry" \in FreePcs
      BY DEF FreePcs
    <3>2. CASE pc' = [pc EXCEPT ![t] = "putDone"]
      <4>1. stack' = stack
        BY <1>1, <2>1, <3>2 DEF ThreadTypeOK
      <4> QED
        BY <1>1, <2>1, <2>2, <2>3, <3>1, <3>2, <4>1 DEF ThreadTypeOK, OthersStay
    <3>3. CASE pc' = [pc EXCEPT ![t] = "putTry"]
      <4>1. stack' = [stack EXCEPT ![t] = <<[FrameAt(t, "putDone") EXCEPT !.cur = m]>> \o @]
        BY <1>1, <2>1, <3>3 DEF ThreadTypeOK
      <4> QED
        BY <1>1, <2>1, <2>2, <2>3, <3>1, <3>3, <4>1 DEF ThreadTypeOK, OthersStay
    <3> QED
      BY <2>1, <3>2, <3>3
  <2> QED
    BY <2>1, <2>2, <2>4 DEF FreeMove, LocalsMeet, FreePcs
<1>3. Keeps(waiterStatus, waiterStatus') /\ QueueTypeOK' /\ ConsumerTypeOK' /\ SessionTypeOK'
  BY KeepsReflexive DEF Inv, TypeOK, QueueTypeOK, ConsumerTypeOK, SessionTypeOK, PutMessage,
     queueVars, consumerVars
<1>4. MsgTypeOK'
  BY BeginType DEF Inv, TypeOK, MsgTypeOK, PutMessage, Ops
<1> QED
  BY <1>1, <1>2, <1>3, <1>4, FreeInv

(* The put looks whether it may hand its message straight over.            *)
LEMMA PutTryStep ==
  ASSUME Inv, NEW t \in Threads, PutTry(t)
  PROVE  Inv'
<1>1. ThreadTypeOK /\ LocalsMeet(t) /\ pc[t] \in FreePcs \ {"suspended"}
  BY ThreadFacts DEF PutTry, FreePcs
<1>2. FreeMove(t)
  BY <1>1, CarryMove DEF PutTry, MayPutDirect, FreePcs, LocalsMeet
<1>3. Keeps(waiterStatus, waiterStatus') /\ QueueTypeOK' /\ ConsumerTypeOK' /\ SessionTypeOK' /\
   MsgTypeOK'
  BY KeepsReflexive DEF Inv, TypeOK, QueueTypeOK, ConsumerTypeOK, SessionTypeOK, MsgTypeOK, PutTry,
     queueVars, consumerVars, msgVars
<1> QED
  BY <1>1, <1>2, <1>3, FreeInv

(* iesq_putToWaitingGetter takes the lock of an enabled waiter to deliver. *)
LEMMA PutToWaitingGetterStep ==
  ASSUME Inv, NEW t \in Threads, PutToWaitingGetter(t)
  PROVE  Inv'
<1>1. /\ ThreadTypeOK /\ LocalsMeet(t) /\ CancelHasDisable(waiterStatus)
      /\ ~IsLocked(waiterStatus) => cb[t] = NoCb
  BY ThreadFacts
<1>2. ConsumerTypeOK' /\ SessionTypeOK' /\ MsgTypeOK'
  BY DEF Inv, TypeOK, ConsumerTypeOK, SessionTypeOK, MsgTypeOK, PutToWaitingGetter, consumerVars,
         msgVars
<1>3. QueueTypeOK'
  BY StatusFacts DEF Inv, TypeOK, QueueTypeOK, PutToWaitingGetter
<1>4. CASE waiterStatus = WS_ENABLED
  <2>1. ~IsLocked(waiterStatus) /\ IsLocked(waiterStatus') /\ waiterStatus' = WS_DELIVERING
    BY <1>4, StatusBits DEF PutToWaitingGetter
  <2>2. loc' = [loc EXCEPT ![t].con = pConsumer, ![t].after = "check"]
    BY <1>4 DEF PutToWaitingGetter
  <2>3. /\ loc' \in [Threads -> Locals]
        /\ loc'[t].after = "check"
        /\ \A u \in Threads : u # t => loc'[u] = loc[u]
    <3>1. loc \in [Threads -> Locals] /\ pConsumer \in Consumers \cup {NoConsumer}
      BY DEF Inv, TypeOK, ThreadTypeOK, QueueTypeOK
    <3>2. "check" \in LockPcs \cup FreePcs
      BY DEF FreePcs
    <3> DEFINE r == [loc[t] EXCEPT !.con = pConsumer, !.after = "check"]
    <3>3. r \in Locals
      BY <3>1, <3>2 DEF Locals
    <3>4. loc' = [loc EXCEPT ![t] = r]
      BY <2>2, <3>1
    <3>5. r.after = "check"
      BY <3>1 DEF Locals
    <3> HIDE DEF r
    <3> QED
      BY <3>1, <3>3, <3>4, <3>5, LocalsUpdate
  <2>4. HoldMove(t, "deliver")
    BY <1>1, <1>4, <2>1, <2>3, GotoHold DEF PutToWaitingGetter, LockPcs
  <2>5. LocalsMeet(t)' /\ StatusMeets(t)'
    BY <2>1, <2>3, <2>4 DEF HoldMove, LocalsMeet, StatusMeets, DeliverShape
  <2>6. CancelHasDisable(waiterStatus')
    BY <2>1 DEF CancelHasDisable, WS_DELIVERING, CANCEL_DISABLE_PEND
  <2> QED
    BY <1>2, <1>3, <2>1, <2>4, <2>5, <2>6, HoldInv DEF LockPcs
<1>5. CASE waiterStatus # WS_ENABLED
  <2>1. FreeMove(t)
    BY <1>1, <1>5, CarryMove DEF PutToWaitingGetter, FreePcs, LocalsMeet
  <2>2. Keeps(waiterStatus, waiterStatus') /\ pc[t] \in FreePcs \ {"suspended"}
    BY <1>5, KeepsReflexive DEF PutToWaitingGetter, FreePcs
  <2> QED
    BY <1>2, <1>3, <2>1, <2>2, FreeInv
<1> QED
  BY <1>4, <1>5

(* The put takes the node at the tail of the queue.                        *)
LEMMA EnqueueStep ==
  ASSUME Inv, NEW t \in Threads, Enqueue(t)
  PROVE  Inv'
<1>1. ThreadTypeOK /\ LocalsMeet(t) /\ pc[t] \in FreePcs \ {"suspended"}
  BY ThreadFacts DEF Enqueue, FreePcs
<1>2. FreeMove(t)
  BY <1>1, CarryMove DEF Enqueue, FreePcs, LocalsMeet
<1>3. Keeps(waiterStatus, waiterStatus') /\ ConsumerTypeOK' /\ SessionTypeOK' /\ MsgTypeOK'
  BY KeepsReflexive DEF Inv, TypeOK, ConsumerTypeOK, SessionTypeOK, MsgTypeOK, Enqueue,
     consumerVars, msgVars
<1>4. QueueTypeOK'
  <2>1. nodes \in Seq(NodeRecord) /\ Node(loc[t].cur) \in NodeRecord
    BY <1>1 DEF Inv, TypeOK, QueueTypeOK, Node, NodeRecord, LocalsMeet, Enqueue
  <2>2. Append(nodes, Node(loc[t].cur)) \in Seq(NodeRecord)
    BY <2>1, AppendProperties
  <2> QED
    BY <2>2 DEF Inv, TypeOK, QueueTypeOK, Enqueue
<1> QED
  BY <1>1, <1>2, <1>3, <1>4, FreeInv

(* The put counts its message.                                             *)
LEMMA CountMessageStep ==
  ASSUME Inv, NEW t \in Threads, CountMessage(t)
  PROVE  Inv'
<1>1. ThreadTypeOK /\ LocalsMeet(t) /\ pc[t] \in FreePcs \ {"suspended"}
  BY ThreadFacts DEF CountMessage, FreePcs
<1>2. FreeMove(t)
  BY <1>1, CarryMove DEF CountMessage, FreePcs, LocalsMeet
<1>3. Keeps(waiterStatus, waiterStatus') /\ ConsumerTypeOK' /\ SessionTypeOK' /\ MsgTypeOK'
  BY KeepsReflexive DEF Inv, TypeOK, ConsumerTypeOK, SessionTypeOK, MsgTypeOK, CountMessage,
     consumerVars, msgVars
<1>4. QueueTypeOK'
  BY DEF Inv, TypeOK, QueueTypeOK, CountMessage
<1> QED
  BY <1>1, <1>2, <1>3, <1>4, FreeInv

(* The put records the expiry of its message.                              *)
LEMMA AddMessageExpiryDataStep ==
  ASSUME Inv, NEW t \in Threads, AddMessageExpiryData(t)
  PROVE  Inv'
<1>1. ThreadTypeOK /\ LocalsMeet(t) /\ pc[t] \in FreePcs \ {"suspended"}
  BY ThreadFacts DEF AddMessageExpiryData, FreePcs
<1>2. FreeMove(t)
  BY <1>1, CarryMove DEF AddMessageExpiryData, FreePcs, LocalsMeet
<1>3. Keeps(waiterStatus, waiterStatus') /\ ConsumerTypeOK' /\ SessionTypeOK' /\ MsgTypeOK'
  BY KeepsReflexive DEF Inv, TypeOK, ConsumerTypeOK, SessionTypeOK, MsgTypeOK, AddMessageExpiryData,
     consumerVars, msgVars
<1>4. QueueTypeOK'
  BY <1>1 DEF Inv, TypeOK, QueueTypeOK, AddMessageExpiryData, LocalsMeet
<1> QED
  BY <1>1, <1>2, <1>3, <1>4, FreeInv

(* The put stores its message in the node and looks for a waiter.          *)
LEMMA StoreMessageStep ==
  ASSUME Inv, NEW t \in Threads, StoreMessage(t)
  PROVE  Inv'
<1>1. ThreadTypeOK /\ LocalsMeet(t) /\ pc[t] \in FreePcs \ {"suspended"}
  BY ThreadFacts DEF StoreMessage, FreePcs
<1>2. FreeMove(t)
  BY <1>1, CallMove DEF StoreMessage, ReturnPcs, FreePcs, PlainPcs
<1>3. Keeps(waiterStatus, waiterStatus') /\ ConsumerTypeOK' /\ SessionTypeOK' /\ MsgTypeOK'
  BY KeepsReflexive DEF Inv, TypeOK, ConsumerTypeOK, SessionTypeOK, MsgTypeOK, StoreMessage,
     consumerVars, msgVars
<1>4. QueueTypeOK'
  <2>1. nodes' = [i \in DOMAIN nodes |-> IF nodes[i].msg \in {loc[t].cur}
                                         THEN [nodes[i] EXCEPT !.state = "full"] ELSE nodes[i]]
    BY DEF StoreMessage
  <2>2. nodes' \in Seq(NodeRecord)
    BY <2>1, MapNodesType DEF Inv, TypeOK, QueueTypeOK
  <2> QED
    BY <2>2 DEF Inv, TypeOK, QueueTypeOK, StoreMessage
<1> QED
  BY <1>1, <1>2, <1>3, <1>4, FreeInv

(* The put looks whether the queue is full and expired messages can go.    *)
LEMMA PostPutStep ==
  ASSUME Inv, NEW t \in Threads, PostPut(t)
  PROVE  Inv'
<1>1. ThreadTypeOK /\ LocalsMeet(t) /\ pc[t] \in FreePcs \ {"suspended"}
  BY ThreadFacts DEF PostPut, FreePcs
<1>2. FreeMove(t)
  <2>1. UNCHANGED cb
    BY DEF PostPut
  <2>2. CASE bufferedMsgs < MaxMsgCount
    BY <1>1, <2>1, <2>2, ReturnMove DEF PostPut, FreePcs
  <2>3. CASE ~(bufferedMsgs < MaxMsgCount) /\ ReapNeeded
    <3>1. Call(t, "reapLock", "postput2") /\ loc' = [loc EXCEPT ![t].deliver = TRUE]
      BY <2>3 DEF PostPut
    <3>2. loc' \in [Threads -> Locals] /\ \A u \in Threads : u # t => loc'[u] = loc[u]
      <4>1. loc \in [Threads -> Locals]
        BY <1>1 DEF ThreadTypeOK
      <4> QED
        BY <3>1, <4>1 DEF Locals
    <3>3. /\ pc' \in [Threads -> LockPcs \cup FreePcs]
          /\ pc' = [pc EXCEPT ![t] = "reapLock"]
          /\ stack' \in [Threads -> Seq(Frame)]
      <4>1. "reapLock" \in FreePcs /\ "postput2" \in ReturnPcs
        BY DEF FreePcs, ReturnPcs
      <4> QED
        BY <1>1, <3>1, <4>1, CallType
    <3>4. pc'[t] = "reapLock" /\ OthersStay(t)
      BY <1>1, <2>1, <3>2, <3>3 DEF OthersStay, ThreadTypeOK
    <3>5. ThreadTypeOK'
      BY <1>1, <2>1, <3>2, <3>3 DEF ThreadTypeOK
    <3> QED
      BY <2>1, <3>4, <3>5 DEF FreeMove, LocalsMeet, FreePcs
  <2>4. CASE ~(bufferedMsgs < MaxMsgCount) /\ ~ReapNeeded
    BY <1>1, <2>1, <2>4, GotoMove DEF PostPut, FreePcs, PlainPcs
  <2> QED
    BY <2>2, <2>3, <2>4
<1>3. Keeps(waiterStatus, waiterStatus') /\ QueueTypeOK' /\ ConsumerTypeOK' /\ SessionTypeOK' /\
   MsgTypeOK'
  BY KeepsReflexive DEF Inv, TypeOK, QueueTypeOK, ConsumerTypeOK, SessionTypeOK, MsgTypeOK, PostPut,
     queueVars, consumerVars, msgVars
<1> QED
  BY <1>1, <1>2, <1>3, FreeInv

(* The put looks whether messages must be discarded.                       *)
LEMMA PostPutDiscardStep ==
  ASSUME Inv, NEW t \in Threads, PostPutDiscard(t)
  PROVE  Inv'
<1>1. ThreadTypeOK /\ LocalsMeet(t) /\ pc[t] \in FreePcs \ {"suspended"}
  BY ThreadFacts DEF PostPutDiscard, FreePcs
<1>2. FreeMove(t)
  BY <1>1, GotoMove, ReturnMove DEF PostPutDiscard, FreePcs, PlainPcs
<1>3. Keeps(waiterStatus, waiterStatus') /\ QueueTypeOK' /\ ConsumerTypeOK' /\ SessionTypeOK' /\
   MsgTypeOK'
  BY KeepsReflexive DEF Inv, TypeOK, QueueTypeOK, ConsumerTypeOK, SessionTypeOK, MsgTypeOK,
     PostPutDiscard, queueVars, consumerVars, msgVars
<1> QED
  BY <1>1, <1>2, <1>3, FreeInv

(* iesq_putMessage returns.                                                *)
LEMMA PutDoneStep ==
  ASSUME Inv, NEW t \in Threads, PutDone(t)
  PROVE  Inv'
<1>1. ThreadTypeOK /\ LocalsMeet(t) /\ pc[t] \in FreePcs \ {"suspended"}
  BY ThreadFacts DEF PutDone, FreePcs
<1>2. FreeMove(t)
  BY <1>1, ReturnMove DEF PutDone, FreePcs, PlainPcs
<1>3. Keeps(waiterStatus, waiterStatus') /\ QueueTypeOK' /\ ConsumerTypeOK' /\ SessionTypeOK'
  BY KeepsReflexive DEF Inv, TypeOK, QueueTypeOK, ConsumerTypeOK, SessionTypeOK, PutDone, queueVars,
     consumerVars
<1>4. MsgTypeOK'
  BY DEF Inv, TypeOK, MsgTypeOK, PutDone
<1> QED
  BY <1>1, <1>2, <1>3, <1>4, FreeInv

----------------------------------------------------------------------------
(* Getting and delivering *)

(* iesq_checkWaiters looks for buffered messages.                          *)
LEMMA CheckWaitersStep ==
  ASSUME Inv, NEW t \in Threads, CheckWaiters(t)
  PROVE  Inv'
<1>1. ThreadTypeOK /\ LocalsMeet(t) /\ pc[t] \in FreePcs \ {"suspended"}
  BY ThreadFacts DEF CheckWaiters, FreePcs
<1>2. FreeMove(t)
  BY <1>1, GotoMove, ReturnMove DEF CheckWaiters, FreePcs, PlainPcs
<1>3. Keeps(waiterStatus, waiterStatus') /\ QueueTypeOK' /\ ConsumerTypeOK' /\ SessionTypeOK' /\
   MsgTypeOK'
  BY KeepsReflexive DEF Inv, TypeOK, QueueTypeOK, ConsumerTypeOK, SessionTypeOK, MsgTypeOK,
     CheckWaiters, queueVars, consumerVars, msgVars
<1> QED
  BY <1>1, <1>2, <1>3, FreeInv

(* iesq_checkWaiters takes the lock of an enabled waiter to get.           *)
LEMMA CheckLockStep ==
  ASSUME Inv, NEW t \in Threads, CheckLock(t)
  PROVE  Inv'
<1>1. ThreadTypeOK /\ (~IsLocked(waiterStatus) => cb[t] = NoCb)
  BY ThreadFacts
<1>2. ConsumerTypeOK' /\ SessionTypeOK' /\ MsgTypeOK'
  BY DEF Inv, TypeOK, ConsumerTypeOK, SessionTypeOK, MsgTypeOK, CheckLock, consumerVars, msgVars
<1>3. QueueTypeOK'
  BY StatusFacts DEF Inv, TypeOK, QueueTypeOK, CheckLock
<1>4. CASE waiterStatus = WS_ENABLED
  <2>1. ~IsLocked(waiterStatus) /\ IsLocked(waiterStatus') /\ waiterStatus' = WS_GETTING
    BY <1>4, StatusBits DEF CheckLock, CheckLocks
  <2>2. loc' = [loc EXCEPT ![t].con = pConsumer]
    BY <1>4 DEF CheckLock, CheckLocks
  <2>3. loc' \in [Threads -> Locals] /\ \A u \in Threads : u # t => loc'[u] = loc[u]
    <3>1. loc \in [Threads -> Locals] /\ pConsumer \in Consumers \cup {NoConsumer}
      BY DEF Inv, TypeOK, ThreadTypeOK, QueueTypeOK
    <3> QED
      BY <2>2, <3>1 DEF Locals
  <2>4. HoldMove(t, "get")
    BY <1>1, <1>4, <2>1, <2>3, GotoHold DEF CheckLock, CheckLocks, LockPcs
  <2>5. LocalsMeet(t)' /\ StatusMeets(t)'
    BY <2>1, <2>4 DEF HoldMove, LocalsMeet, StatusMeets, GetShape
  <2>6. CancelHasDisable(waiterStatus')
    BY <2>1 DEF CancelHasDisable, WS_GETTING, CANCEL_DISABLE_PEND
  <2> QED
    BY <1>2, <1>3, <2>1, <2>4, <2>5, <2>6, HoldInv DEF LockPcs
<1>5. CASE waiterStatus # WS_ENABLED
  <2>1. Return(t) /\ UNCHANGED <<cb, waiterStatus>> /\ pc[t] \in FreePcs \ {"suspended"}
    BY <1>5 DEF CheckLock, CheckLocks, FreePcs
  <2>2. FreeMove(t) /\ Keeps(waiterStatus, waiterStatus')
    BY <1>1, <2>1, ReturnMove, KeepsReflexive
  <2> QED
    BY <1>2, <1>3, <2>1, <2>2, FreeInv
<1> QED
  BY <1>4, <1>5

(* iesq_getMessage takes the first message or finds none.                  *)
LEMMA GetMessageStep ==
  ASSUME Inv, NEW t \in Threads, GetMessage(t)
  PROVE  Inv'
<1>1. /\ ThreadTypeOK /\ StatusMeets(t) /\ CancelHasDisable(waiterStatus)
      /\ pc[t] \in LockPcs => Owner(t) /\ cb[t] = NoCb
      /\ Owner(t) => IsLocked(waiterStatus)
  BY ThreadFacts
<1>2. pc[t] = "get" /\ pc[t] \in LockPcs /\ UNCHANGED <<waiterStatus, stack, cb>>
  BY DEF GetMessage, LockPcs
<1>3. ConsumerTypeOK' /\ SessionTypeOK' /\ MsgTypeOK'
  BY DEF Inv, TypeOK, ConsumerTypeOK, SessionTypeOK, MsgTypeOK, GetMessage, consumerVars, msgVars
<1>4. CASE HeadReady(SkipRemoved(nodes))
  <2> DEFINE m == Head(SkipRemoved(nodes)).msg
  <2>1. Tail(SkipRemoved(nodes)) \in Seq(NodeRecord) /\ m \in Msgs
    BY <1>4, TakeHeadType DEF Inv, TypeOK
  <2>2. TakeHead /\ loc' = [loc EXCEPT ![t].cur = m] /\ Goto(t, "got")
    BY <1>4 DEF GetMessage
  <2> HIDE DEF m
  <2>3. QueueTypeOK'
    BY <2>1, <2>2 DEF Inv, TypeOK, QueueTypeOK, GetMessage, TakeHead
  <2>4. loc' \in [Threads -> Locals] /\ \A u \in Threads : u # t => loc'[u] = loc[u]
    <3>1. loc \in [Threads -> Locals]
      BY <1>1 DEF ThreadTypeOK
    <3> QED
      BY <2>1, <2>2, <3>1 DEF Locals
  <2>5. HoldMove(t, "got")
    BY <1>1, <1>2, <2>2, <2>4, GotoHold DEF LockPcs
  <2>6. LocalsMeet(t)' /\ StatusMeets(t)'
    BY <1>1, <1>2, <2>5 DEF HoldMove, LocalsMeet, StatusMeets
  <2> QED
    BY <1>1, <1>2, <1>3, <2>3, <2>5, <2>6, HoldInv DEF LockPcs
<1>5. CASE ~HeadReady(SkipRemoved(nodes))
  <2>1. /\ nodes' = SkipRemoved(nodes) /\ Goto(t, "empty")
        /\ UNCHANGED <<bufferedMsgs, expiryData, loc>>
    BY <1>5 DEF GetMessage, TakeHead
  <2>2. QueueTypeOK'
    BY <2>1, SkipRemovedType DEF Inv, TypeOK, QueueTypeOK, GetMessage
  <2>3. HoldMove(t, "empty")
    BY <1>1, <1>2, <2>1, GotoHold DEF LockPcs, ThreadTypeOK
  <2>4. LocalsMeet(t)' /\ StatusMeets(t)'
    BY <1>1, <1>2, <2>3 DEF HoldMove, LocalsMeet, StatusMeets
  <2> QED
    BY <1>1, <1>2, <1>3, <2>2, <2>3, <2>4, HoldInv DEF LockPcs
<1> QED
  BY <1>4, <1>5

(* The getter says that it is delivering.                                  *)
LEMMA StateToDeliveringStep ==
  ASSUME Inv, NEW t \in Threads, StateToDelivering(t)
  PROVE  Inv'
<1>1. /\ ThreadTypeOK /\ StatusMeets(t) /\ CancelHasDisable(waiterStatus)
      /\ pc[t] \in LockPcs => Owner(t) /\ cb[t] = NoCb
  BY ThreadFacts
<1>2. pc[t] = "got" /\ pc[t] \in LockPcs /\ waiterStatus \in GetShape
  BY <1>1 DEF StateToDelivering, LockPcs, StatusMeets
<1>3. ConsumerTypeOK' /\ SessionTypeOK' /\ MsgTypeOK'
  BY DEF Inv, TypeOK, ConsumerTypeOK, SessionTypeOK, MsgTypeOK, StateToDelivering, consumerVars,
         msgVars
<1>4. QueueTypeOK'
  BY StatusFacts DEF Inv, TypeOK, QueueTypeOK, StateToDelivering
<1>5. waiterStatus' \in DeliverShape /\ CancelHasDisable(waiterStatus')
  BY <1>1, <1>2 DEF StateToDelivering, GetShape, DeliverShape, CancelHasDisable, WS_DELIVERING,
     CANCEL_DISABLE_PEND
<1>6. /\ loc' \in [Threads -> Locals]
      /\ loc'[t].after = "checkLock"
      /\ \A u \in Threads : u # t => loc'[u] = loc[u]
  <2>1. loc \in [Threads -> Locals] /\ "checkLock" \in LockPcs \cup FreePcs
    BY <1>1 DEF ThreadTypeOK, FreePcs
  <2>2. loc' = [loc EXCEPT ![t].after = "checkLock"]
    BY DEF StateToDelivering
  <2> QED
    BY <2>1, <2>2 DEF Locals
<1>7. HoldMove(t, "deliver")
  BY <1>1, <1>2, <1>6, GotoHold DEF StateToDelivering, LockPcs
<1>8. LocalsMeet(t)' /\ StatusMeets(t)' /\ IsLocked(waiterStatus')
  BY <1>5, <1>6, <1>7, ShapesAreLocked DEF HoldMove, LocalsMeet, StatusMeets
<1> QED
  BY <1>1, <1>2, <1>3, <1>4, <1>5, <1>7, <1>8, HoldInv DEF LockPcs

(* ism_engine_deliverMessage enters the message callback with the lock.    *)
LEMMA DeliverMessageStep ==
  ASSUME Inv, NEW t \in Threads, DeliverMessage(t)
  PROVE  Inv'
<1>1. /\ ThreadTypeOK /\ LocalsMeet(t) /\ StatusMeets(t) /\ CancelHasDisable(waiterStatus)
      /\ pc[t] \in LockPcs => Owner(t) /\ cb[t] = NoCb
      /\ Owner(t) => IsLocked(waiterStatus)
  BY ThreadFacts
<1>2. /\ pc[t] = "deliver" /\ pc[t] \in LockPcs /\ waiterStatus \in DeliverShape
      /\ loc[t].after \in {"check", "checkLock"} /\ UNCHANGED waiterStatus
  BY <1>1 DEF DeliverMessage, LockPcs, StatusMeets, LocalsMeet, queueVars
<1>3. QueueTypeOK' /\ ConsumerTypeOK' /\ SessionTypeOK'
  BY DEF Inv, TypeOK, QueueTypeOK, ConsumerTypeOK, SessionTypeOK, DeliverMessage, queueVars,
         consumerVars
<1>4. MsgTypeOK'
  BY DEF Inv, TypeOK, MsgTypeOK, DeliverMessage
<1>5. CASE Expired(loc[t].cur)
  <2>1. Goto(t, "reenable") /\ loc' = [loc EXCEPT ![t].cur = NoMsg] /\ UNCHANGED <<cb, stack>>
    BY <1>5 DEF DeliverMessage
  <2>2. /\ loc' \in [Threads -> Locals]
        /\ loc'[t].after = loc[t].after
        /\ \A u \in Threads : u # t => loc'[u] = loc[u]
    <3>1. loc \in [Threads -> Locals]
      BY <1>1 DEF ThreadTypeOK
    <3> QED
      BY <2>1, <3>1 DEF Locals
  <2>3. HoldMove(t, "reenable")
    BY <1>1, <1>2, <2>1, <2>2, GotoHold DEF LockPcs
  <2>4. LocalsMeet(t)' /\ StatusMeets(t)'
    BY <1>2, <2>2, <2>3 DEF HoldMove, LocalsMeet, StatusMeets
  <2> QED
    BY <1>1, <1>2, <1>3, <1>4, <2>3, <2>4, HoldInv DEF LockPcs
<1>6. CASE ~Expired(loc[t].cur)
  <2> DEFINE k == [stack |-> stack[t], con |-> loc[t].con, after |-> loc[t].after]
  <2>1. /\ pc' = [pc EXCEPT ![t] = "idle"] /\ cb' = [cb EXCEPT ![t] = k]
        /\ stack' = [stack EXCEPT ![t] = <<>>] /\ loc' = [loc EXCEPT ![t] = InitLoc]
    BY <1>6 DEF DeliverMessage, Goto
  <2>2. k \in Callback
    BY <1>1, <1>2 DEF ThreadTypeOK, Locals, Callback
  <2>3. InitLoc \in Locals
    BY DEF InitLoc, Locals, FreePcs, Status
  <2> HIDE DEF k
  <2>4. /\ ThreadTypeOK' /\ OthersStay(t)
        /\ pc'[t] = "idle" /\ cb'[t] = k /\ k # NoCb
    BY <1>1, <2>1, <2>2, <2>3, ConstantsAssumption DEF ThreadTypeOK, OthersStay, FreePcs
  <2>5. ThreadInv(t)' /\ Owner(t)'
    BY <1>2, <2>4 DEF ThreadInv, LocalsMeet, StatusMeets, Owner, LockPcs
  <2>6. LockInv'
    BY <1>1, <1>2, <2>4, <2>5, OwnerStep
  <2> QED
    BY <1>3, <1>4, <2>4, <2>6 DEF Inv, TypeOK
<1> QED
  BY <1>5, <1>6

(* The message callback returns, and its thread goes on with the lock.     *)
LEMMA LeaveCallbackStep ==
  ASSUME Inv, NEW t \in Threads, NEW l \in {"reenable", "pend"}, pc[t] = "idle", LeaveCallback(t, l)
  PROVE  Inv'
<1>1. /\ ThreadTypeOK /\ StatusMeets(t) /\ CancelHasDisable(waiterStatus)
      /\ Owner(t) => IsLocked(waiterStatus)
  BY ThreadFacts
<1>2. QueueTypeOK' /\ ConsumerTypeOK' /\ SessionTypeOK' /\ MsgTypeOK' /\ UNCHANGED waiterStatus
  BY DEF Inv, TypeOK, QueueTypeOK, ConsumerTypeOK, SessionTypeOK, MsgTypeOK, LeaveCallback,
         queueVars, consumerVars, msgVars
<1>3. /\ cb[t] # NoCb /\ cb[t] \in Callback /\ waiterStatus \in DeliverShape
      /\ Owner(t) /\ IsLocked(waiterStatus)
  BY <1>1 DEF LeaveCallback, ThreadTypeOK, StatusMeets, Owner
<1> DEFINE k == cb[t]
<1>4. /\ k.stack \in Seq(Frame) /\ k.con \in Consumers \cup {NoConsumer}
      /\ k.after \in {"check", "checkLock"}
  BY <1>3 DEF Callback
<1>5. /\ pc' = [pc EXCEPT ![t] = l] /\ cb' = [cb EXCEPT ![t] = NoCb]
      /\ stack' = [stack EXCEPT ![t] = k.stack]
      /\ loc' = [loc EXCEPT ![t].con = k.con, ![t].after = k.after]
  BY DEF LeaveCallback, Goto
<1> HIDE DEF k
<1>6. /\ loc' \in [Threads -> Locals]
      /\ loc'[t].after = k.after
      /\ \A u \in Threads : u # t => loc'[u] = loc[u]
  <2>1. loc \in [Threads -> Locals] /\ k.after \in LockPcs \cup FreePcs
    BY <1>1, <1>4 DEF ThreadTypeOK, FreePcs
  <2> DEFINE r == [loc[t] EXCEPT !.con = k.con, !.after = k.after]
  <2>2. r \in Locals
    BY <1>4, <2>1 DEF Locals
  <2>3. loc' = [loc EXCEPT ![t] = r]
    BY <1>5, <2>1
  <2>4. r.after = k.after
    BY <2>1 DEF Locals
  <2> HIDE DEF r
  <2> QED
    BY <2>1, <2>2, <2>3, <2>4, LocalsUpdate
<1>7. HoldMove(t, l)
  BY <1>1, <1>4, <1>5, <1>6 DEF HoldMove, OthersStay, ThreadTypeOK, LockPcs
<1>8. LocalsMeet(t)' /\ StatusMeets(t)'
  BY <1>2, <1>3, <1>4, <1>6, <1>7 DEF HoldMove, LocalsMeet, StatusMeets
<1> QED
  BY <1>1, <1>2, <1>3, <1>7, <1>8, HoldInv DEF LockPcs

(* The callback suspends delivery by a flag of its own.                    *)
LEMMA SuspendMessageDeliveryStep ==
  ASSUME Inv, NEW t \in Threads, SuspendMessageDelivery(t)
  PROVE  Inv'
<1>1. ThreadTypeOK /\ StatusMeets(t) /\ waiterStatus \in Status
  BY ThreadFacts
<1>2. ConsumerTypeOK' /\ SessionTypeOK' /\ MsgTypeOK'
  BY DEF Inv, TypeOK, ConsumerTypeOK, SessionTypeOK, MsgTypeOK, SuspendMessageDelivery,
         consumerVars, msgVars
<1>3. QueueTypeOK'
  BY StatusFacts DEF Inv, TypeOK, QueueTypeOK, SuspendMessageDelivery
<1>4. /\ cb[t] # NoCb /\ waiterStatus \in DeliverShape
      /\ waiterStatus' = AddPendFlag(waiterStatus, DISABLE_PEND)
  BY <1>1 DEF SuspendMessageDelivery, StatusMeets
<1>5. waiterStatus' \in DisableShape
  BY <1>4, AddDisable
<1>6. waiterStatus' \in DeliverShape /\ IsLocked(waiterStatus') /\ CancelHasDisable(waiterStatus')
  BY <1>5, ShapesAreLocked DEF DeliverShape, DisableShape, CancelHasDisable
<1>7. pc' = [pc EXCEPT ![t] = "suspended"] /\ UNCHANGED <<cb, loc, stack>>
  BY DEF SuspendMessageDelivery, Goto
<1>8. ThreadTypeOK' /\ OthersStay(t) /\ pc'[t] = "suspended" /\ cb'[t] # NoCb
  BY <1>1, <1>4, <1>7 DEF ThreadTypeOK, OthersStay, FreePcs
<1>9. ThreadInv(t)' /\ Owner(t)'
  BY <1>5, <1>6, <1>8 DEF ThreadInv, LocalsMeet, StatusMeets, Owner, LockPcs
<1>10. LockInv'
  BY <1>4, <1>6, <1>8, <1>9, OwnerStep DEF Owner
<1> QED
  BY <1>2, <1>3, <1>8, <1>10 DEF Inv, TypeOK

(* The callback that has suspended delivery returns.                       *)
LEMMA SuspendedCallbackReturnsStep ==
  ASSUME Inv, NEW t \in Threads, SuspendedCallbackReturns(t)
  PROVE  Inv'
<1>1. /\ ThreadTypeOK /\ StatusMeets(t) /\ CancelHasDisable(waiterStatus)
      /\ pc[t] = "suspended" => cb[t] # NoCb
  BY ThreadFacts
<1>2. QueueTypeOK' /\ ConsumerTypeOK' /\ SessionTypeOK' /\ MsgTypeOK' /\ UNCHANGED waiterStatus
  BY DEF Inv, TypeOK, QueueTypeOK, ConsumerTypeOK, SessionTypeOK, MsgTypeOK,
         SuspendedCallbackReturns, queueVars, consumerVars, msgVars
<1>3. cb[t] # NoCb /\ cb[t] \in Callback /\ waiterStatus \in DisableShape
  BY <1>1 DEF SuspendedCallbackReturns, StatusMeets, ThreadTypeOK
<1> DEFINE k  == cb[t]
           fs == <<[pc |-> k.after, con |-> k.con, cur |-> NoMsg]>> \o k.stack
<1>4. k.stack \in Seq(Frame) /\ k.con \in Consumers \cup {NoConsumer} /\ k.after \in ReturnPcs
  BY <1>3 DEF Callback, ReturnPcs
<1>5. /\ cb' = [cb EXCEPT ![t] = NoCb]
      /\ CallComplete(t, fs, k.con, TRUE, FALSE)
  BY DEF SuspendedCallbackReturns
<1> HIDE DEF k
<1>6. fs \in Seq(Frame)
  <2>1. [pc |-> k.after, con |-> k.con, cur |-> NoMsg] \in Frame
    BY <1>4 DEF Frame
  <2> QED
    BY <1>4, <2>1, PushType
<1> HIDE DEF fs
<1>7. /\ pc' \in [Threads -> LockPcs \cup FreePcs]
      /\ pc' = [pc EXCEPT ![t] = "complete"]
      /\ stack' \in [Threads -> Seq(Frame)]
      /\ loc' \in [Threads -> Locals]
  BY <1>1, <1>4, <1>5, <1>6, CallCompleteType
<1>8. \A u \in Threads : u # t => loc'[u] = loc[u]
  BY <1>1, <1>5 DEF CallComplete, ThreadTypeOK
<1>9. HoldMove(t, "complete")
  BY <1>1, <1>5, <1>7, <1>8 DEF HoldMove, OthersStay, ThreadTypeOK
<1>10. waiterStatus' \in PendingStatus /\ CancelHasDisable(waiterStatus') /\ Owner(t)
  BY <1>1, <1>2, <1>3, ShapesAreLocked DEF Owner
<1> QED
  BY <1>2, <1>9, <1>10, CompleteInv

(* After the callback the waiter is enabled again, or the flags served.    *)
LEMMA ReenableWaiterStep ==
  ASSUME Inv, NEW t \in Threads, ReenableWaiter(t)
  PROVE  Inv'
<1>1. /\ ThreadTypeOK /\ LocalsMeet(t) /\ StatusMeets(t) /\ CancelHasDisable(waiterStatus)
      /\ pc[t] \in LockPcs => Owner(t) /\ cb[t] = NoCb
  BY ThreadFacts
<1>2. /\ pc[t] = "reenable" /\ pc[t] \in LockPcs /\ waiterStatus \in DeliverShape
      /\ loc[t].after \in {"check", "checkLock"} /\ UNCHANGED cb
  BY <1>1 DEF ReenableWaiter, LockPcs, StatusMeets, LocalsMeet
<1>3. ConsumerTypeOK' /\ SessionTypeOK' /\ MsgTypeOK'
  BY DEF Inv, TypeOK, ConsumerTypeOK, SessionTypeOK, MsgTypeOK, ReenableWaiter, consumerVars,
         msgVars
<1>4. QueueTypeOK'
  BY StatusFacts DEF Inv, TypeOK, QueueTypeOK, ReenableWaiter
<1>5. CASE waiterStatus = WS_DELIVERING
  <2>1. waiterStatus' = WS_ENABLED /\ Goto(t, loc[t].after) /\ UNCHANGED <<stack, loc>>
    BY <1>5 DEF ReenableWaiter
  <2>2. FreeMove(t)
    BY <1>1, <1>2, <2>1, GotoMove DEF PlainPcs, FreePcs
  <2> QED
    BY <1>2, <1>3, <1>4, <2>1, <2>2, UnlockInv
<1>6. CASE waiterStatus # WS_DELIVERING
  <2> DEFINE fs == <<FrameAt(t, loc[t].after)>> \o stack[t]
  <2>1. CallComplete(t, fs, loc[t].con, TRUE, FALSE) /\ UNCHANGED waiterStatus
    BY <1>6 DEF ReenableWaiter
  <2>2. fs \in Seq(Frame) /\ loc[t].con \in Consumers \cup {NoConsumer}
    BY <1>1, <1>2, FrameStack DEF ReturnPcs, ThreadTypeOK, Locals
  <2> HIDE DEF fs
  <2>3. HoldMove(t, "complete")
    BY <1>1, <1>2, <2>1, <2>2, CompleteMove
  <2>4. waiterStatus' \in PendingStatus
    BY <1>2, <1>6, <2>1 DEF DeliverShape
  <2> QED
    BY <1>1, <1>2, <1>3, <1>4, <2>1, <2>3, <2>4, CompleteInv
<1> QED
  BY <1>5, <1>6

(* A callback that returned false leaves a request to disable.             *)
LEMMA PendDisableStep ==
  ASSUME Inv, NEW t \in Threads, PendDisable(t)
  PROVE  Inv'
<1>1. /\ ThreadTypeOK /\ LocalsMeet(t) /\ StatusMeets(t)
      /\ pc[t] \in LockPcs => Owner(t) /\ cb[t] = NoCb
  BY ThreadFacts
<1>2. /\ pc[t] = "pend" /\ pc[t] \in LockPcs /\ waiterStatus \in DeliverShape
      /\ loc[t].after \in {"check", "checkLock"} /\ UNCHANGED cb
  BY <1>1 DEF PendDisable, LockPcs, StatusMeets, LocalsMeet
<1>3. ConsumerTypeOK' /\ SessionTypeOK' /\ MsgTypeOK'
  BY DEF Inv, TypeOK, ConsumerTypeOK, SessionTypeOK, MsgTypeOK, PendDisable, consumerVars, msgVars
<1>4. QueueTypeOK'
  BY StatusFacts DEF Inv, TypeOK, QueueTypeOK, PendDisable
<1> DEFINE fs == <<FrameAt(t, loc[t].after)>> \o stack[t]
<1>5. /\ CallComplete(t, fs, loc[t].con, TRUE, FALSE)
      /\ waiterStatus' = AddPendFlag(waiterStatus, DISABLE_PEND)
  BY DEF PendDisable
<1>6. fs \in Seq(Frame) /\ loc[t].con \in Consumers \cup {NoConsumer}
  BY <1>1, <1>2, FrameStack DEF ReturnPcs, ThreadTypeOK, Locals
<1> HIDE DEF fs
<1>7. HoldMove(t, "complete")
  BY <1>1, <1>2, <1>5, <1>6, CompleteMove
<1>8. waiterStatus' \in DisableShape
  BY <1>2, <1>5, AddDisable
<1>9. waiterStatus' \in PendingStatus /\ CancelHasDisable(waiterStatus')
  BY <1>8 DEF DisableShape, CancelHasDisable
<1> QED
  BY <1>1, <1>2, <1>3, <1>4, <1>7, <1>9, CompleteInv

(* The getter found nothing: unlock, or serve the flags.                   *)
LEMMA QueueEmptyStep ==
  ASSUME Inv, NEW t \in Threads, QueueEmpty(t)
  PROVE  Inv'
<1>1. /\ ThreadTypeOK /\ StatusMeets(t) /\ CancelHasDisable(waiterStatus)
      /\ pc[t] \in LockPcs => Owner(t) /\ cb[t] = NoCb
  BY ThreadFacts
<1>2. pc[t] = "empty" /\ pc[t] \in LockPcs /\ waiterStatus \in GetShape /\ UNCHANGED cb
  BY <1>1 DEF QueueEmpty, LockPcs, StatusMeets
<1>3. ConsumerTypeOK' /\ SessionTypeOK' /\ MsgTypeOK'
  BY DEF Inv, TypeOK, ConsumerTypeOK, SessionTypeOK, MsgTypeOK, QueueEmpty, consumerVars, msgVars
<1>4. QueueTypeOK'
  BY StatusFacts DEF Inv, TypeOK, QueueTypeOK, QueueEmpty
<1>5. CASE waiterStatus = WS_GETTING
  <2>1. waiterStatus' = WS_ENABLED /\ Return(t)
    BY <1>5 DEF QueueEmpty
  <2>2. FreeMove(t)
    BY <1>1, <1>2, <2>1, ReturnMove
  <2> QED
    BY <1>2, <1>3, <1>4, <2>1, <2>2, UnlockInv
<1>6. CASE waiterStatus # WS_GETTING
  <2> DEFINE fs == <<FrameAt(t, "checkLock")>> \o stack[t]
  <2>1. CallComplete(t, fs, loc[t].con, TRUE, FALSE) /\ UNCHANGED waiterStatus
    BY <1>6 DEF QueueEmpty
  <2>2. fs \in Seq(Frame) /\ loc[t].con \in Consumers \cup {NoConsumer}
    BY <1>1, FrameStack DEF ReturnPcs, ThreadTypeOK, Locals
  <2> HIDE DEF fs
  <2>3. HoldMove(t, "complete")
    BY <1>1, <1>2, <2>1, <2>2, CompleteMove
  <2>4. waiterStatus' \in PendingStatus
    BY <1>2, <1>6, <2>1 DEF GetShape
  <2> QED
    BY <1>1, <1>2, <1>3, <1>4, <2>1, <2>3, <2>4, CompleteInv
<1> QED
  BY <1>5, <1>6

----------------------------------------------------------------------------
(* ieq_completeWaiterActions *)

(* completeWaiterActions chooses what to serve.                            *)
LEMMA CompleteWaiterActionsStep ==
  ASSUME Inv, NEW t \in Threads, CompleteWaiterActions(t)
  PROVE  Inv'
<1>1. /\ ThreadTypeOK /\ StatusMeets(t) /\ CancelHasDisable(waiterStatus)
      /\ pc[t] \in LockPcs => Owner(t) /\ cb[t] = NoCb
      /\ Owner(t) => IsLocked(waiterStatus)
  BY ThreadFacts
<1>2. /\ pc[t] = "complete" /\ pc[t] \in LockPcs /\ waiterStatus \in PendingStatus
      /\ UNCHANGED <<stack, cb>>
  BY <1>1 DEF CompleteWaiterActions, LockPcs, StatusMeets
<1>3. ConsumerTypeOK' /\ SessionTypeOK' /\ MsgTypeOK'
  BY DEF Inv, TypeOK, ConsumerTypeOK, SessionTypeOK, MsgTypeOK, CompleteWaiterActions,
         consumerVars, msgVars
<1>4. QueueTypeOK'
  BY StatusFacts DEF Inv, TypeOK, QueueTypeOK, CompleteWaiterActions
<1>5. ASSUME NEW a \in LockPcs, loc' = [loc EXCEPT ![t].after = a]
      PROVE  /\ loc' \in [Threads -> Locals]
             /\ loc'[t].after = a
             /\ \A u \in Threads : u # t => loc'[u] = loc[u]
  <2>1. loc \in [Threads -> Locals]
    BY <1>1 DEF ThreadTypeOK
  <2> QED
    BY <1>5, <2>1 DEF Locals
<1>6. CASE waiterStatus = {RECLAIMSPACE_PEND}
  <2>1. /\ waiterStatus' = WS_DELIVERING /\ Goto(t, "reclaim")
        /\ loc' = [loc EXCEPT ![t].after = "completeUnlock"]
    BY <1>6 DEF CompleteWaiterActions
  <2>2. /\ loc' \in [Threads -> Locals]
        /\ loc'[t].after = "completeUnlock"
        /\ \A u \in Threads : u # t => loc'[u] = loc[u]
    BY <1>5, <2>1 DEF LockPcs
  <2>3. HoldMove(t, "reclaim")
    BY <1>1, <1>2, <2>1, <2>2, GotoHold DEF LockPcs
  <2>4. LocalsMeet(t)' /\ StatusMeets(t)'
    BY <2>1, <2>2, <2>3 DEF HoldMove, LocalsMeet, StatusMeets, DeliverShape
  <2>5. IsLocked(waiterStatus') /\ CancelHasDisable(waiterStatus')
    BY <2>1, StatusBits DEF CancelHasDisable, WS_DELIVERING, CANCEL_DISABLE_PEND
  <2> QED
    BY <1>1, <1>2, <1>3, <1>4, <2>3, <2>4, <2>5, HoldInv DEF LockPcs
<1>7. CASE waiterStatus # {RECLAIMSPACE_PEND}
  <2> DEFINE next == IF DISABLE_PEND \in waiterStatus THEN "disabling" ELSE "disconnect"
             l    == IF loc[t].wasEnabled THEN "waiterDisabledCB" ELSE next
  <2>1. /\ loc' = [loc EXCEPT ![t].after = next] /\ Goto(t, l) /\ UNCHANGED waiterStatus
    BY <1>7 DEF CompleteWaiterActions
  <2>2. /\ next \in {"disabling", "disconnect"}
        /\ waiterStatus \in IF next = "disabling" THEN DisableShape ELSE DisconnectShape
    BY <1>1, <1>2, <1>7, DisconnectIsLeft DEF DisableShape
  <2>3. l \in {"waiterDisabledCB", next}
    OBVIOUS
  <2> HIDE DEF next, l
  <2>4. /\ loc' \in [Threads -> Locals]
        /\ loc'[t].after = next
        /\ \A u \in Threads : u # t => loc'[u] = loc[u]
    BY <1>5, <2>1, <2>2 DEF LockPcs
  <2>5. HoldMove(t, l)
    BY <1>1, <1>2, <2>1, <2>2, <2>3, <2>4, GotoHold DEF LockPcs
  <2>6. LocalsMeet(t)' /\ StatusMeets(t)'
    BY <2>1, <2>2, <2>3, <2>4, <2>5 DEF HoldMove, LocalsMeet, StatusMeets
  <2> QED
    BY <1>1, <1>2, <1>3, <1>4, <2>1, <2>2, <2>3, <2>5, <2>6, HoldInv DEF LockPcs
<1> QED
  BY <1>6, <1>7

(* After serving a discard: unlock, or serve what has come in meanwhile.   *)
LEMMA CompleteUnlockStep ==
  ASSUME Inv, NEW t \in Threads, CompleteUnlock(t)
  PROVE  Inv'
<1>1. /\ ThreadTypeOK /\ StatusMeets(t) /\ CancelHasDisable(waiterStatus)
      /\ pc[t] \in LockPcs => Owner(t) /\ cb[t] = NoCb
  BY ThreadFacts
<1>2. /\ pc[t] = "completeUnlock" /\ pc[t] \in LockPcs /\ waiterStatus \in DeliverShape
      /\ UNCHANGED cb
  BY <1>1 DEF CompleteUnlock, LockPcs, StatusMeets
<1>3. ConsumerTypeOK' /\ SessionTypeOK' /\ MsgTypeOK'
  BY DEF Inv, TypeOK, ConsumerTypeOK, SessionTypeOK, MsgTypeOK, CompleteUnlock, consumerVars,
         msgVars
<1>4. QueueTypeOK'
  BY StatusFacts DEF Inv, TypeOK, QueueTypeOK, CompleteUnlock
<1>5. CASE waiterStatus = WS_DELIVERING
  <2>1. /\ waiterStatus' = WS_ENABLED
        /\ Return(t) \/ (Goto(t, "check") /\ UNCHANGED <<stack, loc>>)
    BY <1>5 DEF CompleteUnlock
  <2>2. FreeMove(t)
    BY <1>1, <1>2, <2>1, ReturnMove, GotoMove DEF PlainPcs, FreePcs
  <2> QED
    BY <1>2, <1>3, <1>4, <2>1, <2>2, UnlockInv
<1>6. CASE waiterStatus # WS_DELIVERING
  <2>1. Goto(t, "complete") /\ UNCHANGED <<waiterStatus, stack, loc>>
    BY <1>6 DEF CompleteUnlock
  <2>2. HoldMove(t, "complete")
    BY <1>1, <1>2, <2>1, GotoHold DEF LockPcs, ThreadTypeOK
  <2>3. waiterStatus' \in PendingStatus
    BY <1>2, <1>6, <2>1 DEF DeliverShape
  <2> QED
    BY <1>1, <1>2, <1>3, <1>4, <2>1, <2>2, <2>3, CompleteInv
<1> QED
  BY <1>5, <1>6

(* The WaiterDisabled status callback is counted.                          *)
LEMMA WaiterDisabledCallbackStep ==
  ASSUME Inv, NEW t \in Threads, WaiterDisabledCallback(t)
  PROVE  Inv'
<1>1. /\ ThreadTypeOK /\ LocalsMeet(t) /\ StatusMeets(t) /\ CancelHasDisable(waiterStatus)
      /\ pc[t] \in LockPcs => Owner(t) /\ cb[t] = NoCb
      /\ Owner(t) => IsLocked(waiterStatus)
  BY ThreadFacts
<1>2. /\ pc[t] = "waiterDisabledCB" /\ pc[t] \in LockPcs
      /\ UNCHANGED <<waiterStatus, stack, cb, loc>>
  BY DEF WaiterDisabledCallback, LockPcs, queueVars
<1>3. QueueTypeOK' /\ ConsumerTypeOK' /\ MsgTypeOK'
  BY DEF Inv, TypeOK, QueueTypeOK, ConsumerTypeOK, MsgTypeOK, WaiterDisabledCallback, queueVars,
         consumerVars, msgVars
<1>4. SessionTypeOK'
  BY DEF Inv, TypeOK, SessionTypeOK, WaiterDisabledCallback, WaiterDisabledStatus, SessionRecord
<1> DEFINE l == IF LastCallback THEN "endStop" ELSE loc[t].after
<1>5. /\ loc[t].after \in {"disabling", "disconnect"} /\ l \in {"endStop", loc[t].after}
      /\ waiterStatus \in IF loc[t].after = "disabling" THEN DisableShape ELSE DisconnectShape
  BY <1>1, <1>2 DEF LocalsMeet, StatusMeets
<1>6. Goto(t, l)
  BY DEF WaiterDisabledCallback
<1> HIDE DEF l
<1>7. HoldMove(t, l)
  BY <1>1, <1>2, <1>5, <1>6, GotoHold DEF LockPcs, ThreadTypeOK
<1>8. LocalsMeet(t)' /\ StatusMeets(t)'
  BY <1>2, <1>5, <1>7 DEF HoldMove, LocalsMeet, StatusMeets
<1> QED
  BY <1>1, <1>2, <1>3, <1>4, <1>5, <1>7, <1>8, HoldInv DEF LockPcs

(* The last callback ends the stop.                                        *)
LEMMA WaiterDisabledEndStopStep ==
  ASSUME Inv, NEW t \in Threads, WaiterDisabledEndStop(t)
  PROVE  Inv'
<1>1. /\ ThreadTypeOK /\ LocalsMeet(t) /\ StatusMeets(t) /\ CancelHasDisable(waiterStatus)
      /\ pc[t] \in LockPcs => Owner(t) /\ cb[t] = NoCb
      /\ Owner(t) => IsLocked(waiterStatus)
  BY ThreadFacts
<1>2. /\ pc[t] = "endStop" /\ pc[t] \in LockPcs
      /\ UNCHANGED <<waiterStatus, stack, cb, loc>>
  BY DEF WaiterDisabledEndStop, LockPcs, queueVars
<1>3. QueueTypeOK' /\ ConsumerTypeOK' /\ MsgTypeOK'
  BY DEF Inv, TypeOK, QueueTypeOK, ConsumerTypeOK, MsgTypeOK, WaiterDisabledEndStop, queueVars,
         consumerVars, msgVars
<1>4. SessionTypeOK'
  BY SessionUpdates DEF Inv, TypeOK, SessionTypeOK, WaiterDisabledEndStop, EndStop
<1>5. /\ loc[t].after \in {"disabling", "disconnect"}
      /\ waiterStatus \in IF loc[t].after = "disabling" THEN DisableShape ELSE DisconnectShape
  BY <1>1, <1>2 DEF LocalsMeet, StatusMeets
<1>6. HoldMove(t, loc[t].after)
  BY <1>1, <1>2, <1>5, GotoHold DEF WaiterDisabledEndStop, LockPcs, ThreadTypeOK
<1>7. LocalsMeet(t)' /\ StatusMeets(t)'
  BY <1>2, <1>5, <1>6 DEF HoldMove, LocalsMeet, StatusMeets
<1> QED
  BY <1>1, <1>2, <1>3, <1>4, <1>5, <1>6, <1>7, HoldInv DEF LockPcs

(* A request to discard is taken out of the flags and served.              *)
LEMMA ClearReclaimStep ==
  ASSUME Inv, NEW t \in Threads, ClearReclaim(t)
  PROVE  Inv'
<1>1. /\ ThreadTypeOK /\ StatusMeets(t) /\ CancelHasDisable(waiterStatus)
      /\ pc[t] \in LockPcs => Owner(t) /\ cb[t] = NoCb
  BY ThreadFacts
<1>2. /\ pc[t] \in {"disabling", "disconnecting"} /\ pc[t] \in LockPcs
      /\ waiterStatus' = waiterStatus \ {RECLAIMSPACE_PEND}
      /\ loc' = [loc EXCEPT ![t].after = pc[t]]
      /\ Goto(t, "reclaim") /\ UNCHANGED <<stack, cb>>
  BY DEF ClearReclaim, LockPcs
<1>3. ConsumerTypeOK' /\ SessionTypeOK' /\ MsgTypeOK'
  BY DEF Inv, TypeOK, ConsumerTypeOK, SessionTypeOK, MsgTypeOK, ClearReclaim, consumerVars, msgVars
<1>4. QueueTypeOK'
  BY StatusFacts DEF Inv, TypeOK, QueueTypeOK, ClearReclaim
<1>5. /\ loc' \in [Threads -> Locals]
      /\ loc'[t].after = pc[t]
      /\ \A u \in Threads : u # t => loc'[u] = loc[u]
  <2>1. loc \in [Threads -> Locals]
    BY <1>1 DEF ThreadTypeOK
  <2> QED
    BY <1>2, <2>1 DEF Locals
<1>6. HoldMove(t, "reclaim")
  BY <1>1, <1>2, <1>5, GotoHold DEF LockPcs
<1>7. /\ pc[t] = "disabling" => waiterStatus' \in DisableShape
      /\ pc[t] = "disconnecting" => waiterStatus' \in DisconnectShape
      /\ CancelHasDisable(waiterStatus')
  BY <1>1, <1>2, ClearReclaimKeeps DEF StatusMeets
<1>8. LocalsMeet(t)' /\ StatusMeets(t)' /\ IsLocked(waiterStatus')
  BY <1>2, <1>5, <1>6, <1>7, ShapesAreLocked DEF HoldMove, LocalsMeet, StatusMeets
<1> QED
  BY <1>1, <1>2, <1>3, <1>4, <1>6, <1>7, <1>8, HoldInv DEF LockPcs

(* A request to disable ends disabled, enabled again or disconnecting.     *)
LEMMA DisablingStep ==
  ASSUME Inv, NEW t \in Threads, Disabling(t)
  PROVE  Inv'
<1>1. /\ ThreadTypeOK
      /\ pc[t] \in LockPcs => Owner(t) /\ cb[t] = NoCb
  BY ThreadFacts
<1>2. pc[t] = "disabling" /\ pc[t] \in LockPcs /\ UNCHANGED cb
  BY DEF Disabling, LockPcs
<1>3. ConsumerTypeOK' /\ SessionTypeOK' /\ MsgTypeOK'
  BY DEF Inv, TypeOK, ConsumerTypeOK, SessionTypeOK, MsgTypeOK, Disabling, consumerVars, msgVars
<1>4. QueueTypeOK'
  BY StatusFacts DEF Inv, TypeOK, QueueTypeOK, Disabling
<1>5. CASE DISCONNECT_PEND \in waiterStatus
  <2>1. waiterStatus' = {DISCONNECT_PEND} /\ Goto(t, "disconnect") /\ UNCHANGED <<stack, loc>>
    BY <1>5 DEF Disabling
  <2>2. HoldMove(t, "disconnect")
    BY <1>1, <1>2, <2>1, GotoHold DEF LockPcs, ThreadTypeOK
  <2>3. waiterStatus' \in DisconnectShape
    BY <2>1 DEF DisconnectShape
  <2>4. CancelHasDisable(waiterStatus')
    BY <2>1 DEF CancelHasDisable, CANCEL_DISABLE_PEND, DISCONNECT_PEND
  <2>5. LocalsMeet(t)' /\ StatusMeets(t)' /\ IsLocked(waiterStatus')
    BY <2>2, <2>3, ShapesAreLocked DEF HoldMove, LocalsMeet, StatusMeets
  <2> QED
    BY <1>1, <1>2, <1>3, <1>4, <2>2, <2>4, <2>5, HoldInv DEF LockPcs
<1>6. CASE DISCONNECT_PEND \notin waiterStatus
  <2>1. /\ waiterStatus' \in {WS_ENABLED, WS_DISABLED}
        /\ \/ Return(t)
           \/ Goto(t, "release") /\ UNCHANGED <<stack, loc>>
           \/ Goto(t, "check") /\ UNCHANGED <<stack, loc>>
           \/ Goto(t, "check") /\ Push(t, "release") /\ UNCHANGED loc
    BY <1>6 DEF Disabling, FinishComplete
  <2>2. CASE Return(t)
    BY <1>1, <1>2, <1>3, <1>4, <2>1, <2>2, ReturnMove, UnlockInv
  <2>3. CASE Goto(t, "release") /\ UNCHANGED <<stack, loc>>
    <3>1. FreeMove(t)
      BY <1>1, <1>2, <2>3, GotoMove DEF PlainPcs, FreePcs
    <3> QED
      BY <1>2, <1>3, <1>4, <2>1, <3>1, UnlockInv
  <2>4. CASE Goto(t, "check") /\ UNCHANGED <<stack, loc>>
    <3>1. FreeMove(t)
      BY <1>1, <1>2, <2>4, GotoMove DEF PlainPcs, FreePcs
    <3> QED
      BY <1>2, <1>3, <1>4, <2>1, <3>1, UnlockInv
  <2>5. CASE Goto(t, "check") /\ Push(t, "release") /\ UNCHANGED loc
    <3>1. Call(t, "check", "release")
      BY <2>5 DEF Call
    <3>2. FreeMove(t)
      BY <1>1, <1>2, <2>5, <3>1, CallMove DEF PlainPcs, FreePcs, ReturnPcs
    <3> QED
      BY <1>2, <1>3, <1>4, <2>1, <3>2, UnlockInv
  <2> QED
    BY <2>1, <2>2, <2>3, <2>4, <2>5
<1> QED
  BY <1>5, <1>6

(* The queue forgets its consumer.                                         *)
LEMMA DisconnectConsumerStep ==
  ASSUME Inv, NEW t \in Threads, DisconnectConsumer(t)
  PROVE  Inv'
<1>1. /\ ThreadTypeOK /\ StatusMeets(t) /\ CancelHasDisable(waiterStatus)
      /\ pc[t] \in LockPcs => Owner(t) /\ cb[t] = NoCb
      /\ Owner(t) => IsLocked(waiterStatus)
  BY ThreadFacts
<1>2. /\ pc[t] = "disconnect" /\ pc[t] \in LockPcs
      /\ UNCHANGED <<waiterStatus, stack, cb, loc>>
  BY DEF DisconnectConsumer, LockPcs
<1>3. QueueTypeOK' /\ ConsumerTypeOK' /\ SessionTypeOK' /\ MsgTypeOK'
  BY DEF Inv, TypeOK, QueueTypeOK, ConsumerTypeOK, SessionTypeOK, MsgTypeOK, DisconnectConsumer,
         consumerVars, msgVars
<1>4. HoldMove(t, "disconnecting")
  BY <1>1, <1>2, GotoHold DEF DisconnectConsumer, LockPcs, ThreadTypeOK
<1>5. LocalsMeet(t)' /\ StatusMeets(t)'
  BY <1>1, <1>2, <1>4 DEF HoldMove, LocalsMeet, StatusMeets
<1> QED
  BY <1>1, <1>2, <1>3, <1>4, <1>5, HoldInv DEF LockPcs

(* The waiter is disconnected, which unlocks it.                           *)
LEMMA DisconnectingStep ==
  ASSUME Inv, NEW t \in Threads, Disconnecting(t)
  PROVE  Inv'
<1>1. ThreadTypeOK
  BY ThreadFacts
<1>2. /\ pc[t] = "disconnecting" /\ pc[t] \in LockPcs /\ waiterStatus' = WS_DISCONNECTED
      /\ Goto(t, "removed") /\ UNCHANGED <<stack, cb, loc>>
  BY DEF Disconnecting, LockPcs
<1>3. ConsumerTypeOK' /\ SessionTypeOK' /\ MsgTypeOK'
  BY DEF Inv, TypeOK, ConsumerTypeOK, SessionTypeOK, MsgTypeOK, Disconnecting, consumerVars,
         msgVars
<1>4. QueueTypeOK'
  BY StatusFacts DEF Inv, TypeOK, QueueTypeOK, Disconnecting
<1>5. FreeMove(t)
  BY <1>1, <1>2, GotoMove DEF PlainPcs, FreePcs
<1> QED
  BY <1>2, <1>3, <1>4, <1>5, UnlockInv

(* The WaiterRemoved status frees the consumer.                            *)
LEMMA WaiterRemovedCallbackStep ==
  ASSUME Inv, NEW t \in Threads, WaiterRemovedCallback(t)
  PROVE  Inv'
<1>1. ThreadTypeOK /\ LocalsMeet(t) /\ pc[t] \in FreePcs \ {"suspended"}
  BY ThreadFacts DEF WaiterRemovedCallback, FreePcs
<1>2. FreeMove(t)
  BY <1>1, GotoMove DEF WaiterRemovedCallback, FreePcs, PlainPcs
<1>3. Keeps(waiterStatus, waiterStatus') /\ QueueTypeOK' /\ MsgTypeOK'
  BY KeepsReflexive DEF Inv, TypeOK, QueueTypeOK, MsgTypeOK, WaiterRemovedCallback, queueVars,
     msgVars
<1>4. ConsumerTypeOK'
  BY DEF Inv, TypeOK, ConsumerTypeOK, WaiterRemovedCallback
<1>5. SessionTypeOK'
  BY DEF Inv, TypeOK, SessionTypeOK, WaiterRemovedCallback, SessionRecord
<1> QED
  BY <1>1, <1>2, <1>3, <1>4, <1>5, FreeInv

(* The disconnected consumer lets go of the queue.                         *)
LEMMA ReducePreDeleteCountStep ==
  ASSUME Inv, NEW t \in Threads, ReducePreDeleteCount(t)
  PROVE  Inv'
<1>1. ThreadTypeOK /\ LocalsMeet(t) /\ pc[t] \in FreePcs \ {"suspended"}
  BY ThreadFacts DEF ReducePreDeleteCount, FreePcs
<1>2. FreeMove(t)
  BY <1>1, GotoMove, ReturnMove DEF ReducePreDeleteCount, FinishComplete, FreePcs, PlainPcs
<1>3. Keeps(waiterStatus, waiterStatus') /\ ConsumerTypeOK' /\ SessionTypeOK' /\ MsgTypeOK'
  BY KeepsReflexive DEF Inv, TypeOK, ConsumerTypeOK, SessionTypeOK, MsgTypeOK, ReducePreDeleteCount,
     consumerVars, msgVars
<1>4. QueueTypeOK'
  BY DEF Inv, TypeOK, QueueTypeOK, ReducePreDeleteCount
<1> QED
  BY <1>1, <1>2, <1>3, <1>4, FreeInv

----------------------------------------------------------------------------
(* Discarding and expiring *)

(* iews_tryLockForReclaimSpace takes the lock or leaves the flag.          *)
LEMMA LockForReclaimStep ==
  ASSUME Inv, NEW t \in Threads, LockForReclaim(t)
  PROVE  Inv'
<1>1. /\ ThreadTypeOK /\ waiterStatus \in Status /\ CancelHasDisable(waiterStatus)
      /\ ~IsLocked(waiterStatus) => cb[t] = NoCb
  BY ThreadFacts
<1>2. ConsumerTypeOK' /\ SessionTypeOK' /\ MsgTypeOK'
  BY DEF Inv, TypeOK, ConsumerTypeOK, SessionTypeOK, MsgTypeOK, LockForReclaim, consumerVars,
         msgVars
<1>3. QueueTypeOK'
  BY <1>1, ReclaimKeeps DEF Inv, TypeOK, QueueTypeOK, LockForReclaim
<1>4. CASE ~IsLocked(waiterStatus)
  <2>1. waiterStatus' = IF waiterStatus = WS_ENABLED THEN WS_DELIVERING ELSE WS_DISABLED_LOCKEDWAIT
    BY <1>1, <1>4, ReclaimKeeps DEF LockForReclaim
  <2>2. /\ loc' = [loc EXCEPT ![t].old = waiterStatus, ![t].after = "unlock", ![t].con = pConsumer]
        /\ Goto(t, "reclaim") /\ UNCHANGED <<stack, cb>>
    BY <1>4 DEF LockForReclaim
  <2>3. /\ loc' \in [Threads -> Locals]
        /\ loc'[t].after = "unlock" /\ loc'[t].old = waiterStatus
        /\ \A u \in Threads : u # t => loc'[u] = loc[u]
    <3>1. loc \in [Threads -> Locals] /\ pConsumer \in Consumers \cup {NoConsumer}
      BY DEF Inv, TypeOK, ThreadTypeOK, QueueTypeOK
    <3>2. "unlock" \in LockPcs \cup FreePcs
      BY DEF LockPcs
    <3> DEFINE r == [loc[t] EXCEPT !.old = waiterStatus, !.after = "unlock", !.con = pConsumer]
    <3>3. r \in Locals
      BY <1>1, <3>1, <3>2 DEF Locals
    <3>4. loc' = [loc EXCEPT ![t] = r]
      BY <2>2, <3>1
    <3>5. r.after = "unlock" /\ r.old = waiterStatus
      BY <3>1 DEF Locals
    <3> HIDE DEF r
    <3> QED
      BY <3>1, <3>3, <3>4, <3>5, LocalsUpdate
  <2>4. HoldMove(t, "reclaim")
    BY <1>1, <1>4, <2>2, <2>3, GotoHold DEF LockPcs
  <2>5. waiterStatus \in {WS_DISCONNECTED, WS_DISABLED, WS_ENABLED}
    BY <1>1, <1>4, LockedCases
  <2>6. LocalsMeet(t)' /\ StatusMeets(t)'
    BY <2>1, <2>3, <2>4, <2>5 DEF HoldMove, LocalsMeet, StatusMeets, QOpShape, DeliverShape
  <2>7. IsLocked(waiterStatus') /\ CancelHasDisable(waiterStatus')
    BY <2>1, StatusBits DEF CancelHasDisable, WS_DELIVERING, WS_DISABLED_LOCKEDWAIT,
       CANCEL_DISABLE_PEND
  <2> QED
    BY <1>2, <1>3, <1>4, <2>4, <2>6, <2>7, HoldInv DEF LockPcs
<1>5. CASE IsLocked(waiterStatus)
  <2>1. Return(t) /\ UNCHANGED cb /\ pc[t] \in FreePcs \ {"suspended"}
    BY <1>5 DEF LockForReclaim, FreePcs
  <2>2. FreeMove(t)
    BY <1>1, <2>1, ReturnMove
  <2>3. Keeps(waiterStatus, waiterStatus')
    BY <1>1, <1>5, ReclaimKeeps DEF LockForReclaim
  <2> QED
    BY <1>2, <1>3, <2>1, <2>2, <2>3, FreeInv
<1> QED
  BY <1>4, <1>5

(* A message is discarded, or enough have been.                            *)
LEMMA ReclaimSpaceStep ==
  ASSUME Inv, NEW t \in Threads, ReclaimSpace(t)
  PROVE  Inv'
<1>1. /\ ThreadTypeOK /\ LocalsMeet(t) /\ StatusMeets(t) /\ CancelHasDisable(waiterStatus)
      /\ pc[t] \in LockPcs => Owner(t) /\ cb[t] = NoCb
      /\ Owner(t) => IsLocked(waiterStatus)
  BY ThreadFacts
<1>2. /\ pc[t] = "reclaim" /\ pc[t] \in LockPcs
      /\ UNCHANGED <<waiterStatus, stack, cb, loc>>
  BY DEF ReclaimSpace, LockPcs
<1>3. ConsumerTypeOK' /\ SessionTypeOK'
  BY DEF Inv, TypeOK, ConsumerTypeOK, SessionTypeOK, ReclaimSpace, consumerVars
<1>4. MsgTypeOK'
  BY DEF Inv, TypeOK, MsgTypeOK, ReclaimSpace
<1>5. QueueTypeOK'
  <2>1. CASE TakeHead
    <3>1. HeadReady(SkipRemoved(nodes))
      BY <2>1 DEF TakeHead
    <3>2. Tail(SkipRemoved(nodes)) \in Seq(NodeRecord)
      BY <3>1, TakeHeadType DEF Inv, TypeOK
    <3> QED
      BY <2>1, <3>2 DEF Inv, TypeOK, QueueTypeOK, ReclaimSpace, TakeHead
  <2>2. CASE UNCHANGED <<nodes, bufferedMsgs, expiryData>>
    BY <2>2 DEF Inv, TypeOK, QueueTypeOK, ReclaimSpace
  <2> QED
    BY <2>1, <2>2 DEF ReclaimSpace
<1>6. CASE UNCHANGED pc
  <2>1. HoldMove(t, "reclaim")
    BY <1>1, <1>2, <1>6 DEF HoldMove, OthersStay, ThreadTypeOK
  <2>2. LocalsMeet(t)' /\ StatusMeets(t)'
    BY <1>1, <1>2, <2>1 DEF HoldMove, LocalsMeet, StatusMeets
  <2> QED
    BY <1>1, <1>2, <1>3, <1>4, <1>5, <2>1, <2>2, HoldInv DEF LockPcs
<1>7. CASE Goto(t, loc[t].after)
  <2>1. loc[t].after \in {"unlock", "completeUnlock", "disabling", "disconnecting"}
    BY <1>1, <1>2 DEF LocalsMeet
  <2>2. HoldMove(t, loc[t].after)
    BY <1>1, <1>2, <1>7, <2>1, GotoHold DEF LockPcs, ThreadTypeOK
  <2>3. LocalsMeet(t)' /\ StatusMeets(t)'
    BY <1>1, <1>2, <2>1, <2>2 DEF HoldMove, LocalsMeet, StatusMeets
  <2> QED
    BY <1>1, <1>2, <1>3, <1>4, <1>5, <2>1, <2>2, <2>3, HoldInv DEF LockPcs
<1> QED
  BY <1>6, <1>7 DEF ReclaimSpace

(* iews_unlockAfterQOperation finds the status it can unlock: no FFDC.     *)
LEMMA UnlockAfterQOperationStep ==
  ASSUME Inv, NEW t \in Threads, UnlockAfterQOperation(t)
  PROVE  Inv'
<1>1. /\ ThreadTypeOK /\ LocalsMeet(t) /\ StatusMeets(t) /\ CancelHasDisable(waiterStatus)
      /\ pc[t] \in LockPcs => Owner(t) /\ cb[t] = NoCb
  BY ThreadFacts
<1>2. /\ pc[t] = "unlock" /\ pc[t] \in LockPcs /\ UNCHANGED cb
      /\ loc[t].old \in {WS_DISCONNECTED, WS_DISABLED, WS_ENABLED}
      /\ waiterStatus \in QOpShape(loc[t].old)
  BY <1>1 DEF UnlockAfterQOperation, LockPcs, LocalsMeet, StatusMeets
<1>3. ConsumerTypeOK' /\ SessionTypeOK' /\ MsgTypeOK'
  BY DEF Inv, TypeOK, ConsumerTypeOK, SessionTypeOK, MsgTypeOK, UnlockAfterQOperation,
         consumerVars, msgVars
<1>4. QueueTypeOK'
  BY <1>2, StatusFacts DEF Inv, TypeOK, QueueTypeOK, UnlockAfterQOperation
<1>5. CASE loc[t].old = WS_ENABLED /\ waiterStatus = WS_DELIVERING
  <2>1. waiterStatus' = WS_ENABLED /\ Goto(t, "check") /\ UNCHANGED <<stack, loc>>
    BY <1>5 DEF UnlockAfterQOperation
  <2>2. FreeMove(t)
    BY <1>1, <1>2, <2>1, GotoMove DEF PlainPcs, FreePcs
  <2> QED
    BY <1>2, <1>3, <1>4, <2>1, <2>2, UnlockInv
<1>6. CASE loc[t].old = WS_ENABLED /\ waiterStatus # WS_DELIVERING
  <2> DEFINE fs == <<FrameAt(t, "check")>> \o stack[t]
  <2>1. CallComplete(t, fs, loc[t].con, TRUE, FALSE) /\ UNCHANGED waiterStatus
    BY <1>6 DEF UnlockAfterQOperation
  <2>2. fs \in Seq(Frame) /\ loc[t].con \in Consumers \cup {NoConsumer}
    BY <1>1, FrameStack DEF ReturnPcs, ThreadTypeOK, Locals
  <2> HIDE DEF fs
  <2>3. HoldMove(t, "complete")
    BY <1>1, <1>2, <2>1, <2>2, CompleteMove
  <2>4. waiterStatus' \in PendingStatus
    BY <1>2, <1>6, <2>1 DEF QOpShape, DeliverShape
  <2> QED
    BY <1>1, <1>2, <1>3, <1>4, <2>1, <2>3, <2>4, CompleteInv
<1>7. CASE loc[t].old # WS_ENABLED
  <2>1. waiterStatus = WS_DISABLED_LOCKEDWAIT
    BY <1>2, <1>7 DEF QOpShape
  <2>2. waiterStatus' = loc[t].old /\ Return(t)
    BY <1>7, <2>1 DEF UnlockAfterQOperation
  <2>3. FreeMove(t)
    BY <1>1, <1>2, <2>2, ReturnMove
  <2> QED
    BY <1>2, <1>3, <1>4, <2>2, <2>3, UnlockInv
<1> QED
  BY <1>5, <1>6, <1>7

(* The reaper begins with the queue.                                       *)
LEMMA ReapExpiredMessagesStep ==
  ASSUME Inv, NEW t \in Threads, ReapExpiredMessages(t)
  PROVE  Inv'
<1>1. ThreadTypeOK /\ LocalsMeet(t) /\ pc[t] \in FreePcs \ {"suspended"}
  BY ThreadFacts DEF ReapExpiredMessages, Begin, FreePcs
<1>2. FreeMove(t)
  BY <1>1, CallMove DEF ReapExpiredMessages, ReturnPcs, FreePcs, PlainPcs
<1>3. Keeps(waiterStatus, waiterStatus') /\ QueueTypeOK' /\ ConsumerTypeOK' /\ SessionTypeOK'
  BY KeepsReflexive DEF Inv, TypeOK, QueueTypeOK, ConsumerTypeOK, SessionTypeOK,
     ReapExpiredMessages, queueVars, consumerVars
<1>4. MsgTypeOK'
  BY BeginType DEF Inv, TypeOK, MsgTypeOK, ReapExpiredMessages, msgVars, Ops
<1> QED
  BY <1>1, <1>2, <1>3, <1>4, FreeInv

(* iews_tryLockForQOperation takes the lock or gives up.                   *)
LEMMA LockForReapStep ==
  ASSUME Inv, NEW t \in Threads, LockForReap(t)
  PROVE  Inv'
<1>1. /\ ThreadTypeOK /\ waiterStatus \in Status /\ CancelHasDisable(waiterStatus)
      /\ ~IsLocked(waiterStatus) => cb[t] = NoCb
  BY ThreadFacts
<1>2. ConsumerTypeOK' /\ SessionTypeOK' /\ MsgTypeOK'
  BY DEF Inv, TypeOK, ConsumerTypeOK, SessionTypeOK, MsgTypeOK, LockForReap, consumerVars, msgVars
<1>3. loc[t].deliver \in BOOLEAN
  BY <1>1 DEF ThreadTypeOK, Locals
<1>4. waiterStatus' = QOpTo(waiterStatus, loc[t].deliver)
  BY DEF LockForReap
<1>5. /\ waiterStatus' \in Status
      /\ waiterStatus' # waiterStatus =>
           /\ ~IsLocked(waiterStatus)
           /\ waiterStatus' = IF waiterStatus = WS_ENABLED THEN WS_DELIVERING
                                                          ELSE WS_DISABLED_LOCKEDWAIT
  BY <1>1, <1>3, <1>4, QOpKeeps
<1>6. QueueTypeOK'
  BY <1>5 DEF Inv, TypeOK, QueueTypeOK, LockForReap
<1>7. CASE waiterStatus' # waiterStatus
  <2>1. /\ loc' = [loc EXCEPT ![t].old = waiterStatus, ![t].con = pConsumer]
        /\ Goto(t, "reapWork") /\ UNCHANGED <<stack, cb>>
    BY <1>7 DEF LockForReap
  <2>2. /\ loc' \in [Threads -> Locals]
        /\ loc'[t].old = waiterStatus
        /\ \A u \in Threads : u # t => loc'[u] = loc[u]
    <3>1. loc \in [Threads -> Locals] /\ pConsumer \in Consumers \cup {NoConsumer}
      BY DEF Inv, TypeOK, ThreadTypeOK, QueueTypeOK
    <3> DEFINE r == [loc[t] EXCEPT !.old = waiterStatus, !.con = pConsumer]
    <3>2. r \in Locals
      BY <1>1, <3>1 DEF Locals
    <3>3. loc' = [loc EXCEPT ![t] = r]
      BY <2>1, <3>1
    <3>4. r.old = waiterStatus
      BY <3>1 DEF Locals
    <3> HIDE DEF r
    <3> QED
      BY <3>1, <3>2, <3>3, <3>4, LocalsUpdate
  <2>3. HoldMove(t, "reapWork")
    BY <1>1, <1>5, <1>7, <2>1, <2>2, GotoHold DEF LockPcs
  <2>4. waiterStatus \in {WS_DISCONNECTED, WS_DISABLED, WS_ENABLED}
    BY <1>1, <1>5, <1>7, LockedCases
  <2>5. LocalsMeet(t)' /\ StatusMeets(t)'
    BY <1>5, <1>7, <2>2, <2>3, <2>4 DEF HoldMove, LocalsMeet, StatusMeets, QOpShape, DeliverShape
  <2>6. IsLocked(waiterStatus') /\ CancelHasDisable(waiterStatus')
    BY <1>5, <1>7, StatusBits DEF CancelHasDisable, WS_DELIVERING, WS_DISABLED_LOCKEDWAIT,
       CANCEL_DISABLE_PEND
  <2> QED
    BY <1>2, <1>5, <1>6, <1>7, <2>3, <2>5, <2>6, HoldInv DEF LockPcs
<1>8. CASE waiterStatus' = waiterStatus
  <2>1. Return(t) /\ UNCHANGED cb /\ pc[t] \in FreePcs \ {"suspended"}
    BY <1>8 DEF LockForReap, FreePcs
  <2>2. FreeMove(t) /\ Keeps(waiterStatus, waiterStatus')
    BY <1>1, <1>8, <2>1, ReturnMove, KeepsReflexive
  <2> QED
    BY <1>2, <1>6, <2>1, <2>2, FreeInv
<1> QED
  BY <1>7, <1>8

(* The messages past their expiry are taken out of the queue.              *)
LEMMA ReapWorkStep ==
  ASSUME Inv, NEW t \in Threads, ReapWork(t)
  PROVE  Inv'
<1>1. /\ ThreadTypeOK /\ LocalsMeet(t) /\ StatusMeets(t) /\ CancelHasDisable(waiterStatus)
      /\ pc[t] \in LockPcs => Owner(t) /\ cb[t] = NoCb
      /\ Owner(t) => IsLocked(waiterStatus)
  BY ThreadFacts
<1>2. /\ pc[t] = "reapWork" /\ pc[t] \in LockPcs
      /\ UNCHANGED <<waiterStatus, stack, cb, loc>>
  BY DEF ReapWork, LockPcs
<1>3. ConsumerTypeOK' /\ SessionTypeOK'
  BY DEF Inv, TypeOK, ConsumerTypeOK, SessionTypeOK, ReapWork, consumerVars
<1>4. MsgTypeOK'
  BY DEF Inv, TypeOK, MsgTypeOK, ReapWork
<1> DEFINE due == {i \in DOMAIN nodes : nodes[i].msg \in expiryData \cap late}
           reaped == [i \in DOMAIN nodes |->
                        IF i \in due THEN [nodes[i] EXCEPT !.state = "removed"] ELSE nodes[i]]
<1>5. QueueTypeOK'
  <2>1. nodes \in Seq(NodeRecord)
    BY DEF Inv, TypeOK, QueueTypeOK
  <2>2. Cardinality(due) \in Int
    <3>1. IsFiniteSet(DOMAIN nodes)
      BY <2>1, LenProperties, FS_Interval
    <3>2. IsFiniteSet(due)
      BY <3>1, FS_Subset
    <3> QED
      BY <3>2, FS_CardinalityType
  <2>3. SkipRemoved(reaped) \in Seq(NodeRecord)
    <3>1. reaped = [i \in DOMAIN nodes |->
                      IF nodes[i].msg \in expiryData \cap late
                        THEN [nodes[i] EXCEPT !.state = "removed"] ELSE nodes[i]]
      OBVIOUS
    <3>2. reaped \in Seq(NodeRecord)
      BY <2>1, <3>1, MapNodesType
    <3> HIDE DEF reaped
    <3> QED
      BY <3>2, SkipRemovedType
  <2>4. CASE UNCHANGED <<nodes, bufferedMsgs, expiryData>>
    BY <2>4 DEF Inv, TypeOK, QueueTypeOK, ReapWork
  <2>5. CASE /\ nodes' = SkipRemoved(reaped)
             /\ bufferedMsgs' = bufferedMsgs - Cardinality(due)
             /\ expiryData' = expiryData \ late
    <3> HIDE DEF due, reaped
    <3> QED
      BY <2>2, <2>3, <2>5 DEF Inv, TypeOK, QueueTypeOK, ReapWork
  <2> QED
    BY <2>4, <2>5 DEF ReapWork
<1>6. PICK l \in {"crash", "unlock"} : Goto(t, l)
  BY DEF ReapWork
<1>7. HoldMove(t, l)
  BY <1>1, <1>2, <1>6, GotoHold DEF LockPcs, ThreadTypeOK
<1>8. LocalsMeet(t)' /\ StatusMeets(t)'
  BY <1>1, <1>2, <1>6, <1>7 DEF HoldMove, LocalsMeet, StatusMeets
<1> QED
  BY <1>1, <1>2, <1>3, <1>4, <1>5, <1>6, <1>7, <1>8, HoldInv DEF LockPcs

(* The queue's expiry lock is busy: nothing is reaped.                     *)
LEMMA ReapLockBusyStep ==
  ASSUME Inv, NEW t \in Threads, ReapLockBusy(t)
  PROVE  Inv'
<1>1. /\ ThreadTypeOK /\ LocalsMeet(t) /\ StatusMeets(t) /\ CancelHasDisable(waiterStatus)
      /\ pc[t] \in LockPcs => Owner(t) /\ cb[t] = NoCb
      /\ Owner(t) => IsLocked(waiterStatus)
  BY ThreadFacts
<1>2. /\ pc[t] = "reapWork" /\ pc[t] \in LockPcs
      /\ UNCHANGED <<waiterStatus, stack, cb, loc>>
  BY DEF ReapLockBusy, LockPcs, queueVars
<1>3. QueueTypeOK' /\ ConsumerTypeOK' /\ SessionTypeOK' /\ MsgTypeOK'
  BY DEF Inv, TypeOK, QueueTypeOK, ConsumerTypeOK, SessionTypeOK, MsgTypeOK, ReapLockBusy,
         queueVars, consumerVars, msgVars
<1>4. HoldMove(t, "unlock")
  BY <1>1, <1>2, GotoHold DEF ReapLockBusy, LockPcs, ThreadTypeOK
<1>5. LocalsMeet(t)' /\ StatusMeets(t)'
  BY <1>1, <1>2, <1>4 DEF HoldMove, LocalsMeet, StatusMeets
<1> QED
  BY <1>1, <1>2, <1>3, <1>4, <1>5, HoldInv DEF LockPcs

(* The reaper is done with the queue.                                      *)
LEMMA ReapDoneStep ==
  ASSUME Inv, NEW t \in Threads, ReapDone(t)
  PROVE  Inv'
<1>1. ThreadTypeOK /\ LocalsMeet(t) /\ pc[t] \in FreePcs \ {"suspended"}
  BY ThreadFacts DEF ReapDone, FreePcs
<1>2. FreeMove(t)
  BY <1>1, ReturnMove DEF ReapDone, FreePcs, PlainPcs
<1>3. Keeps(waiterStatus, waiterStatus') /\ QueueTypeOK' /\ ConsumerTypeOK' /\ SessionTypeOK' /\
   MsgTypeOK'
  BY KeepsReflexive DEF Inv, TypeOK, QueueTypeOK, ConsumerTypeOK, SessionTypeOK, MsgTypeOK,
     ReapDone, queueVars, consumerVars, msgVars
<1> QED
  BY <1>1, <1>2, <1>3, FreeInv

----------------------------------------------------------------------------
(* Enabling, disabling and terminating the waiter *)

(* The enabled waiter's reference and callback are counted.                *)
LEMMA AcquireForEnableStep ==
  ASSUME Inv, NEW t \in Threads, AcquireForEnable(t)
  PROVE  Inv'
<1>1. ThreadTypeOK /\ LocalsMeet(t) /\ pc[t] \in FreePcs \ {"suspended"}
  BY ThreadFacts DEF AcquireForEnable, FreePcs
<1>2. FreeMove(t)
  BY <1>1, GotoMove DEF AcquireForEnable, FreePcs, PlainPcs
<1>3. Keeps(waiterStatus, waiterStatus') /\ QueueTypeOK' /\ MsgTypeOK'
  BY KeepsReflexive DEF Inv, TypeOK, QueueTypeOK, MsgTypeOK, AcquireForEnable, queueVars, msgVars
<1>4. SessionTypeOK'
  BY DEF Inv, TypeOK, SessionTypeOK, AcquireForEnable, SessionRecord
<1>5. ConsumerTypeOK'
  BY CountType DEF Inv, TypeOK, ConsumerTypeOK, AcquireForEnable
<1> QED
  BY <1>1, <1>2, <1>3, <1>4, <1>5, FreeInv

(* ieq_enableWaiter never takes the lock.                                  *)
LEMMA EnableWaiterStep ==
  ASSUME Inv, NEW t \in Threads, EnableWaiter(t)
  PROVE  Inv'
<1>1. ThreadTypeOK /\ LocalsMeet(t) /\ pc[t] \in FreePcs \ {"suspended"}
  BY ThreadFacts DEF EnableWaiter, FreePcs
<1>2. FreeMove(t)
  <2>1. pc[t] = "enable" /\ UNCHANGED cb
    BY DEF EnableWaiter
  <2>2. \/ Return(t)
        \/ Goto(t, "enableUndo") /\ UNCHANGED <<stack, loc>>
        \/ Call(t, "release", "enableUndo") /\ UNCHANGED loc
    BY DEF EnableWaiter
  <2>3. CASE Return(t)
    BY <1>1, <2>1, <2>3, ReturnMove DEF FreePcs
  <2>4. CASE Goto(t, "enableUndo") /\ UNCHANGED <<stack, loc>>
    BY <1>1, <2>1, <2>4, GotoMove DEF FreePcs, PlainPcs
  <2>5. CASE Call(t, "release", "enableUndo") /\ UNCHANGED loc
    BY <1>1, <2>1, <2>5, CallMove DEF FreePcs, PlainPcs, ReturnPcs
  <2> QED
    BY <2>2, <2>3, <2>4, <2>5
<1>3. ConsumerTypeOK' /\ SessionTypeOK' /\ MsgTypeOK'
  BY DEF Inv, TypeOK, ConsumerTypeOK, SessionTypeOK, MsgTypeOK, EnableWaiter, consumerVars, msgVars
<1>4. Keeps(waiterStatus, waiterStatus')
  BY EnableKeeps DEF Inv, TypeOK, QueueTypeOK, EnableWaiter
<1>5. QueueTypeOK'
  BY EnableKeeps DEF Inv, TypeOK, QueueTypeOK, EnableWaiter
<1> QED
  BY <1>1, <1>2, <1>3, <1>4, <1>5, FreeInv

(* The callback of an enable that did nothing is taken back.               *)
LEMMA EnableUndoStep ==
  ASSUME Inv, NEW t \in Threads, EnableUndo(t)
  PROVE  Inv'
<1>1. ThreadTypeOK /\ LocalsMeet(t) /\ pc[t] \in FreePcs \ {"suspended"}
  BY ThreadFacts DEF EnableUndo, FreePcs
<1>2. FreeMove(t)
  BY <1>1, GotoMove, ReturnMove DEF EnableUndo, FreePcs, PlainPcs
<1>3. Keeps(waiterStatus, waiterStatus') /\ QueueTypeOK' /\ ConsumerTypeOK' /\ MsgTypeOK'
  BY KeepsReflexive DEF Inv, TypeOK, QueueTypeOK, ConsumerTypeOK, MsgTypeOK, EnableUndo, queueVars,
     consumerVars, msgVars
<1>4. SessionTypeOK'
  BY DEF Inv, TypeOK, SessionTypeOK, EnableUndo, SessionRecord
<1> QED
  BY <1>1, <1>2, <1>3, <1>4, FreeInv

(* ieq_disableWaiter takes the lock, or leaves the flag with the owner.    *)
LEMMA DisableWaiterStep ==
  ASSUME Inv, NEW t \in Threads, DisableWaiter(t)
  PROVE  Inv'
<1>1. /\ ThreadTypeOK /\ waiterStatus \in Status /\ CancelHasDisable(waiterStatus)
      /\ ~IsLocked(waiterStatus) => cb[t] = NoCb
  BY ThreadFacts
<1>2. ConsumerTypeOK' /\ SessionTypeOK' /\ MsgTypeOK'
  BY DEF Inv, TypeOK, ConsumerTypeOK, SessionTypeOK, MsgTypeOK, DisableWaiter, consumerVars,
         msgVars
<1>3. /\ pc[t] \in FreePcs \ {"suspended"} /\ ~DisableWaits(waiterStatus)
      /\ waiterStatus' = DisableTo(waiterStatus) /\ UNCHANGED cb
  BY DEF DisableWaiter, FreePcs
<1>4. QueueTypeOK'
  BY <1>1, DisableKeeps DEF Inv, TypeOK, QueueTypeOK, DisableWaiter
<1>5. CASE DisableOutcome(waiterStatus) = "lock"
  <2>1. CallComplete(t, stack[t], loc[t].con, TRUE, TRUE)
    BY <1>5 DEF DisableWaiter
  <2>2. ~IsLocked(waiterStatus) /\ waiterStatus' = {DISABLE_PEND}
    BY <1>1, <1>3, <1>5, DisableKeeps
  <2>3. stack[t] \in Seq(Frame) /\ loc[t].con \in Consumers \cup {NoConsumer}
    BY <1>1 DEF ThreadTypeOK, Locals
  <2>4. HoldMove(t, "complete")
    BY <1>1, <1>3, <2>1, <2>2, <2>3, CompleteMove
  <2>5. waiterStatus' \in PendingStatus /\ CancelHasDisable(waiterStatus')
    BY <2>2 DEF PendingStatus, PENDING, CancelHasDisable
  <2> QED
    BY <1>2, <1>4, <2>2, <2>4, <2>5, CompleteInv
<1>6. CASE DisableOutcome(waiterStatus) # "lock"
  <2>1. Keeps(waiterStatus, waiterStatus')
    BY <1>1, <1>3, <1>6, DisableKeeps
  <2>2. Return(t) \/ (Goto(t, "uncancelCB") /\ UNCHANGED <<stack, loc>>)
    BY <1>6 DEF DisableWaiter, DisableOutcome
  <2>3. FreeMove(t)
    BY <1>1, <1>3, <2>2, ReturnMove, GotoMove DEF PlainPcs, FreePcs
  <2> QED
    BY <1>2, <1>3, <1>4, <2>1, <2>3, FreeInv
<1> QED
  BY <1>5, <1>6

(* A cancelled disable is reported after all.                              *)
LEMMA UncancelCallbackStep ==
  ASSUME Inv, NEW t \in Threads, UncancelCallback(t)
  PROVE  Inv'
<1>1. ThreadTypeOK /\ LocalsMeet(t) /\ pc[t] \in FreePcs \ {"suspended"}
  BY ThreadFacts DEF UncancelCallback, FreePcs
<1>2. FreeMove(t)
  BY <1>1, GotoMove DEF UncancelCallback, FreePcs, PlainPcs
<1>3. Keeps(waiterStatus, waiterStatus') /\ QueueTypeOK' /\ ConsumerTypeOK' /\ MsgTypeOK'
  BY KeepsReflexive DEF Inv, TypeOK, QueueTypeOK, ConsumerTypeOK, MsgTypeOK, UncancelCallback,
     queueVars, consumerVars, msgVars
<1>4. SessionTypeOK'
  BY DEF Inv, TypeOK, SessionTypeOK, UncancelCallback, SessionRecord, WaiterDisabledStatus
<1> QED
  BY <1>1, <1>2, <1>3, <1>4, FreeInv

(* That callback may be the last of a session being stopped.               *)
LEMMA UncancelEndStopStep ==
  ASSUME Inv, NEW t \in Threads, UncancelEndStop(t)
  PROVE  Inv'
<1>1. ThreadTypeOK /\ LocalsMeet(t) /\ pc[t] \in FreePcs \ {"suspended"}
  BY ThreadFacts DEF UncancelEndStop, FreePcs
<1>2. FreeMove(t)
  BY <1>1, GotoMove DEF UncancelEndStop, FreePcs, PlainPcs
<1>3. Keeps(waiterStatus, waiterStatus') /\ QueueTypeOK' /\ ConsumerTypeOK' /\ MsgTypeOK'
  BY KeepsReflexive DEF Inv, TypeOK, QueueTypeOK, ConsumerTypeOK, MsgTypeOK, UncancelEndStop,
     queueVars, consumerVars, msgVars
<1>4. SessionTypeOK'
  BY SessionUpdates DEF Inv, TypeOK, SessionTypeOK, UncancelEndStop, EndStop
<1> QED
  BY <1>1, <1>2, <1>3, <1>4, FreeInv

(* A reference to a consumer is released.                                  *)
LEMMA ReleaseConsumerReferenceStep ==
  ASSUME Inv, NEW t \in Threads, ReleaseConsumerReference(t)
  PROVE  Inv'
<1>1. ThreadTypeOK /\ LocalsMeet(t) /\ pc[t] \in FreePcs \ {"suspended"}
  BY ThreadFacts DEF ReleaseConsumerReference, FreePcs
<1>2. FreeMove(t)
  BY <1>1, GotoMove, ReturnMove DEF ReleaseConsumerReference, FreePcs, PlainPcs
<1>3. Keeps(waiterStatus, waiterStatus') /\ QueueTypeOK' /\ SessionTypeOK' /\ MsgTypeOK'
  BY KeepsReflexive DEF Inv, TypeOK, QueueTypeOK, SessionTypeOK, MsgTypeOK,
     ReleaseConsumerReference, queueVars, msgVars
<1>4. ConsumerTypeOK'
  BY CountType DEF Inv, TypeOK, ConsumerTypeOK, ReleaseConsumerReference
<1> QED
  BY <1>1, <1>2, <1>3, <1>4, FreeInv

(* The last reference to a consumer is gone.                               *)
LEMMA FinishDestroyConsumerStep ==
  ASSUME Inv, NEW t \in Threads, FinishDestroyConsumer(t)
  PROVE  Inv'
<1>1. ThreadTypeOK /\ LocalsMeet(t) /\ pc[t] \in FreePcs \ {"suspended"}
  BY ThreadFacts DEF FinishDestroyConsumer, FreePcs
<1>2. FreeMove(t)
  BY <1>1, GotoMove DEF FinishDestroyConsumer, FreePcs, PlainPcs
<1>3. Keeps(waiterStatus, waiterStatus') /\ QueueTypeOK' /\ MsgTypeOK'
  BY KeepsReflexive DEF Inv, TypeOK, QueueTypeOK, MsgTypeOK, FinishDestroyConsumer, queueVars,
     msgVars
<1>4. ConsumerTypeOK'
  BY DEF Inv, TypeOK, ConsumerTypeOK, FinishDestroyConsumer
<1>5. SessionTypeOK'
  BY SessionUpdates DEF Inv, TypeOK, SessionTypeOK, FinishDestroyConsumer
<1> QED
  BY <1>1, <1>2, <1>3, <1>4, <1>5, FreeInv

(* iesq_termWaiter takes the lock, or leaves the flag with the owner.      *)
LEMMA TermWaiterStep ==
  ASSUME Inv, NEW t \in Threads, TermWaiter(t)
  PROVE  Inv'
<1>1. /\ ThreadTypeOK /\ waiterStatus \in Status /\ CancelHasDisable(waiterStatus)
      /\ ~IsLocked(waiterStatus) => cb[t] = NoCb
  BY ThreadFacts
<1>2. ConsumerTypeOK' /\ SessionTypeOK' /\ MsgTypeOK'
  BY DEF Inv, TypeOK, ConsumerTypeOK, SessionTypeOK, MsgTypeOK, TermWaiter, consumerVars, msgVars
<1>3. /\ pc[t] \in FreePcs \ {"suspended"} /\ ~TermWaits(waiterStatus)
      /\ waiterStatus' = TermTo(waiterStatus) /\ UNCHANGED cb
  BY DEF TermWaiter, FreePcs
<1>4. QueueTypeOK'
  BY <1>1, TermKeeps DEF Inv, TypeOK, QueueTypeOK, TermWaiter
<1>5. CASE TermLocks(waiterStatus)
  <2> DEFINE w == waiterStatus # WS_DISABLED
  <2>1. CallComplete(t, stack[t], loc[t].con, w, TRUE)
    BY <1>5 DEF TermWaiter
  <2>2. ~IsLocked(waiterStatus) /\ waiterStatus' = {DISCONNECT_PEND}
    BY <1>1, <1>3, <1>5, TermKeeps
  <2>3. stack[t] \in Seq(Frame) /\ loc[t].con \in Consumers \cup {NoConsumer} /\ w \in BOOLEAN
    BY <1>1 DEF ThreadTypeOK, Locals
  <2>4. HoldMove(t, "complete")
    <3> HIDE DEF w
    <3> QED
      BY <1>1, <1>3, <2>1, <2>2, <2>3, CompleteMove
  <2>5. waiterStatus' \in PendingStatus /\ CancelHasDisable(waiterStatus')
    BY <2>2 DEF PendingStatus, PENDING, CancelHasDisable, CANCEL_DISABLE_PEND, DISCONNECT_PEND
  <2> QED
    BY <1>2, <1>4, <2>2, <2>4, <2>5, CompleteInv
<1>6. CASE ~TermLocks(waiterStatus)
  <2>1. Keeps(waiterStatus, waiterStatus') /\ Return(t)
    BY <1>1, <1>3, <1>6, TermKeeps DEF TermWaiter
  <2>2. FreeMove(t)
    BY <1>1, <1>3, <2>1, ReturnMove
  <2> QED
    BY <1>2, <1>3, <1>4, <2>1, <2>2, FreeInv
<1> QED
  BY <1>5, <1>6

----------------------------------------------------------------------------
(* The session *)

(* A start begins under the session lock.                                  *)
LEMMA StartMessageDeliveryStep ==
  ASSUME Inv, NEW t \in Threads, StartMessageDelivery(t)
  PROVE  Inv'
<1>1. ThreadTypeOK /\ LocalsMeet(t) /\ pc[t] \in FreePcs \ {"suspended"}
  BY ThreadFacts DEF StartMessageDelivery, Begin, FreePcs
<1>2. FreeMove(t)
  BY <1>1, GotoMove DEF StartMessageDelivery, FreePcs, PlainPcs
<1>3. Keeps(waiterStatus, waiterStatus') /\ QueueTypeOK' /\ ConsumerTypeOK'
  BY KeepsReflexive DEF Inv, TypeOK, QueueTypeOK, ConsumerTypeOK, StartMessageDelivery, queueVars,
     consumerVars
<1>4. MsgTypeOK'
  BY BeginType DEF Inv, TypeOK, MsgTypeOK, StartMessageDelivery, msgVars, Ops
<1>5. SessionTypeOK'
  BY SessionUpdates DEF Inv, TypeOK, SessionTypeOK, StartMessageDelivery
<1> QED
  BY <1>1, <1>2, <1>3, <1>4, <1>5, FreeInv

(* The start goes on to the next consumer, or unlocks the session.         *)
LEMMA StartNextStep ==
  ASSUME Inv, NEW t \in Threads, StartNext(t)
  PROVE  Inv'
<1>1. ThreadTypeOK /\ LocalsMeet(t) /\ pc[t] \in FreePcs \ {"suspended"}
  BY ThreadFacts DEF StartNext, FreePcs
<1>2. FreeMove(t)
  <2> DEFINE c == NextConsumer(loc[t].con)
             s == <<[FrameAt(t, "startNext") EXCEPT !.con = c]>> \o stack[t]
  <2>1. c \in Consumers \cup {NoConsumer}
    BY NextConsumerType DEF Inv, TypeOK
  <2>2. s \in Seq(Frame)
    BY <1>1, <2>1, WalkStack DEF ReturnPcs
  <2>3. pc[t] = "startNext" /\ UNCHANGED cb
    BY DEF StartNext
  <2>4. CASE c # NoConsumer
    <3>1. /\ Goto(t, "acquire")
          /\ loc' = [loc EXCEPT ![t].con = c]
          /\ stack' = [stack EXCEPT ![t] = s]
      BY <2>4 DEF StartNext
    <3> HIDE DEF c, s
    <3> QED
      BY <1>1, <2>1, <2>2, <2>3, <3>1, WalkMove DEF FreePcs, PlainPcs
  <2>5. CASE c = NoConsumer
    <3>1. /\ Goto(t, "startDeliver")
          /\ loc' = [loc EXCEPT ![t].con = NoConsumer]
          /\ stack' = [stack EXCEPT ![t] = stack[t]]
      BY <1>1, <2>5 DEF StartNext, ThreadTypeOK
    <3>2. stack[t] \in Seq(Frame)
      BY <1>1 DEF ThreadTypeOK
    <3> QED
      BY <1>1, <2>3, <3>1, <3>2, WalkMove DEF FreePcs, PlainPcs
  <2> QED
    BY <2>4, <2>5
<1>3. Keeps(waiterStatus, waiterStatus') /\ QueueTypeOK' /\ ConsumerTypeOK' /\ MsgTypeOK'
  BY KeepsReflexive DEF Inv, TypeOK, QueueTypeOK, ConsumerTypeOK, MsgTypeOK, StartNext, queueVars,
     consumerVars, msgVars
<1>4. SessionTypeOK'
  BY SessionUpdates DEF Inv, TypeOK, SessionTypeOK, StartNext
<1> QED
  BY <1>1, <1>2, <1>3, <1>4, FreeInv

(* The start checks the waiters of the next consumer.                      *)
LEMMA StartDeliverStep ==
  ASSUME Inv, NEW t \in Threads, StartDeliver(t)
  PROVE  Inv'
<1>1. ThreadTypeOK /\ LocalsMeet(t) /\ pc[t] \in FreePcs \ {"suspended"}
  BY ThreadFacts DEF StartDeliver, FreePcs
<1>2. FreeMove(t)
  <2> DEFINE c == NextConsumer(loc[t].con)
             s == <<[FrameAt(t, "startRelease") EXCEPT !.con = c]>> \o stack[t]
  <2>1. c \in Consumers \cup {NoConsumer}
    BY NextConsumerType DEF Inv, TypeOK
  <2>2. s \in Seq(Frame)
    BY <1>1, <2>1, WalkStack DEF ReturnPcs
  <2>3. pc[t] = "startDeliver" /\ UNCHANGED cb
    BY DEF StartDeliver
  <2>4. CASE ~(session.destroyed \/ session.stopping \/ ~session.started \/ c = NoConsumer)
    <3>1. /\ Goto(t, "check")
          /\ loc' = [loc EXCEPT ![t].con = c]
          /\ stack' = [stack EXCEPT ![t] = s]
      BY <2>4 DEF StartDeliver
    <3> HIDE DEF c, s
    <3> QED
      BY <1>1, <2>1, <2>2, <2>3, <3>1, WalkMove DEF FreePcs, PlainPcs
  <2>5. CASE session.destroyed \/ session.stopping \/ ~session.started \/ c = NoConsumer
    <3>1. Return(t)
      BY <2>5 DEF StartDeliver
    <3> QED
      BY <1>1, <2>3, <3>1, ReturnMove DEF FreePcs
  <2> QED
    BY <2>4, <2>5
<1>3. Keeps(waiterStatus, waiterStatus') /\ QueueTypeOK' /\ SessionTypeOK' /\ MsgTypeOK'
  BY KeepsReflexive DEF Inv, TypeOK, QueueTypeOK, SessionTypeOK, MsgTypeOK, StartDeliver, queueVars,
     msgVars
<1>4. ConsumerTypeOK'
  BY CountType DEF Inv, TypeOK, ConsumerTypeOK, StartDeliver
<1> QED
  BY <1>1, <1>2, <1>3, <1>4, FreeInv

(* The start releases the consumer it has checked.                         *)
LEMMA StartReleaseStep ==
  ASSUME Inv, NEW t \in Threads, StartRelease(t)
  PROVE  Inv'
<1>1. ThreadTypeOK /\ LocalsMeet(t) /\ pc[t] \in FreePcs \ {"suspended"}
  BY ThreadFacts DEF StartRelease, FreePcs
<1>2. FreeMove(t)
  BY <1>1, CallMove DEF StartRelease, ReturnPcs, FreePcs, PlainPcs
<1>3. Keeps(waiterStatus, waiterStatus') /\ QueueTypeOK' /\ ConsumerTypeOK' /\ SessionTypeOK' /\
   MsgTypeOK'
  BY KeepsReflexive DEF Inv, TypeOK, QueueTypeOK, ConsumerTypeOK, SessionTypeOK, MsgTypeOK,
     StartRelease, queueVars, consumerVars, msgVars
<1> QED
  BY <1>1, <1>2, <1>3, FreeInv

(* A resume begins under the session lock.                                 *)
LEMMA ResumeMessageDeliveryStep ==
  ASSUME Inv, NEW t \in Threads, NEW c \in Consumers, ResumeMessageDelivery(t, c)
  PROVE  Inv'
<1>1. ThreadTypeOK /\ LocalsMeet(t) /\ pc[t] \in FreePcs \ {"suspended"}
  BY ThreadFacts DEF ResumeMessageDelivery, Begin, FreePcs
<1>2. FreeMove(t)
  <2> DEFINE s == <<[FrameAt(t, "resumeCheck") EXCEPT !.con = c]>> \o stack[t]
  <2>1. s \in Seq(Frame)
    BY <1>1, WalkStack DEF ReturnPcs
  <2>2. /\ pc[t] = "idle"
        /\ Goto(t, "acquire")
        /\ loc' = [loc EXCEPT ![t].con = c]
        /\ stack' = [stack EXCEPT ![t] = s]
        /\ UNCHANGED cb
    BY DEF ResumeMessageDelivery, Begin
  <2> HIDE DEF s
  <2> QED
    BY <1>1, <2>1, <2>2, WalkMove DEF FreePcs, PlainPcs
<1>3. Keeps(waiterStatus, waiterStatus') /\ QueueTypeOK' /\ ConsumerTypeOK'
  BY KeepsReflexive DEF Inv, TypeOK, QueueTypeOK, ConsumerTypeOK, ResumeMessageDelivery, queueVars,
     consumerVars
<1>4. MsgTypeOK'
  BY BeginType DEF Inv, TypeOK, MsgTypeOK, ResumeMessageDelivery, msgVars, Ops
<1>5. SessionTypeOK'
  BY SessionUpdates DEF Inv, TypeOK, SessionTypeOK, ResumeMessageDelivery
<1> QED
  BY <1>1, <1>2, <1>3, <1>4, <1>5, FreeInv

(* The resume unlocks the session and checks the waiter.                   *)
LEMMA ResumeCheckStep ==
  ASSUME Inv, NEW t \in Threads, ResumeCheck(t)
  PROVE  Inv'
<1>1. ThreadTypeOK /\ LocalsMeet(t) /\ pc[t] \in FreePcs \ {"suspended"}
  BY ThreadFacts DEF ResumeCheck, FreePcs
<1>2. FreeMove(t)
  BY <1>1, CallMove DEF ResumeCheck, ReturnPcs, FreePcs, PlainPcs
<1>3. Keeps(waiterStatus, waiterStatus') /\ QueueTypeOK' /\ MsgTypeOK'
  BY KeepsReflexive DEF Inv, TypeOK, QueueTypeOK, MsgTypeOK, ResumeCheck, queueVars, msgVars
<1>4. SessionTypeOK'
  BY DEF Inv, TypeOK, SessionTypeOK, ResumeCheck, SessionRecord
<1>5. ConsumerTypeOK'
  BY CountType DEF Inv, TypeOK, ConsumerTypeOK, ResumeCheck
<1> QED
  BY <1>1, <1>2, <1>3, <1>4, <1>5, FreeInv

(* A stop marks the session.                                               *)
LEMMA StopMessageDeliveryStep ==
  ASSUME Inv, NEW t \in Threads, StopMessageDelivery(t)
  PROVE  Inv'
<1>1. ThreadTypeOK /\ LocalsMeet(t) /\ pc[t] \in FreePcs \ {"suspended"}
  BY ThreadFacts DEF StopMessageDelivery, Begin, FreePcs
<1>2. FreeMove(t)
  BY <1>1, GotoMove DEF StopMessageDelivery, FreePcs, PlainPcs
<1>3. Keeps(waiterStatus, waiterStatus') /\ QueueTypeOK' /\ ConsumerTypeOK'
  BY KeepsReflexive DEF Inv, TypeOK, QueueTypeOK, ConsumerTypeOK, StopMessageDelivery, queueVars,
     consumerVars
<1>4. SessionTypeOK'
  BY DEF Inv, TypeOK, SessionTypeOK, StopMessageDelivery, SessionRecord
<1>5. MsgTypeOK'
  BY BeginType DEF Inv, TypeOK, MsgTypeOK, StopMessageDelivery, msgVars, Ops
<1> QED
  BY <1>1, <1>2, <1>3, <1>4, <1>5, FreeInv

(* The stop locks the session again.                                       *)
LEMMA StopDisableStep ==
  ASSUME Inv, NEW t \in Threads, StopDisable(t)
  PROVE  Inv'
<1>1. ThreadTypeOK /\ LocalsMeet(t) /\ pc[t] \in FreePcs \ {"suspended"}
  BY ThreadFacts DEF StopDisable, FreePcs
<1>2. FreeMove(t)
  BY <1>1, GotoMove DEF StopDisable, FreePcs, PlainPcs
<1>3. Keeps(waiterStatus, waiterStatus') /\ QueueTypeOK' /\ ConsumerTypeOK' /\ MsgTypeOK'
  BY KeepsReflexive DEF Inv, TypeOK, QueueTypeOK, ConsumerTypeOK, MsgTypeOK, StopDisable, queueVars,
     consumerVars, msgVars
<1>4. SessionTypeOK'
  BY DEF Inv, TypeOK, SessionTypeOK, StopDisable, SessionRecord
<1> QED
  BY <1>1, <1>2, <1>3, <1>4, FreeInv

(* The stop goes on to the next consumer, or unlocks the session.          *)
LEMMA StopNextStep ==
  ASSUME Inv, NEW t \in Threads, StopNext(t)
  PROVE  Inv'
<1>1. ThreadTypeOK /\ LocalsMeet(t) /\ pc[t] \in FreePcs \ {"suspended"}
  BY ThreadFacts DEF StopNext, FreePcs
<1>2. FreeMove(t)
  <2> DEFINE c == NextConsumer(loc[t].con)
             s == <<[FrameAt(t, "stopNext") EXCEPT !.con = c]>> \o stack[t]
  <2>1. c \in Consumers \cup {NoConsumer}
    BY NextConsumerType DEF Inv, TypeOK
  <2>2. s \in Seq(Frame)
    BY <1>1, <2>1, WalkStack DEF ReturnPcs
  <2>3. pc[t] = "stopNext" /\ UNCHANGED cb
    BY DEF StopNext
  <2>4. CASE c # NoConsumer
    <3>1. /\ Goto(t, "disable")
          /\ loc' = [loc EXCEPT ![t].con = c]
          /\ stack' = [stack EXCEPT ![t] = s]
      BY <2>4 DEF StopNext
    <3> HIDE DEF c, s
    <3> QED
      BY <1>1, <2>1, <2>2, <2>3, <3>1, WalkMove DEF FreePcs, PlainPcs
  <2>5. CASE c = NoConsumer
    <3>1. Goto(t, "stopDone") /\ UNCHANGED <<stack, loc>>
      BY <2>5 DEF StopNext
    <3> QED
      BY <1>1, <2>3, <3>1, GotoMove DEF FreePcs, PlainPcs
  <2> QED
    BY <2>4, <2>5
<1>3. Keeps(waiterStatus, waiterStatus') /\ QueueTypeOK' /\ ConsumerTypeOK' /\ MsgTypeOK'
  BY KeepsReflexive DEF Inv, TypeOK, QueueTypeOK, ConsumerTypeOK, MsgTypeOK, StopNext, queueVars,
     consumerVars, msgVars
<1>4. SessionTypeOK'
  BY SessionUpdates DEF Inv, TypeOK, SessionTypeOK, StopNext
<1> QED
  BY <1>1, <1>2, <1>3, <1>4, FreeInv

(* The stop drops the callback it holds itself.                            *)
LEMMA StopDoneStep ==
  ASSUME Inv, NEW t \in Threads, StopDone(t)
  PROVE  Inv'
<1>1. ThreadTypeOK /\ LocalsMeet(t) /\ pc[t] \in FreePcs \ {"suspended"}
  BY ThreadFacts DEF StopDone, FreePcs
<1>2. FreeMove(t)
  BY <1>1, GotoMove, ReturnMove DEF StopDone, FreePcs, PlainPcs
<1>3. Keeps(waiterStatus, waiterStatus') /\ QueueTypeOK' /\ ConsumerTypeOK' /\ MsgTypeOK'
  BY KeepsReflexive DEF Inv, TypeOK, QueueTypeOK, ConsumerTypeOK, MsgTypeOK, StopDone, queueVars,
     consumerVars, msgVars
<1>4. SessionTypeOK'
  BY DEF Inv, TypeOK, SessionTypeOK, StopDone, SessionRecord
<1> QED
  BY <1>1, <1>2, <1>3, <1>4, FreeInv

(* The stop ends here if no callback was owed.                             *)
LEMMA StopFinishStep ==
  ASSUME Inv, NEW t \in Threads, StopFinish(t)
  PROVE  Inv'
<1>1. ThreadTypeOK /\ LocalsMeet(t) /\ pc[t] \in FreePcs \ {"suspended"}
  BY ThreadFacts DEF StopFinish, FreePcs
<1>2. FreeMove(t)
  BY <1>1, ReturnMove DEF StopFinish, FreePcs, PlainPcs
<1>3. Keeps(waiterStatus, waiterStatus') /\ QueueTypeOK' /\ ConsumerTypeOK' /\ MsgTypeOK'
  BY KeepsReflexive DEF Inv, TypeOK, QueueTypeOK, ConsumerTypeOK, MsgTypeOK, StopFinish, queueVars,
     consumerVars, msgVars
<1>4. SessionTypeOK'
  BY SessionUpdates DEF Inv, TypeOK, SessionTypeOK, StopFinish
<1> QED
  BY <1>1, <1>2, <1>3, <1>4, FreeInv

(* iesq_initWaiter connects a consumer and does not lock.                  *)
LEMMA CreateConsumerStep ==
  ASSUME Inv, NEW t \in Threads, NEW c \in Consumers, CreateConsumer(t, c)
  PROVE  Inv'
<1>1. ThreadTypeOK /\ LocalsMeet(t) /\ pc[t] \in FreePcs \ {"suspended"}
  BY ThreadFacts DEF CreateConsumer, Begin, FreePcs
<1>2. FreeMove(t)
  <2>1. pc[t] = "idle" /\ UNCHANGED <<cb, stack>>
    BY DEF CreateConsumer, Begin
  <2>2. CASE waiterStatus = WS_DISCONNECTED
    <3>1. pc' = [pc EXCEPT ![t] = "createConnect"] /\ loc' = [loc EXCEPT ![t].con = c]
      BY <2>2 DEF CreateConsumer, Goto
    <3>2. /\ loc' \in [Threads -> Locals]
          /\ loc'[t].con = c
          /\ \A u \in Threads : u # t => loc'[u] = loc[u]
      <4>1. loc \in [Threads -> Locals]
        BY <1>1 DEF ThreadTypeOK
      <4> QED
        BY <3>1, <4>1 DEF Locals
    <3>3. ThreadTypeOK' /\ OthersStay(t) /\ pc'[t] = "createConnect"
      BY <1>1, <2>1, <3>1, <3>2 DEF ThreadTypeOK, OthersStay, FreePcs
    <3> QED
      BY <2>1, <3>2, <3>3 DEF FreeMove, LocalsMeet, FreePcs
  <2>3. CASE waiterStatus # WS_DISCONNECTED
    <3>1. UNCHANGED <<pc, loc>>
      BY <2>3 DEF CreateConsumer
    <3>2. ThreadTypeOK' /\ OthersStay(t) /\ LocalsMeet(t)'
      BY <1>1, <2>1, <3>1 DEF ThreadTypeOK, OthersStay, LocalsMeet
    <3> QED
      BY <2>1, <3>1, <3>2 DEF FreeMove, FreePcs
  <2> QED
    BY <2>2, <2>3
<1>3. SessionTypeOK'
  BY DEF Inv, TypeOK, SessionTypeOK, CreateConsumer
<1>4. Keeps(waiterStatus, waiterStatus')
  BY InitKeeps DEF Inv, TypeOK, QueueTypeOK, CreateConsumer
<1>5. ConsumerTypeOK'
  BY DEF Inv, TypeOK, ConsumerTypeOK, CreateConsumer
<1>6. MsgTypeOK'
  BY BeginType DEF Inv, TypeOK, MsgTypeOK, CreateConsumer, msgVars, Ops
<1>7. QueueTypeOK'
  BY InitKeeps DEF Inv, TypeOK, QueueTypeOK, CreateConsumer
<1> QED
  BY <1>1, <1>2, <1>3, <1>4, <1>5, <1>6, <1>7, FreeInv

(* The queue points to the new consumer.                                   *)
LEMMA ConnectConsumerStep ==
  ASSUME Inv, NEW t \in Threads, ConnectConsumer(t)
  PROVE  Inv'
<1>1. ThreadTypeOK /\ LocalsMeet(t) /\ pc[t] \in FreePcs \ {"suspended"}
  BY ThreadFacts DEF ConnectConsumer, FreePcs
<1>2. FreeMove(t)
  BY <1>1, CarryMove DEF ConnectConsumer, FreePcs, LocalsMeet
<1>3. Keeps(waiterStatus, waiterStatus') /\ ConsumerTypeOK' /\ SessionTypeOK' /\ MsgTypeOK'
  BY KeepsReflexive DEF Inv, TypeOK, ConsumerTypeOK, SessionTypeOK, MsgTypeOK, ConnectConsumer,
     consumerVars, msgVars
<1>4. QueueTypeOK'
  BY <1>1 DEF Inv, TypeOK, QueueTypeOK, ConnectConsumer, LocalsMeet
<1> QED
  BY <1>1, <1>2, <1>3, <1>4, FreeInv

(* The new consumer joins the session.                                     *)
LEMMA CreateLinkStep ==
  ASSUME Inv, NEW t \in Threads, NEW paused \in BOOLEAN, CreateLink(t, paused)
  PROVE  Inv'
<1>1. ThreadTypeOK /\ LocalsMeet(t) /\ pc[t] \in FreePcs \ {"suspended"}
  BY ThreadFacts DEF CreateLink, FreePcs
<1>2. FreeMove(t)
  <2>1. pc[t] = "createLink" /\ UNCHANGED cb
    BY DEF CreateLink
  <2>2. CASE session.destroyed
    <3>1. Return(t)
      BY <2>2 DEF CreateLink
    <3> QED
      BY <1>1, <2>1, <3>1, ReturnMove DEF FreePcs
  <2>3. CASE ~session.destroyed /\ session.started /\ ~paused
    <3>1. Call(t, "acquire", "createUnlock") /\ UNCHANGED loc
      BY <2>3 DEF CreateLink
    <3> QED
      BY <1>1, <2>1, <3>1, CallMove DEF FreePcs, PlainPcs, ReturnPcs
  <2>4. CASE ~session.destroyed /\ ~(session.started /\ ~paused)
    <3>1. Goto(t, "createDone") /\ UNCHANGED <<stack, loc>>
      BY <2>4 DEF CreateLink
    <3> QED
      BY <1>1, <2>1, <3>1, GotoMove DEF FreePcs, PlainPcs
  <2> QED
    BY <2>2, <2>3, <2>4
<1>3. Keeps(waiterStatus, waiterStatus') /\ QueueTypeOK' /\ MsgTypeOK'
  BY KeepsReflexive DEF Inv, TypeOK, QueueTypeOK, MsgTypeOK, CreateLink, queueVars, msgVars
<1>4. ConsumerTypeOK'
  BY <1>1 DEF Inv, TypeOK, ConsumerTypeOK, CreateLink, consumerVars
<1>5. SessionTypeOK'
  <2> DEFINE s == [session EXCEPT !.list = <<loc[t].con>> \o @, !.useCount = @ + 1,
                                 !.preNackAll = @ + 1]
  <2>1. session \in SessionRecord /\ session.list \in Seq(Consumers)
    BY DEF Inv, TypeOK, SessionTypeOK, SessionRecord
  <2>2. <<loc[t].con>> \o session.list \in Seq(Consumers)
    BY <1>1, <2>1, PushType DEF CreateLink, LocalsMeet
  <2>3. s \in SessionRecord
    <3> DEFINE list == <<loc[t].con>> \o session.list
    <3>1. session.useCount + 1 \in Int /\ session.preNackAll + 1 \in Int
      BY <2>1 DEF SessionRecord
    <3>2. s = [session EXCEPT !.list = list, !.useCount = @ + 1, !.preNackAll = @ + 1]
      OBVIOUS
    <3>3. list \in Seq(Consumers)
      BY <2>2
    <3> HIDE DEF list, s
    <3> QED
      BY <2>1, <3>1, <3>2, <3>3 DEF SessionRecord
  <2>4. session' \in {session, s, [s EXCEPT !.lock = t]}
    BY DEF CreateLink
  <2> HIDE DEF s
  <2> QED
    BY <2>1, <2>3, <2>4, SessionUpdates DEF SessionTypeOK
<1> QED
  BY <1>1, <1>2, <1>3, <1>4, <1>5, FreeInv

(* The session is unlocked and the new waiter checked.                     *)
LEMMA CreateUnlockStep ==
  ASSUME Inv, NEW t \in Threads, CreateUnlock(t)
  PROVE  Inv'
<1>1. ThreadTypeOK /\ LocalsMeet(t) /\ pc[t] \in FreePcs \ {"suspended"}
  BY ThreadFacts DEF CreateUnlock, FreePcs
<1>2. FreeMove(t)
  BY <1>1, CallMove DEF CreateUnlock, ReturnPcs, FreePcs, PlainPcs
<1>3. Keeps(waiterStatus, waiterStatus') /\ QueueTypeOK' /\ ConsumerTypeOK' /\ MsgTypeOK'
  BY KeepsReflexive DEF Inv, TypeOK, QueueTypeOK, ConsumerTypeOK, MsgTypeOK, CreateUnlock,
     queueVars, consumerVars, msgVars
<1>4. SessionTypeOK'
  BY DEF Inv, TypeOK, SessionTypeOK, CreateUnlock, SessionRecord
<1> QED
  BY <1>1, <1>2, <1>3, <1>4, FreeInv

(* ism_engine_createConsumer returns.                                      *)
LEMMA CreateDoneStep ==
  ASSUME Inv, NEW t \in Threads, CreateDone(t)
  PROVE  Inv'
<1>1. ThreadTypeOK /\ LocalsMeet(t) /\ pc[t] \in FreePcs \ {"suspended"}
  BY ThreadFacts DEF CreateDone, FreePcs
<1>2. FreeMove(t)
  BY <1>1, ReturnMove DEF CreateDone, FreePcs, PlainPcs
<1>3. Keeps(waiterStatus, waiterStatus') /\ QueueTypeOK' /\ SessionTypeOK' /\ MsgTypeOK'
  BY KeepsReflexive DEF Inv, TypeOK, QueueTypeOK, SessionTypeOK, MsgTypeOK, CreateDone, queueVars,
     msgVars
<1>4. ConsumerTypeOK'
  BY DEF Inv, TypeOK, ConsumerTypeOK, CreateDone
<1> QED
  BY <1>1, <1>2, <1>3, <1>4, FreeInv

(* ism_engine_destroyConsumer unlinks the consumer.                        *)
LEMMA DestroyConsumerStep ==
  ASSUME Inv, NEW t \in Threads, NEW c \in Consumers, DestroyConsumer(t, c)
  PROVE  Inv'
<1>1. ThreadTypeOK /\ LocalsMeet(t) /\ pc[t] \in FreePcs \ {"suspended"}
  BY ThreadFacts DEF DestroyConsumer, Begin, FreePcs
<1>2. FreeMove(t)
  <2> DEFINE s == <<[FrameAt(t, "release") EXCEPT !.con = c]>> \o stack[t]
  <2>1. s \in Seq(Frame)
    BY <1>1, WalkStack DEF ReturnPcs
  <2>2. /\ pc[t] = "idle"
        /\ Goto(t, "disable")
        /\ loc' = [loc EXCEPT ![t].con = c]
        /\ stack' = [stack EXCEPT ![t] = s]
        /\ UNCHANGED cb
    BY DEF DestroyConsumer, Begin
  <2> HIDE DEF s
  <2> QED
    BY <1>1, <2>1, <2>2, WalkMove DEF FreePcs, PlainPcs
<1>3. Keeps(waiterStatus, waiterStatus') /\ QueueTypeOK'
  BY KeepsReflexive DEF Inv, TypeOK, QueueTypeOK, DestroyConsumer, queueVars
<1>4. ConsumerTypeOK'
  BY DEF Inv, TypeOK, ConsumerTypeOK, DestroyConsumer
<1>5. MsgTypeOK'
  BY BeginType DEF Inv, TypeOK, MsgTypeOK, DestroyConsumer, msgVars, Ops
<1>6. SessionTypeOK'
  <2>1. session \in SessionRecord /\ session.list \in Seq(Consumers)
    BY DEF Inv, TypeOK, SessionTypeOK, SessionRecord
  <2>2. Without(session.list, c) \in Seq(Consumers)
    BY <2>1, WithoutType
  <2>3. session' = [session EXCEPT !.list = Without(session.list, c)]
    BY DEF DestroyConsumer
  <2> QED
    BY <2>1, <2>2, <2>3 DEF SessionTypeOK, SessionRecord
<1> QED
  BY <1>1, <1>2, <1>3, <1>4, <1>5, <1>6, FreeInv

(* ism_engine_destroySession begins.                                       *)
LEMMA DestroySessionStep ==
  ASSUME Inv, NEW t \in Threads, DestroySession(t)
  PROVE  Inv'
<1>1. ThreadTypeOK /\ LocalsMeet(t) /\ pc[t] \in FreePcs \ {"suspended"}
  BY ThreadFacts DEF DestroySession, Begin, FreePcs
<1>2. FreeMove(t)
  BY <1>1, CallMove DEF DestroySession, ReturnPcs, FreePcs, PlainPcs
<1>3. Keeps(waiterStatus, waiterStatus') /\ QueueTypeOK' /\ ConsumerTypeOK'
  BY KeepsReflexive DEF Inv, TypeOK, QueueTypeOK, ConsumerTypeOK, DestroySession, queueVars,
     consumerVars
<1>4. SessionTypeOK'
  BY DEF Inv, TypeOK, SessionTypeOK, DestroySession, SessionRecord
<1>5. MsgTypeOK'
  BY BeginType DEF Inv, TypeOK, MsgTypeOK, DestroySession, msgVars, Ops
<1> QED
  BY <1>1, <1>2, <1>3, <1>4, <1>5, FreeInv

(* The session and its consumers are marked destroyed.                     *)
LEMMA SessionMarkDestroyedStep ==
  ASSUME Inv, NEW t \in Threads, SessionMarkDestroyed(t)
  PROVE  Inv'
<1>1. ThreadTypeOK /\ LocalsMeet(t) /\ pc[t] \in FreePcs \ {"suspended"}
  BY ThreadFacts DEF SessionMarkDestroyed, FreePcs
<1>2. FreeMove(t)
  <2>1. /\ pc[t] = "sessMark"
        /\ pc' = [pc EXCEPT ![t] = "sessNack"]
        /\ UNCHANGED <<cb, loc>>
    BY DEF SessionMarkDestroyed, Goto
  <2>2. stack' \in [Threads -> Seq(Frame)]
    <3>1. CASE session.started
      <4>1. FrameAt(t, "stopDone") \in Frame
        BY <1>1, FrameAtType DEF ReturnPcs
      <4>2. stack' = [stack EXCEPT ![t] = <<FrameAt(t, "stopDone")>> \o @]
        BY <3>1 DEF SessionMarkDestroyed, Push
      <4> QED
        BY <1>1, <4>1, <4>2, StackType
    <3>2. CASE ~session.started
      BY <1>1, <3>2 DEF SessionMarkDestroyed, ThreadTypeOK
    <3> QED
      BY <3>1, <3>2
  <2>3. ThreadTypeOK' /\ OthersStay(t) /\ pc'[t] = "sessNack"
    BY <1>1, <2>1, <2>2 DEF ThreadTypeOK, OthersStay, FreePcs
  <2> QED
    BY <2>1, <2>3 DEF FreeMove, LocalsMeet, FreePcs
<1>3. Keeps(waiterStatus, waiterStatus') /\ QueueTypeOK' /\ MsgTypeOK'
  BY KeepsReflexive DEF Inv, TypeOK, QueueTypeOK, MsgTypeOK, SessionMarkDestroyed, queueVars,
     msgVars
<1>4. ConsumerTypeOK'
  BY DEF Inv, TypeOK, ConsumerTypeOK, SessionMarkDestroyed
<1>5. SessionTypeOK'
  BY DEF Inv, TypeOK, SessionTypeOK, SessionMarkDestroyed, SessionRecord
<1> QED
  BY <1>1, <1>2, <1>3, <1>4, <1>5, FreeInv

(* The session drops its count of unacknowledged work.                     *)
LEMMA SessionReducePreNackAllStep ==
  ASSUME Inv, NEW t \in Threads, SessionReducePreNackAll(t)
  PROVE  Inv'
<1>1. ThreadTypeOK /\ LocalsMeet(t) /\ pc[t] \in FreePcs \ {"suspended"}
  BY ThreadFacts DEF SessionReducePreNackAll, FreePcs
<1>2. FreeMove(t)
  BY <1>1, GotoMove DEF SessionReducePreNackAll, FreePcs, PlainPcs
<1>3. Keeps(waiterStatus, waiterStatus') /\ QueueTypeOK' /\ ConsumerTypeOK' /\ MsgTypeOK'
  BY KeepsReflexive DEF Inv, TypeOK, QueueTypeOK, ConsumerTypeOK, MsgTypeOK,
     SessionReducePreNackAll, queueVars, consumerVars, msgVars
<1>4. SessionTypeOK'
  BY SessionUpdates DEF Inv, TypeOK, SessionTypeOK, SessionReducePreNackAll
<1> QED
  BY <1>1, <1>2, <1>3, <1>4, FreeInv

(* The next consumer of the session is destroyed.                          *)
LEMMA SessionNextConsumerStep ==
  ASSUME Inv, NEW t \in Threads, SessionNextConsumer(t)
  PROVE  Inv'
<1>1. ThreadTypeOK /\ LocalsMeet(t) /\ pc[t] \in FreePcs \ {"suspended"}
  BY ThreadFacts DEF SessionNextConsumer, FreePcs
<1>2. FreeMove(t)
  <2> DEFINE c == NextConsumer(loc[t].con)
             r == [FrameAt(t, "release") EXCEPT !.con = c]
             n == [FrameAt(t, "sessNext") EXCEPT !.con = c]
             s == <<r, n>> \o stack[t]
  <2>1. c \in Consumers \cup {NoConsumer}
    BY NextConsumerType DEF Inv, TypeOK
  <2>2. s \in Seq(Frame)
    <3>1. r \in Frame /\ n \in Frame
      BY <1>1, <2>1, FrameAtType DEF Frame, ReturnPcs
    <3>2. stack[t] \in Seq(Frame)
      BY <1>1 DEF ThreadTypeOK
    <3> HIDE DEF r, n
    <3>3. <<r, n>> \in Seq(Frame)
      BY <3>1
    <3> QED
      BY <3>2, <3>3, ConcatProperties
  <2>3. pc[t] = "sessNext" /\ UNCHANGED cb
    BY DEF SessionNextConsumer
  <2>4. CASE c # NoConsumer
    <3>1. /\ Goto(t, "disable")
          /\ loc' = [loc EXCEPT ![t].con = c]
          /\ stack' = [stack EXCEPT ![t] = s]
      BY <2>4 DEF SessionNextConsumer
    <3> HIDE DEF c, s
    <3> QED
      BY <1>1, <2>1, <2>2, <2>3, <3>1, WalkMove DEF FreePcs, PlainPcs
  <2>5. CASE c = NoConsumer
    <3>1. Return(t)
      BY <2>5 DEF SessionNextConsumer
    <3> QED
      BY <1>1, <2>3, <3>1, ReturnMove DEF FreePcs
  <2> QED
    BY <2>4, <2>5
<1>3. Keeps(waiterStatus, waiterStatus') /\ QueueTypeOK' /\ ConsumerTypeOK' /\ SessionTypeOK' /\
   MsgTypeOK'
  BY KeepsReflexive DEF Inv, TypeOK, QueueTypeOK, ConsumerTypeOK, SessionTypeOK, MsgTypeOK,
     SessionNextConsumer, queueVars, consumerVars, msgVars
<1> QED
  BY <1>1, <1>2, <1>3, FreeInv

(* The session's own reference is released.                                *)
LEMMA SessionReleaseStep ==
  ASSUME Inv, NEW t \in Threads, SessionRelease(t)
  PROVE  Inv'
<1>1. ThreadTypeOK /\ LocalsMeet(t) /\ pc[t] \in FreePcs \ {"suspended"}
  BY ThreadFacts DEF SessionRelease, FreePcs
<1>2. FreeMove(t)
  BY <1>1, ReturnMove DEF SessionRelease, FreePcs, PlainPcs
<1>3. Keeps(waiterStatus, waiterStatus') /\ QueueTypeOK' /\ ConsumerTypeOK' /\ MsgTypeOK'
  BY KeepsReflexive DEF Inv, TypeOK, QueueTypeOK, ConsumerTypeOK, MsgTypeOK, SessionRelease,
     queueVars, consumerVars, msgVars
<1>4. SessionTypeOK'
  BY DEF Inv, TypeOK, SessionTypeOK, SessionRelease, SessionRecord
<1> QED
  BY <1>1, <1>2, <1>3, <1>4, FreeInv

-----------------------------------------------------------------------------
(* The environment's steps and the theorems.                               *)

(* A step in which no thread moves and the waiter status stays.            *)
LEMMA ThreadsStill ==
  ASSUME Inv, UNCHANGED <<waiterStatus, pc, cb, loc>>
  PROVE  LockInv'
<1>1. \A t \in Threads : ThreadInv(t)'
  <2> TAKE t \in Threads
  <2>1. ThreadInv(t)
    BY DEF Inv, LockInv
  <2>2. LocalsMeet(t)'
    BY <2>1 DEF ThreadInv, LocalsMeet
  <2>3. StatusMeets(t)'
    BY <2>1, StatusMeetsKept, KeepsReflexive DEF ThreadInv
  <2> QED
    BY <2>1, <2>2, <2>3 DEF ThreadInv
<1>2. LockExclusion' /\ CancelHasDisable(waiterStatus')
  BY DEF Inv, LockInv, LockExclusion, Owner
<1> QED
  BY <1>1, <1>2 DEF LockInv

(* iesq_deleteQ drops the reference of the queue's creation.               *)
LEMMA DeleteQStep ==
  ASSUME Inv, NEW t \in Threads, DeleteQ(t)
  PROVE  Inv'
<1>1. LockInv'
  BY ThreadsStill DEF DeleteQ, threadVars
<1>2. QueueTypeOK' /\ ConsumerTypeOK' /\ SessionTypeOK' /\ ThreadTypeOK'
  BY DEF Inv, TypeOK, QueueTypeOK, ConsumerTypeOK, SessionTypeOK, ThreadTypeOK, DeleteQ,
         consumerVars, threadVars
<1>3. MsgTypeOK'
  BY BeginType DEF Inv, TypeOK, MsgTypeOK, DeleteQ, msgVars, Ops
<1> QED
  BY <1>1, <1>2, <1>3 DEF Inv, TypeOK

(* The clock passes the expiry of a message.                               *)
LEMMA ExpiryTimePassesStep ==
  ASSUME Inv, NEW m \in Msgs, ExpiryTimePasses(m)
  PROVE  Inv'
<1>1. LockInv'
  BY ThreadsStill DEF ExpiryTimePasses, threadVars, queueVars
<1>2. QueueTypeOK' /\ ConsumerTypeOK' /\ SessionTypeOK' /\ ThreadTypeOK'
  BY DEF Inv, TypeOK, QueueTypeOK, ConsumerTypeOK, SessionTypeOK, ThreadTypeOK, ExpiryTimePasses,
         queueVars, consumerVars, threadVars
<1>3. MsgTypeOK'
  BY DEF Inv, TypeOK, MsgTypeOK, ExpiryTimePasses
<1> QED
  BY <1>1, <1>2, <1>3 DEF Inv, TypeOK

(* A stuttering step.                                                      *)
LEMMA StutterStep ==
  ASSUME Inv, UNCHANGED vars
  PROVE  Inv'
<1>1. LockInv'
  BY ThreadsStill DEF vars, threadVars, queueVars
<1>2. TypeOK'
  BY DEF Inv, TypeOK, QueueTypeOK, ConsumerTypeOK, SessionTypeOK, ThreadTypeOK, MsgTypeOK, vars,
         queueVars, consumerVars, threadVars, msgVars
<1> QED
  BY <1>1, <1>2 DEF Inv

(* The invariant holds when the engine starts with an empty queue.         *)
LEMMA InitInv == Init => Inv
<1> SUFFICES ASSUME Init PROVE Inv
  OBVIOUS
<1>1. QueueTypeOK
  BY StatusFacts, EmptySeq DEF Init, QueueTypeOK
<1>2. ConsumerTypeOK /\ MsgTypeOK
  BY ConstantsAssumption DEF Init, ConsumerTypeOK, MsgTypeOK
<1>3. SessionTypeOK
  BY EmptySeq DEF Init, SessionTypeOK, InitSession, SessionRecord
<1>4. ThreadTypeOK
  <2>1. InitLoc \in Locals
    BY DEF InitLoc, Locals, FreePcs, Status
  <2> QED
    BY <2>1, EmptySeq DEF Init, ThreadTypeOK, FreePcs
<1>5. \A t \in Threads : pc[t] = "idle" /\ cb[t] = NoCb
  BY DEF Init
<1>6. \A t \in Threads : ~Owner(t) /\ ThreadInv(t)
  BY <1>5 DEF Owner, ThreadInv, LocalsMeet, StatusMeets, LockPcs
<1>7. ~IsLocked(waiterStatus) /\ CancelHasDisable(waiterStatus)
  BY StatusBits DEF Init, CancelHasDisable, WS_DISCONNECTED
<1> QED
  BY <1>1, <1>2, <1>3, <1>4, <1>6, <1>7 DEF Inv, TypeOK, LockInv, LockExclusion

(* A step of a thread inside the engine.                                   *)
LEMMA StepInv ==
  ASSUME Inv, NEW t \in Threads, Step(t)
  PROVE  Inv'
<1>1. CASE PutSteps(t)
  BY <1>1, PutTryStep, PutToWaitingGetterStep, EnqueueStep, CountMessageStep,
     AddMessageExpiryDataStep, StoreMessageStep, PostPutStep, PostPutDiscardStep, PutDoneStep
     DEF PutSteps
<1>2. CASE GetSteps(t)
  BY <1>2, CheckWaitersStep, CheckLockStep, GetMessageStep, StateToDeliveringStep,
     DeliverMessageStep, ReenableWaiterStep, PendDisableStep, QueueEmptyStep DEF GetSteps
<1>3. CASE CallbackSteps(t)
  BY <1>3, LeaveCallbackStep, SuspendMessageDeliveryStep, SuspendedCallbackReturnsStep
     DEF CallbackSteps, CallbackReturnsTrue, CallbackReturnsFalse
<1>4. CASE CompleteSteps(t)
  BY <1>4, CompleteWaiterActionsStep, CompleteUnlockStep, WaiterDisabledCallbackStep,
     WaiterDisabledEndStopStep, ClearReclaimStep, DisablingStep, DisconnectConsumerStep,
     DisconnectingStep, WaiterRemovedCallbackStep, ReducePreDeleteCountStep DEF CompleteSteps
<1>5. CASE QOperationSteps(t)
  BY <1>5, LockForReclaimStep, ReclaimSpaceStep, UnlockAfterQOperationStep, LockForReapStep,
     ReapWorkStep, ReapLockBusyStep, ReapDoneStep DEF QOperationSteps
<1>6. CASE WaiterSteps(t)
  BY <1>6, AcquireForEnableStep, EnableWaiterStep, EnableUndoStep, DisableWaiterStep,
     UncancelCallbackStep, UncancelEndStopStep, ReleaseConsumerReferenceStep,
     FinishDestroyConsumerStep, TermWaiterStep DEF WaiterSteps
<1>7. CASE SessionSteps(t)
  BY <1>7, StartNextStep, StartDeliverStep, StartReleaseStep, ResumeCheckStep, StopDisableStep,
     StopNextStep, StopDoneStep, StopFinishStep, ConnectConsumerStep, CreateLinkStep,
     CreateUnlockStep, CreateDoneStep, SessionMarkDestroyedStep, SessionReducePreNackAllStep,
     SessionNextConsumerStep, SessionReleaseStep DEF SessionSteps
<1> QED
  BY <1>1, <1>2, <1>3, <1>4, <1>5, <1>6, <1>7 DEF Step

(* A thread enters the engine.                                             *)
LEMMA RequestInv ==
  ASSUME Inv, NEW t \in Threads, Request(t)
  PROVE  Inv'
BY PutMessageStep, ReapExpiredMessagesStep, StartMessageDeliveryStep, StopMessageDeliveryStep,
   ResumeMessageDeliveryStep, CreateConsumerStep, DestroyConsumerStep, DestroySessionStep,
   DeleteQStep DEF Request

(* The invariant is inductive.                                             *)
LEMMA NextInv == Inv /\ [Next]_vars => Inv'
<1> SUFFICES ASSUME Inv, [Next]_vars PROVE Inv'
  OBVIOUS
<1>1. CASE \E t \in Threads : Step(t) \/ Request(t)
  BY <1>1, StepInv, RequestInv
<1>2. CASE \E m \in Msgs : ExpiryTimePasses(m)
  BY <1>2, ExpiryTimePassesStep
<1>3. CASE Idle
  BY <1>3, StutterStep DEF Idle
<1>4. CASE UNCHANGED vars
  BY <1>4, StutterStep
<1> QED
  BY <1>1, <1>2, <1>3, <1>4 DEF Next

(* What the owner of the lock finds is what OwnerStatus says.              *)
LEMMA InvOwnerStatus == Inv => OwnerStatus
<1> SUFFICES ASSUME Inv PROVE OwnerStatus
  OBVIOUS
<1>1. ASSUME NEW t \in Threads PROVE waiterStatus \in Shape(t)
  <2>1. StatusMeets(t) /\ waiterStatus \in Status
    BY ThreadFacts
  <2>2. pc[t] \in {"waiterDisabledCB", "endStop"} => waiterStatus \in PendingStatus
    BY <2>1, ShapesAreLocked DEF StatusMeets
  <2> QED
    BY <2>1, <2>2 DEF StatusMeets, Shape, GetShape, DeliverShape, DisableShape, DisconnectShape,
       QOpShape
<1> QED
  BY <1>1 DEF OwnerStatus, Inv, LockInv, ThreadInv, CancelHasDisable

----------------------------------------------------------------------------
(* Type correctness: in particular the waiter status never leaves the      *)
(* statuses that waiterStatus.h names, whatever threads do to it.          *)
THEOREM TypeCorrect == Spec => []TypeOK
<1>1. Inv => TypeOK
  BY DEF Inv
<1> QED
  BY <1>1, InitInv, NextInv, PTL DEF Spec

(* Mutual exclusion: the waiter status says "locked" exactly while one     *)
(* thread is in the code of simpQ.c and waiterStatus.c that it protects,   *)
(* and no two threads ever are, however many put, get, start, stop, resume *)
(* and destroy at once.                                                    *)
THEOREM MutualExclusion == Spec => []LockExclusion
<1>1. Inv => LockExclusion
  BY DEF Inv, LockInv
<1> QED
  BY <1>1, InitInv, NextInv, PTL DEF Spec

(* The owner of the lock always finds a status its code is written for:    *)
(* the asserts of checkWaiters and completeWaiterActions and the FFDC of   *)
(* unlockAfterQOperation are never reached.                                *)
THEOREM OwnerStatusSafe == Spec => []OwnerStatus
BY InvOwnerStatus, InitInv, NextInv, PTL DEF Spec
=============================================================================
