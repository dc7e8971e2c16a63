------------------------ MODULE ConsumerWakeupProofs ------------------------
(***************************************************************************)
(* The proof that a simple queue never forgets what is left to do on it:   *)
(* when all threads have left, no message waits for a consumer that could  *)
(* have it, the count of messages is exact, no discard is due, and every   *)
(* message that expires is known to the reaper.                            *)
(*                                                                         *)
(* The argument is the same for a message as for a discard: while there is *)
(* something to do some thread is on its way to it.  Who that is depends   *)
(* on the callers on the thread's stack, and for the consumers a start has *)
(* enabled on who may hold the session lock.                               *)
(***************************************************************************)
EXTENDS ConsumerDeliveryProofs

-----------------------------------------------------------------------------
(* Where a thread is: the point it is at, the callers below it and those   *)
(* below the callback it is in.                                            *)

(* Some frame of the stack s returns to one of the points P.               *)
Has(s, P) == \E i \in DOMAIN s : s[i].pc \in P

(* At most one does.                                                       *)
Single(s, P) == \A i, j \in DOMAIN s : s[i].pc \in P /\ s[j].pc \in P => i = j

HasBelow(t, P) == cb[t] # NoCb /\ Has(cb[t].stack, P)

(* The code that runs under the session lock returns to one of these.      *)
LockedPcs == {"startNext", "stopNext", "resumeCheck", "createUnlock"}

(* A thread that comes to one of these looks at the queue.                 *)
WakePcs == {"check", "checkLock", "resumeCheck", "createUnlock"}

(* The session lock is held by who is in code that it protects, and a      *)
(* thread that gives it up has nothing left to do under it.                *)
HoldsSession(t) ==
  /\ InCall(t, LockedPcs) => session.lock = t
  /\ Single(stack[t], LockedPcs)
  /\ pc[t] \in LockedPcs => ~Has(stack[t], LockedPcs)
  /\ cb[t] # NoCb => Single(cb[t].stack, LockedPcs)
  /\ HasBelow(t, LockedPcs) => pc[t] \notin LockedPcs /\ ~Has(stack[t], LockedPcs)

(* Completing what was left for the owner: so far, and looking again only  *)
(* if the caller does.                                                     *)
MayUnlock(t) ==
  \/ pc[t] \in {"complete", "waiterDisabledCB", "endStop", "completeUnlock", "disabling"}
  \/ pc[t] = "reclaim" /\ loc[t].after \in {"completeUnlock", "disabling"}

(* What a thread has on its stack and in hand where it matters.            *)
StackMeets(t) ==
  /\ pc[t] \in {"idle", "suspended"} => stack[t] = << >>
  /\ pc[t] \in {"idle", "suspended", "stopDisable", "sessMark", "sessNack"} => loc[t].con = NoConsumer
  /\ pc[t] \in {"acquire", "enable"} => Has(stack[t], WakePcs \cup {"startNext"})
  /\ MayUnlock(t) /\ ~loc[t].deliver => Has(stack[t], WakePcs)

(* A start that visits the consumers.  Under the session lock nobody stops *)
(* delivery, and who destroys the session has still to wait for the lock.  *)
Starting(t) ==
  /\ InCall(t, {"startNext"}) =>
       /\ session.started /\ ~session.stopping
       /\ session.destroyed => \E u \in Threads : pc[u] = "sessMark"
  /\ Has(stack[t], {"startNext"}) \/ HasBelow(t, {"startNext"}) => session.list # << >>

ControlInv == \A t \in Threads : HoldsSession(t) /\ StackMeets(t) /\ Starting(t)

-----------------------------------------------------------------------------
(* The nodes of the queue *)

(* A put has taken its node and not stored its message yet.                *)
FillPcs == {"count", "addExpiry", "store"}

(* The messages in the queue.                                              *)
Live == {nodes[i].msg : i \in {j \in DOMAIN nodes : nodes[j].state # "removed"}}

Counting == {t \in Threads : pc[t] = "count"}

(* Every message is put by one thread and has one node.                    *)
PutsApart ==
  /\ \A t \in Threads : pc[t] \in PutPcs => loc[t].cur \in Msgs /\ fate[loc[t].cur] # "unsent"
  /\ \A t, u \in Threads :
       pc[t] \in PutPcs /\ pc[u] \in PutPcs /\ loc[t].cur = loc[u].cur => t = u
  /\ \A i \in DOMAIN nodes : fate[nodes[i].msg] # "unsent"
  /\ \A i, j \in DOMAIN nodes : nodes[i].msg = nodes[j].msg => i = j
  /\ \A t \in Threads : pc[t] \in PutPcs \ FillPcs =>
       \A i \in DOMAIN nodes : nodes[i].msg # loc[t].cur

(* A node is empty exactly while its put is about to fill it.              *)
EmptyNodes ==
  /\ \A i \in DOMAIN nodes : nodes[i].state = "empty" =>
       \E t \in Threads : pc[t] \in FillPcs /\ loc[t].cur = nodes[i].msg
  /\ \A t \in Threads : pc[t] \in FillPcs => \E i \in DOMAIN nodes : nodes[i] = Node(loc[t].cur)

CountExact ==
  /\ IsFiniteSet(Counting) 
  /\ bufferedMsgs + Cardinality(Counting) = Cardinality(Live)

ExpiryExact ==
  /\ \A t \in Threads : pc[t] = "addExpiry" => loc[t].cur \in Expiring
  /\ expiryData = {m \in Expiring \cap Live :
                     ~\E t \in Threads : pc[t] \in {"count", "addExpiry"} /\ loc[t].cur = m}

NodeInv == PutsApart /\ EmptyNodes /\ CountExact /\ ExpiryExact

-----------------------------------------------------------------------------
(* Who will look at the queue *)

Ready == HeadReady(SkipRemoved(nodes))

(* Thread t is going to look at the queue, or to disable the waiter.       *)
Wakes(t) ==
  \/ InCall(t, WakePcs)
  \/ pc[t] = "disable"
  \/ /\ session.list # << >>
     /\ \/ InCall(t, {"startNext"}) /\ ~session.destroyed
        \/ /\ pc[t] = "startDeliver" /\ loc[t].con = NoConsumer
           /\ session.started /\ ~session.stopping /\ ~session.destroyed
        \/ pc[t] \in {"stopDisable", "sessMark", "sessNack"}
        \/ pc[t] \in {"stopNext", "sessNext"} /\ loc[t].con = NoConsumer

(* The waiter is enabled, or its owner has seen an empty queue and is      *)
(* about to enable it.                                                     *)
WaiterOpen ==
  \/ waiterStatus = WS_ENABLED
  \/ waiterStatus = WS_GETTING /\ \E t \in Threads : pc[t] = "empty"

WakeInv == WaiterOpen /\ Ready => \E t \in Threads : Wakes(t)

(* Thread t is going to see whether messages have to be discarded.         *)
Discards(t) ==
  pc[t] \in FillPcs \cup {"reclaimLock", "reclaim"} \/ InCall(t, {"postput", "postput2"})

DiscardInv ==
  MaxMsgBehavior = "DiscardOldMessages" /\ MaxMsgCount > 0 /\ bufferedMsgs > MaxMsgCount =>
    RECLAIMSPACE_PEND \in waiterStatus \/ \E t \in Threads : Discards(t)

RestInv == ControlInv /\ NodeInv /\ WakeInv /\ DiscardInv

-----------------------------------------------------------------------------
(* Stacks *)

(* A thread has callers to return to at one of the points P.               *)
Rest(t, P) == Has(stack[t], P) \/ HasBelow(t, P)

(* The part of HoldsSession that is about the thread alone.                *)
Solo(t) ==
  /\ Single(stack[t], LockedPcs)
  /\ pc[t] \in LockedPcs => ~Has(stack[t], LockedPcs)
  /\ cb[t] # NoCb => Single(cb[t].stack, LockedPcs)
  /\ HasBelow(t, LockedPcs) => pc[t] \notin LockedPcs /\ ~Has(stack[t], LockedPcs)

(* Being in a call is being at it or returning to it.                      *)
LEMMA InCallRest ==
  ASSUME NEW t, NEW P
  PROVE  InCall(t, P) <=> pc[t] \in P \/ Rest(t, P)
BY DEF InCall, Rest, Has, HasBelow

(* The empty stack.                                                        *)
LEMMA EmptyHas ==
  ASSUME NEW P
  PROVE  ~Has(<< >>, P) /\ Single(<< >>, P)
<1>1. DOMAIN << >> = {}
  BY EmptySeq, LenProperties
<1> QED
  BY <1>1 DEF Has, Single

(* A stack with one more frame.                                            *)
LEMMA PushHas ==
  ASSUME NEW f \in Frame, NEW s \in Seq(Frame), NEW P
  PROVE  /\ Has(<<f>> \o s, P) <=> f.pc \in P \/ Has(s, P)
         /\ Single(s, P) /\ (f.pc \in P => ~Has(s, P)) => Single(<<f>> \o s, P)
         /\ <<f>> \o s # << >>
<1> DEFINE w == <<f>> \o s
<1>1. /\ Len(w) = 1 + Len(s) /\ Len(s) \in Nat /\ w \in Seq(Frame)
      /\ DOMAIN w = 1 .. (1 + Len(s)) /\ DOMAIN s = 1 .. Len(s)
  BY ConcatProperties, LenProperties
<1>2. w[1] = f /\ \A i \in DOMAIN s : w[i + 1] = s[i]
  BY <1>1
<1>3. \A i \in DOMAIN w : i = 1 \/ (i - 1 \in DOMAIN s /\ w[i] = s[i - 1])
  BY <1>1
<1>4. 1 \in DOMAIN w /\ \A i \in DOMAIN s : i + 1 \in DOMAIN w
  BY <1>1
<1>5. w # << >>
  BY <1>1
<1> HIDE DEF w
<1>6. Has(w, P) <=> f.pc \in P \/ Has(s, P)
  BY <1>2, <1>3, <1>4 DEF Has
<1>7. Single(s, P) /\ (f.pc \in P => ~Has(s, P)) => Single(w, P)
  <2> SUFFICES ASSUME Single(s, P), f.pc \in P => ~Has(s, P),
                      NEW i \in DOMAIN w, NEW j \in DOMAIN w, w[i].pc \in P, w[j].pc \in P
               PROVE  i = j
    BY DEF Single
  <2>1. CASE i = 1 /\ j = 1
    BY <2>1
  <2>2. CASE i = 1 /\ j # 1
    BY <2>2, <1>2, <1>3 DEF Has
  <2>3. CASE i # 1 /\ j = 1
    BY <2>3, <1>2, <1>3 DEF Has
  <2>4. CASE i # 1 /\ j # 1
    <3>1. i - 1 = j - 1
      BY <2>4, <1>3 DEF Single
    <3> QED
      BY <3>1, <1>1
  <2> QED
    BY <2>1, <2>2, <2>3, <2>4
<1> QED
  BY <1>5, <1>6, <1>7 DEF w

(* A stack without its first frame.                                        *)
LEMMA PopHas ==
  ASSUME NEW s \in Seq(Frame), s # << >>, NEW P
  PROVE  /\ Has(s, P) <=> Head(s).pc \in P \/ Has(Tail(s), P)
         /\ Single(s, P) => Single(Tail(s), P)
         /\ Single(s, P) /\ Head(s).pc \in P => ~Has(Tail(s), P)
<1> DEFINE r == Tail(s)
<1>1. /\ Len(s) \in Nat /\ Len(s) > 0 /\ DOMAIN s = 1 .. Len(s)
      /\ r \in Seq(Frame) /\ Len(r) = Len(s) - 1 /\ DOMAIN r = 1 .. (Len(s) - 1)
      /\ Head(s) = s[1]
  BY LenProperties, HeadTailProperties, EmptySeq
<1>2. \A i \in DOMAIN r : r[i] = s[i + 1] /\ i + 1 \in DOMAIN s
  BY <1>1, HeadTailProperties
<1>3. \A i \in DOMAIN s : i = 1 \/ (i - 1 \in DOMAIN r /\ s[i] = r[i - 1])
  BY <1>1, HeadTailProperties
<1>4. 1 \in DOMAIN s
  BY <1>1
<1> HIDE DEF r
<1>5. Has(s, P) <=> s[1].pc \in P \/ Has(r, P)
  BY <1>2, <1>3, <1>4 DEF Has
<1>6. ASSUME Single(s, P) PROVE Single(r, P)
  <2> SUFFICES ASSUME NEW i \in DOMAIN r, NEW j \in DOMAIN r, r[i].pc \in P, r[j].pc \in P
               PROVE  i = j
    BY DEF Single
  <2>1. i + 1 = j + 1
    BY <1>2, <1>6 DEF Single
  <2> QED
    BY <2>1, <1>1
<1>7. ASSUME Single(s, P), s[1].pc \in P, Has(r, P) PROVE FALSE
  <2>1. PICK i \in DOMAIN r : r[i].pc \in P
    BY <1>7 DEF Has
  <2>2. i + 1 = 1
    BY <1>2, <1>4, <1>7, <2>1 DEF Single
  <2> QED
    BY <2>1, <2>2, <1>1
<1> QED
  BY <1>1, <1>5, <1>6, <1>7 DEF r

-----------------------------------------------------------------------------
(* Ways to move *)

(* A step of a thread leaves the others where they are, their stacks too.  *)
Alone(t) ==
  /\ ThreadTypeOK'
  /\ \A u \in Threads : u # t =>
       pc'[u] = pc[u] /\ stack'[u] = stack[u] /\ cb'[u] = cb[u] /\ loc'[u] = loc[u]

(* What a step that does not begin or end work under the session lock does *)
(* to the callers of a thread: it comes to them or has them still to come  *)
(* to, and there are no new ones that matter.                              *)
Moved(t) ==
  /\ Alone(t)
  /\ \A P : Rest(t, P) => InCall(t, P)'
  /\ InCall(t, LockedPcs)' => InCall(t, LockedPcs)
  /\ InCall(t, {"startNext"})' => InCall(t, {"startNext"})
  /\ Rest(t, {"startNext"})' => Rest(t, {"startNext"})
  /\ Solo(t) => Solo(t)'

(* The points a thread comes to by a call under the session lock.          *)
LEMMA LockedAreReturns ==
  /\ LockedPcs \subseteq ReturnPcs /\ LockedPcs \subseteq FreePcs
  /\ "startNext" \in LockedPcs
BY DEF LockedPcs, ReturnPcs, FreePcs

(* Going on, with the same callers.                                        *)
LEMMA GotoMoved ==
  ASSUME ThreadTypeOK, ThreadTypeOK', NEW t \in Threads, NEW l, Goto(t, l), l \notin LockedPcs,
         UNCHANGED <<stack, cb>>, \A u \in Threads : u # t => loc'[u] = loc[u]
  PROVE  Moved(t) /\ pc'[t] = l /\ \A P : Rest(t, P)' <=> Rest(t, P)
<1>1. pc' = [pc EXCEPT ![t] = l] /\ pc'[t] = l
  BY DEF Goto, ThreadTypeOK
<1>2. Alone(t)
  BY <1>1 DEF Alone, ThreadTypeOK
<1>3. \A P : Rest(t, P)' <=> Rest(t, P)
  BY DEF Rest, Has, HasBelow
<1>4. \A P : InCall(t, P)' <=> pc'[t] \in P \/ Rest(t, P)'
  BY DEF InCall, Rest, Has, HasBelow
<1>5. \A P : Rest(t, P) => InCall(t, P)
  BY InCallRest
<1>6. Solo(t) => Solo(t)'
  BY <1>1 DEF Solo, Has, Single, HasBelow
<1> QED
  BY <1>1, <1>2, <1>3, <1>4, <1>5, <1>6, LockedAreReturns DEF Moved

(* Returning.                                                              *)
LEMMA ReturnMoved ==
  ASSUME ThreadTypeOK, NEW t \in Threads, Return(t), UNCHANGED cb
  PROVE  /\ Moved(t)
         /\ \A P : InCall(t, P)' => Rest(t, P) \/ "idle" \in P
         /\ stack[t] = << >> => pc'[t] = "idle" /\ stack'[t] = << >> /\ loc'[t] = InitLoc
         /\ stack[t] # << >> => /\ pc'[t] = Head(stack[t]).pc /\ pc'[t] \in ReturnPcs
                                /\ loc'[t].con = Head(stack[t]).con
<1>0. /\ pc' \in [Threads -> LockPcs \cup FreePcs]
      /\ pc' = [pc EXCEPT ![t] = pc'[t]]
      /\ pc'[t] \in ReturnPcs \cup {"idle"}
      /\ stack' \in [Threads -> Seq(Frame)]
      /\ loc' \in [Threads -> Locals]
  BY ReturnType
<1>1. /\ Alone(t)
      /\ stack[t] = << >> => pc'[t] = "idle" /\ stack'[t] = << >> /\ loc'[t] = InitLoc
      /\ stack[t] # << >> => pc'[t] = Head(stack[t]).pc /\ stack'[t] = Tail(stack[t])
                               /\ loc'[t].con = Head(stack[t]).con
  <2>1. ThreadTypeOK' /\ loc \in [Threads -> Locals] /\ stack \in [Threads -> Seq(Frame)]
    BY <1>0 DEF ThreadTypeOK
  <2>2. CASE stack[t] = << >>
    BY <1>0, <2>1, <2>2 DEF Return, Goto, Alone, ThreadTypeOK
  <2>3. CASE stack[t] # << >>
    <3> DEFINE f == Head(stack[t])
    <3>1. /\ pc' = [pc EXCEPT ![t] = f.pc]
          /\ loc' = [loc EXCEPT ![t].con = f.con, ![t].cur = f.cur]
          /\ stack' = [stack EXCEPT ![t] = Tail(@)]
      BY <2>3 DEF Return, Goto
    <3> HIDE DEF f
    <3>2. loc'[t].con = f.con
      BY <2>1, <3>1 DEF Locals
    <3>3. Alone(t) /\ pc'[t] = f.pc /\ stack'[t] = Tail(stack[t])
      BY <2>1, <3>1 DEF Alone, ThreadTypeOK
    <3> QED
      BY <2>3, <3>2, <3>3 DEF f
  <2> QED
    BY <2>2, <2>3
<1>2. \A P : InCall(t, P)' <=> pc'[t] \in P \/ Has(stack'[t], P) \/ HasBelow(t, P)
  BY DEF InCall, Has, HasBelow
<1>3. CASE stack[t] = << >>
  <2>1. \A P : ~Has(stack[t], P) /\ ~Has(stack'[t], P) /\ Single(stack'[t], P)
    BY <1>1, <1>3, EmptyHas
  <2>2. pc'[t] = "idle" /\ "idle" \notin LockedPcs
    BY <1>1, <1>3 DEF LockedPcs
  <2>3. Solo(t) => Solo(t)'
    BY <2>1, <2>2 DEF Solo, HasBelow, Has, Single
  <2>4. \A P : InCall(t, P)' => Rest(t, P) \/ "idle" \in P
    BY <1>2, <2>1, <2>2 DEF Rest
  <2>5. \A P : Rest(t, P) => InCall(t, P)'
    BY <1>2, <2>1, <2>2 DEF Rest
  <2>6. \A P : Rest(t, P)' => Rest(t, P)
    BY <2>1 DEF Rest, HasBelow
  <2>7. \A P : Rest(t, P) => InCall(t, P)
    BY InCallRest
  <2> QED
    BY <1>1, <1>3, <2>2, <2>3, <2>4, <2>5, <2>6, <2>7 DEF Moved
<1>4. CASE stack[t] # << >>
  <2>1. stack[t] \in Seq(Frame)
    BY DEF ThreadTypeOK
  <2>2. \A P : /\ Has(stack[t], P) <=> pc'[t] \in P \/ Has(stack'[t], P)
               /\ Single(stack[t], P) => Single(stack'[t], P)
               /\ Single(stack[t], P) /\ pc'[t] \in P => ~Has(stack'[t], P)
    BY <1>1, <1>4, <2>1, PopHas
  <2>3. Solo(t) => Solo(t)'
    BY <2>2 DEF Solo, HasBelow
  <2>4. \A P : InCall(t, P)' <=> Rest(t, P)
    BY <1>2, <2>2 DEF Rest
  <2>5. \A P : Rest(t, P)' => Rest(t, P)
    BY <2>2 DEF Rest, HasBelow
  <2>6. \A P : Rest(t, P) => InCall(t, P)
    BY InCallRest
  <2>7. pc'[t] \in ReturnPcs
    <3>1. Head(stack[t]) \in Frame
      BY <1>4, <2>1, HeadTailProperties
    <3> QED
      BY <1>1, <1>4, <3>1 DEF Frame
  <2> QED
    BY <1>1, <1>4, <2>3, <2>4, <2>5, <2>6, <2>7 DEF Moved
<1> QED
  BY <1>3, <1>4

(* Going on with a new caller.                                             *)
LEMMA PushMoved ==
  ASSUME ThreadTypeOK, ThreadTypeOK', NEW t \in Threads, NEW l, Goto(t, l), l \notin LockedPcs,
         NEW f \in Frame, f.pc \notin LockedPcs, stack' = [stack EXCEPT ![t] = <<f>> \o @],
         UNCHANGED cb, \A u \in Threads : u # t => loc'[u] = loc[u]
  PROVE  /\ Moved(t) /\ pc'[t] = l
         /\ \A P : Rest(t, P)' <=> f.pc \in P \/ Rest(t, P)
         /\ \A P : Has(stack'[t], P) <=> f.pc \in P \/ Has(stack[t], P)
<1>1. pc' = [pc EXCEPT ![t] = l] /\ pc'[t] = l
  BY DEF Goto, ThreadTypeOK
<1>2. stack[t] \in Seq(Frame) /\ stack'[t] = <<f>> \o stack[t]
  BY DEF ThreadTypeOK
<1>3. Alone(t)
  BY <1>1 DEF Alone, ThreadTypeOK
<1>4. \A P : /\ Has(stack'[t], P) <=> f.pc \in P \/ Has(stack[t], P)
             /\ Single(stack[t], P) /\ (f.pc \in P => ~Has(stack[t], P)) => Single(stack'[t], P)
  BY <1>2, PushHas
<1>5. \A P : Rest(t, P)' <=> f.pc \in P \/ Rest(t, P)
  BY <1>4 DEF Rest, HasBelow
<1>6. \A P : InCall(t, P)' <=> pc'[t] \in P \/ Rest(t, P)'
  BY DEF InCall, Rest, Has, HasBelow
<1>7. \A P : Rest(t, P) => InCall(t, P)
  BY InCallRest
<1>8. Solo(t) => Solo(t)'
  BY <1>1, <1>4 DEF Solo, HasBelow
<1>9. l \notin {"startNext"} /\ f.pc \notin {"startNext"}
  BY LockedAreReturns
<1> QED
  BY <1>1, <1>3, <1>4, <1>5, <1>6, <1>7, <1>8, <1>9 DEF Moved

(* Entering the message callback: the callers wait below it.               *)
LEMMA EnterMoved ==
  ASSUME ThreadTypeOK, ThreadTypeOK', NEW t \in Threads, cb[t] = NoCb,
         NEW c \in Consumers \cup {NoConsumer}, NEW a \in {"check", "checkLock"},
         cb' = [cb EXCEPT ![t] = [stack |-> stack[t], con |-> c, after |-> a]],
         stack' = [stack EXCEPT ![t] = << >>], Goto(t, "idle"),
         \A u \in Threads : u # t => loc'[u] = loc[u]
  PROVE  Moved(t) /\ pc'[t] = "idle" /\ stack'[t] = << >>
<1>1. pc' = [pc EXCEPT ![t] = "idle"] /\ pc'[t] = "idle" /\ stack'[t] = << >>
  BY DEF Goto, ThreadTypeOK
<1>2. Alone(t)
  BY <1>1 DEF Alone, ThreadTypeOK
<1>3. cb'[t].stack = stack[t] /\ cb'[t] # NoCb
  <2>1. cb'[t] = [stack |-> stack[t], con |-> c, after |-> a] /\ stack[t] \in Seq(Frame)
    BY DEF ThreadTypeOK
  <2>2. cb'[t] \in Callback
    BY <2>1 DEF Callback
  <2> QED
    BY <2>1, <2>2, ConstantsAssumption
<1>4. \A P : ~Has(stack'[t], P) /\ Single(stack'[t], P)
  BY <1>1, EmptyHas
<1>5. \A P : (Rest(t, P)' <=> Has(stack[t], P)) /\ (Rest(t, P) <=> Has(stack[t], P))
  BY <1>3, <1>4 DEF Rest, HasBelow
<1>6. \A P : InCall(t, P)' <=> pc'[t] \in P \/ Rest(t, P)'
  BY DEF InCall, Rest, Has, HasBelow
<1>7. \A P : Rest(t, P) => InCall(t, P)
  BY InCallRest
<1>8. "idle" \notin LockedPcs
  BY DEF LockedPcs
<1>9. Solo(t) => Solo(t)'
  BY <1>1, <1>3, <1>4, <1>8 DEF Solo, HasBelow
<1> QED
  BY <1>1, <1>2, <1>5, <1>6, <1>7, <1>8, <1>9 DEF Moved

(* Leaving the message callback: what was below it is there again.         *)
LEMMA LeaveMoved ==
  ASSUME ThreadTypeOK, ThreadTypeOK', NEW t \in Threads, cb[t] # NoCb, stack[t] = << >>,
         cb' = [cb EXCEPT ![t] = NoCb], stack'[t] = cb[t].stack,
         stack' = [stack EXCEPT ![t] = stack'[t]],
         NEW l, Goto(t, l), l \notin LockedPcs,
         \A u \in Threads : u # t => loc'[u] = loc[u]
  PROVE  Moved(t) /\ pc'[t] = l
<1>1. pc' = [pc EXCEPT ![t] = l] /\ pc'[t] = l
  BY DEF Goto, ThreadTypeOK
<1>2. Alone(t) /\ cb'[t] = NoCb
  BY <1>1 DEF Alone, ThreadTypeOK
<1>4. \A P : ~Has(stack[t], P)
  BY EmptyHas
<1>5. \A P : (Rest(t, P)' <=> Has(cb[t].stack, P)) /\ (Rest(t, P) <=> Has(cb[t].stack, P))
  BY <1>2, <1>4 DEF Rest, HasBelow
<1>6. \A P : InCall(t, P)' <=> pc'[t] \in P \/ Rest(t, P)'
  BY DEF InCall, Rest, Has, HasBelow
<1>7. \A P : Rest(t, P) => InCall(t, P)
  BY InCallRest
<1>8. Solo(t) => Solo(t)'
  BY <1>1, <1>2 DEF Solo, HasBelow
<1>9. l \notin {"startNext"}
  BY LockedAreReturns
<1> QED
  BY <1>1, <1>2, <1>5, <1>6, <1>7, <1>8, <1>9 DEF Moved

(* ... with the frame of a new call on top.                                *)
LEMMA LeavePushMoved ==
  ASSUME ThreadTypeOK, ThreadTypeOK', NEW t \in Threads, cb[t] # NoCb, stack[t] = << >>,
         cb' = [cb EXCEPT ![t] = NoCb], NEW f \in Frame, f.pc \notin LockedPcs,
         stack' = [stack EXCEPT ![t] = <<f>> \o cb[t].stack],
         NEW l, Goto(t, l), l \notin LockedPcs,
         \A u \in Threads : u # t => loc'[u] = loc[u]
  PROVE  Moved(t) /\ pc'[t] = l /\ \A P : f.pc \in P => Has(stack'[t], P)
<1>1. pc' = [pc EXCEPT ![t] = l] /\ pc'[t] = l
  BY DEF Goto, ThreadTypeOK
<1>2. Alone(t) /\ cb'[t] = NoCb
  BY <1>1 DEF Alone, ThreadTypeOK
<1>3. cb[t].stack \in Seq(Frame) /\ stack'[t] = <<f>> \o cb[t].stack
  BY DEF ThreadTypeOK, Callback
<1>4. \A P : ~Has(stack[t], P)
  BY EmptyHas
<1>5. \A P : /\ Has(stack'[t], P) <=> f.pc \in P \/ Has(cb[t].stack, P)
             /\ Single(cb[t].stack, P) /\ f.pc \notin P => Single(stack'[t], P)
  BY <1>3, PushHas
<1>6. \A P : /\ Rest(t, P)' <=> f.pc \in P \/ Has(cb[t].stack, P)
             /\ Rest(t, P) <=> Has(cb[t].stack, P)
  BY <1>2, <1>4, <1>5 DEF Rest, HasBelow
<1>7. \A P : InCall(t, P)' <=> pc'[t] \in P \/ Rest(t, P)'
  BY DEF InCall, Rest, Has, HasBelow
<1>8. \A P : Rest(t, P) => InCall(t, P)
  BY InCallRest
<1>9. Solo(t) => Solo(t)'
  BY <1>1, <1>2, <1>5 DEF Solo, HasBelow
<1>10. l \notin {"startNext"} /\ f.pc \notin {"startNext"}
  BY LockedAreReturns
<1> QED
  BY <1>1, <1>2, <1>5, <1>6, <1>7, <1>8, <1>9, <1>10 DEF Moved

-----------------------------------------------------------------------------
(* What a step that is about something else leaves true *)

(* Nobody takes or releases the session lock, starts or stops delivery or  *)
(* changes the list of consumers.                                          *)
SessionQuiet ==
  /\ session'.lock = session.lock /\ session'.list = session.list
  /\ session'.started = session.started /\ session'.destroyed = session.destroyed
  /\ session'.stopping => session.stopping

(* The points at which something is expected of a thread: to look at the   *)
(* queue, to disable the waiter or to visit the consumers.                 *)
MovePcs ==
  LockedPcs \cup WakePcs
    \cup {"disable", "startDeliver", "stopDisable", "sessMark", "sessNack", "sessNext"}

DiscardPcs == FillPcs \cup {"reclaimLock", "reclaim", "postput", "postput2"}

(* HoldsSession is about the thread and about the lock.                    *)
LEMMA HoldsParts ==
  ASSUME NEW t
  PROVE  HoldsSession(t) <=> Solo(t) /\ (InCall(t, LockedPcs) => session.lock = t)
BY DEF HoldsSession, Solo

(* The same after a step.                                                  *)
LEMMA HoldsPartsNext ==
  ASSUME NEW t
  PROVE  HoldsSession(t)' <=> Solo(t)' /\ (InCall(t, LockedPcs)' => session'.lock = t)
BY DEF HoldsSession, Solo

(* Threads that do not move.                                               *)
LEMMA OthersControl ==
  ASSUME NEW t \in Threads, Alone(t), NEW u \in Threads, u # t,
         HoldsSession(u), StackMeets(u)
  PROVE  /\ Solo(u)' /\ StackMeets(u)'
         /\ \A P : (InCall(u, P)' <=> InCall(u, P)) /\ (Rest(u, P)' <=> Rest(u, P))
<1>1. pc'[u] = pc[u] /\ stack'[u] = stack[u] /\ cb'[u] = cb[u] /\ loc'[u] = loc[u]
  BY DEF Alone
<1>2. Solo(u)'
  BY <1>1, HoldsParts DEF Solo, Has, HasBelow, Single
<1>3. StackMeets(u)'
  BY <1>1 DEF StackMeets, MayUnlock, Has
<1>4. \A P : (InCall(u, P)' <=> InCall(u, P)) /\ (Rest(u, P)' <=> Rest(u, P))
  BY <1>1 DEF InCall, Rest, Has, HasBelow
<1> QED
  BY <1>2, <1>3, <1>4

(* Starting, by where the thread is and by its callers.                    *)
LEMMA StartingParts ==
  ASSUME NEW t
  PROVE  /\ Starting(t) <=>
              /\ InCall(t, {"startNext"}) =>
                   /\ session.started /\ ~session.stopping
                   /\ session.destroyed => \E u \in Threads : pc[u] = "sessMark"
              /\ Rest(t, {"startNext"}) => session.list # << >>
         /\ Starting(t)' <=>
              /\ InCall(t, {"startNext"})' =>
                   /\ session'.started /\ ~session'.stopping
                   /\ session'.destroyed => \E u \in Threads : pc'[u] = "sessMark"
              /\ Rest(t, {"startNext"})' => session'.list # << >>
BY DEF Starting, Rest, HasBelow, Has

(* A step that leaves the session as it is keeps the control in order.     *)
LEMMA PlainControl ==
  ASSUME ControlInv, NEW t \in Threads, Moved(t), SessionQuiet, pc[t] # "sessMark",
         StackMeets(t)'
  PROVE  ControlInv'
<1>1. Alone(t)
  BY DEF Moved
<1>2. \A u \in Threads : pc[u] = "sessMark" => pc'[u] = "sessMark"
  BY <1>1 DEF Alone
<1>3. ASSUME NEW u \in Threads, u # t
      PROVE  HoldsSession(u)' /\ StackMeets(u)' /\ Starting(u)'
  <2>1. HoldsSession(u) /\ StackMeets(u) /\ Starting(u)
    BY DEF ControlInv
  <2>2. /\ Solo(u)' /\ StackMeets(u)'
        /\ \A P : (InCall(u, P)' <=> InCall(u, P)) /\ (Rest(u, P)' <=> Rest(u, P))
    BY <1>1, <1>3, <2>1, OthersControl
  <2>3. HoldsSession(u)'
    BY <2>1, <2>2, HoldsParts, HoldsPartsNext DEF SessionQuiet
  <2>4. Starting(u)'
    BY <1>2, <2>1, <2>2, StartingParts DEF SessionQuiet
  <2> QED
    BY <2>2, <2>3, <2>4
<1>4. HoldsSession(t)' /\ Starting(t)'
  <2>1. HoldsSession(t) /\ Starting(t)
    BY DEF ControlInv
  <2>2. HoldsSession(t)'
    BY <2>1, HoldsParts, HoldsPartsNext DEF SessionQuiet, Moved
  <2>3. Starting(t)'
    BY <1>2, <2>1, StartingParts DEF SessionQuiet, Moved
  <2> QED
    BY <2>2, <2>3
<1> QED
  BY <1>3, <1>4 DEF ControlInv

(* A thread that does not move goes on being on its way.                   *)
LEMMA OthersWake ==
  ASSUME NEW t \in Threads, Alone(t), SessionQuiet, NEW u \in Threads, u # t, Wakes(u)
  PROVE  Wakes(u)'
<1>1. pc'[u] = pc[u] /\ stack'[u] = stack[u] /\ cb'[u] = cb[u] /\ loc'[u] = loc[u]
  BY DEF Alone
<1>2. \A P : InCall(u, P)' <=> InCall(u, P)
  BY <1>1 DEF InCall
<1> QED
  BY <1>1, <1>2 DEF Wakes, SessionQuiet

(* The actor itself, if it is at no point where something is expected.     *)
LEMMA OwnWake ==
  ASSUME NEW t \in Threads, Moved(t), SessionQuiet, pc[t] \notin MovePcs, Wakes(t)
  PROVE  Wakes(t)'
<1>1. \A P : InCall(t, P) /\ pc[t] \notin P => InCall(t, P)'
  BY InCallRest DEF Moved
<1>2. pc[t] \notin WakePcs /\ pc[t] \notin {"startNext"}
  BY DEF MovePcs, LockedPcs
<1> QED
  BY <1>1, <1>2 DEF Wakes, SessionQuiet, MovePcs, LockedPcs

(* So a wakeup on its way is not lost by a step about something else.      *)
LEMMA PlainWake ==
  ASSUME WakeInv, NEW t \in Threads, Moved(t), SessionQuiet, pc[t] \notin MovePcs,
         WaiterOpen' /\ Ready' => WaiterOpen /\ Ready
  PROVE  WakeInv'
BY OthersWake, OwnWake DEF WakeInv, Moved

(* ... and so does one on its way to discard.                              *)
LEMMA OthersDiscard ==
  ASSUME NEW t \in Threads, Alone(t), NEW u \in Threads, u # t, Discards(u)
  PROVE  Discards(u)'
BY DEF Alone, Discards, InCall

(* Nor is a discard that is due.                                           *)
LEMMA PlainDiscard ==
  ASSUME DiscardInv, NEW t \in Threads, Moved(t), pc[t] \notin DiscardPcs,
         bufferedMsgs \in Int, bufferedMsgs' \in Int, bufferedMsgs' <= bufferedMsgs,
         RECLAIMSPACE_PEND \in waiterStatus => RECLAIMSPACE_PEND \in waiterStatus'
  PROVE  DiscardInv'
<1>1. \A P : InCall(t, P) /\ pc[t] \notin P => InCall(t, P)'
  BY InCallRest DEF Moved
<1>2. Discards(t) => Discards(t)'
  BY <1>1 DEF Discards, DiscardPcs
<1>3. \A u \in Threads : Discards(u) => Discards(u)'
  BY <1>2, OthersDiscard DEF Moved
<1> QED
  BY <1>3, ConstantsAssumption DEF DiscardInv

-----------------------------------------------------------------------------
(* The nodes of the queue *)

(* A step of a thread that neither touches the nodes nor comes to fill one *)
(* may go on with its put or begin the put of a message nobody has sent.   *)
LEMMA NodesStill ==
  ASSUME NodeInv, NEW t \in Threads, Alone(t), UNCHANGED <<nodes, bufferedMsgs, expiryData>>,
         nodes \in Seq(NodeRecord), pc[t] \notin FillPcs, pc'[t] \notin FillPcs,
         \A m \in Msgs : fate'[m] = "unsent" => fate[m] = "unsent",
         pc'[t] \in PutPcs =>
           \/ pc[t] \in PutPcs /\ loc'[t].cur = loc[t].cur
           \/ /\ loc'[t].cur \in Msgs /\ fate[loc'[t].cur] = "unsent"
              /\ fate'[loc'[t].cur] # "unsent"
  PROVE  NodeInv'
<1>1. \A u \in Threads : u # t => pc'[u] = pc[u] /\ loc'[u] = loc[u]
  BY DEF Alone
<1>2. \A i \in DOMAIN nodes : nodes[i].msg \in Msgs
  <2>1. \A i \in DOMAIN nodes : nodes[i] \in NodeRecord
    BY LenProperties, ElementOfSeq
  <2> QED
    BY <2>1 DEF NodeRecord
<1>3. FillPcs \subseteq PutPcs /\ "count" \in FillPcs /\ "addExpiry" \in FillPcs
  BY DEF FillPcs, PutPcs
<1>4. PutsApart'
  <2>1. \A u \in Threads : pc'[u] \in PutPcs => loc'[u].cur \in Msgs /\ fate'[loc'[u].cur] # "unsent"
    BY <1>1 DEF NodeInv, PutsApart
  <2>2. \A u, v \in Threads :
          pc'[u] \in PutPcs /\ pc'[v] \in PutPcs /\ loc'[u].cur = loc'[v].cur => u = v
    BY <1>1 DEF NodeInv, PutsApart
  <2>3. \A i \in DOMAIN nodes : fate'[nodes[i].msg] # "unsent"
    BY <1>2 DEF NodeInv, PutsApart
  <2>4. \A u \in Threads : pc'[u] \in PutPcs \ FillPcs =>
          \A i \in DOMAIN nodes : nodes[i].msg # loc'[u].cur
    BY <1>1 DEF NodeInv, PutsApart
  <2> QED
    BY <2>1, <2>2, <2>3, <2>4 DEF NodeInv, PutsApart
<1>5. EmptyNodes'
  BY <1>1 DEF NodeInv, EmptyNodes, Node
<1>6. Counting' = Counting /\ Live' = Live
  BY <1>1, <1>3 DEF Counting, Live
<1>7. CountExact'
  BY <1>6 DEF NodeInv, CountExact
<1>8. ExpiryExact'
  BY <1>1, <1>3, <1>6 DEF NodeInv, ExpiryExact
<1> QED
  BY <1>4, <1>5, <1>7, <1>8 DEF NodeInv

(* ms is ns without its first d nodes.                                     *)
Dropped(ms, ns, d) ==
  /\ d \in 0 .. Len(ns) /\ Len(ms) = Len(ns) - d
  /\ \A i \in 1 .. Len(ms) : ms[i] = ns[i + d]

(* iesq_scanGetCursor passes over the removed nodes at the head.           *)
LEMMA SkipDrops ==
  ASSUME NEW ns \in Seq(NodeRecord)
  PROVE  \E d \in 0 .. Len(ns) :
           /\ Dropped(SkipRemoved(ns), ns, d)
           /\ \A i \in 1 .. d : ns[i].state = "removed"
           /\ d < Len(ns) => ns[d + 1].state # "removed"
<1> DEFINE kept == {i \in DOMAIN ns : ns[i].state # "removed"}
<1>0. Len(ns) \in Nat /\ DOMAIN ns = 1 .. Len(ns)
  BY LenProperties
<1>1. CASE kept = {}
  <2>1. SkipRemoved(ns) = << >> /\ Len(<< >>) = 0
    BY <1>1, EmptySeq DEF SkipRemoved
  <2>2. \A i \in 1 .. Len(ns) : ns[i].state = "removed"
    BY <1>0, <1>1
  <2>3. Len(ns) \in 0 .. Len(ns) /\ Dropped(SkipRemoved(ns), ns, Len(ns))
    BY <1>0, <2>1 DEF Dropped
  <2> QED
    BY <1>0, <2>2, <2>3
<1>2. CASE kept # {}
  <2> DEFINE k == CHOOSE i \in kept : \A j \in kept : i <= j
  <2>1. kept \subseteq Nat
    BY <1>0
  <2>2. \E i \in kept : \A j \in kept : i <= j
    BY <1>2, <2>1, LeastElement
  <2>3. k \in kept /\ \A j \in kept : k <= j
    BY <2>2
  <2>4. SkipRemoved(ns) = SubSeq(ns, k, Len(ns))
    BY <1>2 DEF SkipRemoved
  <2> HIDE DEF k
  <2>5. k \in 1 .. Len(ns) /\ ns[k].state # "removed"
    BY <1>0, <2>3
  <2>6. \A i \in 1 .. (k - 1) : ns[i].state = "removed"
    <3> SUFFICES ASSUME NEW i \in 1 .. (k - 1), ns[i].state # "removed" PROVE FALSE
      OBVIOUS
    <3>1. i \in kept
      BY <1>0, <2>5
    <3> QED
      BY <2>3, <2>5, <3>1
  <2>7. \A j \in k .. Len(ns) : ns[j] \in NodeRecord
    BY <1>0, <2>5, ElementOfSeq
  <2>8. /\ Len(SubSeq(ns, k, Len(ns))) = Len(ns) - k + 1
        /\ \A i \in 1 .. Len(ns) - k + 1 : SubSeq(ns, k, Len(ns))[i] = ns[k + i - 1]
    BY <1>0, <2>5, <2>7, SubSeqProperties
  <2>9. Dropped(SkipRemoved(ns), ns, k - 1)
    BY <1>0, <2>4, <2>5, <2>8 DEF Dropped
  <2> QED
    BY <1>0, <2>5, <2>6, <2>9
<1> QED
  BY <1>1, <1>2

(* A message is ready when all the nodes before it have been removed.      *)
LEMMA ReadyIs ==
  ASSUME NEW ns \in Seq(NodeRecord)
  PROVE  /\ HeadReady(SkipRemoved(ns)) <=>
              \E i \in 1 .. Len(ns) : /\ ns[i].state = "full"
                                      /\ \A j \in 1 .. (i - 1) : ns[j].state = "removed"
         /\ SkipRemoved(ns) # << >> /\ ~HeadReady(SkipRemoved(ns)) =>
              \E i \in 1 .. Len(ns) : ns[i].state = "empty"
         /\ SkipRemoved(ns) = << >> => \A i \in 1 .. Len(ns) : ns[i].state = "removed"
<1> DEFINE ms == SkipRemoved(ns)
<1>1. PICK d \in 0 .. Len(ns) : /\ Dropped(ms, ns, d)
                                /\ \A i \in 1 .. d : ns[i].state = "removed"
                                /\ d < Len(ns) => ns[d + 1].state # "removed"
  BY SkipDrops
<1>2. ms \in Seq(NodeRecord) /\ Len(ms) \in Nat /\ Len(ns) \in Nat
  BY SkipRemovedType, LenProperties
<1>3. \A i \in 1 .. Len(ns) : ns[i].state \in {"empty", "full", "removed"}
  <2>1. \A i \in 1 .. Len(ns) : ns[i] \in NodeRecord
    BY ElementOfSeq
  <2> QED
    BY <2>1 DEF NodeRecord
<1>4. ms # << >> <=> d < Len(ns)
  BY <1>1, <1>2, EmptySeq DEF Dropped
<1>5. ms # << >> => Head(ms) = ns[d + 1]
  <2>1. ms # << >> => Head(ms) = ms[1] /\ 1 \in 1 .. Len(ms)
    BY <1>2, EmptySeq
  <2> QED
    BY <1>1, <2>1 DEF Dropped
<1> HIDE DEF ms
<1>6. HeadReady(ms) <=> d < Len(ns) /\ ns[d + 1].state = "full"
  BY <1>4, <1>5 DEF HeadReady
<1>7. ASSUME HeadReady(ms)
      PROVE  \E i \in 1 .. Len(ns) : /\ ns[i].state = "full"
                                     /\ \A j \in 1 .. (i - 1) : ns[j].state = "removed"
  <2>1. d + 1 \in 1 .. Len(ns) /\ ns[d + 1].state = "full" /\ (d + 1) - 1 = d
    BY <1>1, <1>2, <1>6, <1>7
  <2> QED
    BY <1>1, <2>1
<1>8. ASSUME NEW i \in 1 .. Len(ns), ns[i].state = "full",
             \A j \in 1 .. (i - 1) : ns[j].state = "removed"
      PROVE  HeadReady(ms)
  <2>1. ~(i <= d)
    BY <1>1, <1>8
  <2>2. ~(d + 1 < i)
    <3> SUFFICES ASSUME d + 1 < i PROVE FALSE
      OBVIOUS
    <3>1. d + 1 \in 1 .. (i - 1) /\ d < Len(ns)
      BY <1>1, <1>2
    <3> QED
      BY <1>1, <1>8, <3>1
  <2>3. i = d + 1 /\ d < Len(ns)
    BY <1>1, <1>2, <2>1, <2>2
  <2> QED
    BY <1>6, <1>8, <2>3
<1>9. ms # << >> /\ ~HeadReady(ms) => d + 1 \in 1 .. Len(ns) /\ ns[d + 1].state = "empty"
  BY <1>1, <1>2, <1>3, <1>4, <1>6
<1>10. ms = << >> => d = Len(ns)
  BY <1>1, <1>2, <1>4
<1> QED
  BY <1>1, <1>7, <1>8, <1>9, <1>10 DEF ms

(* What the owner of the lock does to the nodes: it takes some off the     *)
(* head and marks others as removed, and leaves alone the ones not filled. *)
Thinned(d) ==
  /\ nodes' \in Seq(NodeRecord)
  /\ d \in 0 .. Len(nodes) /\ Len(nodes') = Len(nodes) - d
  /\ \A j \in 1 .. d : nodes[j].state # "empty"
  /\ \A i \in 1 .. Len(nodes') :
       /\ nodes'[i].msg = nodes[i + d].msg
       /\ \/ nodes'[i].state = nodes[i + d].state
          \/ nodes'[i].state = "removed" /\ nodes[i + d].state # "empty"

(* No put comes or goes.                                                   *)
PutsStay ==
  /\ \A u \in Threads : (pc'[u] \in PutPcs \/ pc[u] \in PutPcs) =>
       pc'[u] = pc[u] /\ loc'[u].cur = loc[u].cur
  /\ \A m \in Msgs : fate'[m] = "unsent" => fate[m] = "unsent"

(* What a sequence of nodes is made of.                                    *)
LEMMA NodeFacts ==
  ASSUME NEW ns \in Seq(NodeRecord)
  PROVE  /\ Len(ns) \in Nat /\ DOMAIN ns = 1 .. Len(ns)
         /\ \A i \in 1 .. Len(ns) : /\ ns[i].msg \in Msgs
                                    /\ ns[i].state \in {"empty", "full", "removed"}
                                    /\ ns[i] = [msg |-> ns[i].msg, state |-> ns[i].state]
<1>1. Len(ns) \in Nat /\ DOMAIN ns = 1 .. Len(ns)
  BY LenProperties
<1>2. \A i \in 1 .. Len(ns) : ns[i] \in NodeRecord
  BY ElementOfSeq
<1> QED
  BY <1>1, <1>2 DEF NodeRecord

(* Each put still has its node, and each message at most one.              *)
LEMMA ThinnedApart ==
  ASSUME nodes \in Seq(NodeRecord), PutsApart, EmptyNodes, NEW d, Thinned(d), PutsStay
  PROVE  PutsApart' /\ EmptyNodes'
<1>1. /\ Len(nodes) \in Nat /\ DOMAIN nodes = 1 .. Len(nodes)
      /\ \A i \in 1 .. Len(nodes) : /\ nodes[i].msg \in Msgs
                                    /\ nodes[i] = [msg |-> nodes[i].msg, state |-> nodes[i].state]
  BY NodeFacts
<1>2. /\ Len(nodes') \in Nat /\ DOMAIN nodes' = 1 .. Len(nodes')
      /\ \A i \in 1 .. Len(nodes') :
           nodes'[i] = [msg |-> nodes'[i].msg, state |-> nodes'[i].state]
  BY NodeFacts DEF Thinned
<1>3. d \in 0 .. Len(nodes) /\ Len(nodes') = Len(nodes) - d
  BY DEF Thinned
<1>4. \A i \in DOMAIN nodes' : i + d \in DOMAIN nodes /\ nodes'[i].msg = nodes[i + d].msg
  BY <1>1, <1>2, <1>3 DEF Thinned
<1>5. FillPcs \subseteq PutPcs
  BY DEF FillPcs, PutPcs
<1>6. PutsApart'
  <2>1. \A u \in Threads : pc'[u] \in PutPcs => loc'[u].cur \in Msgs /\ fate'[loc'[u].cur] # "unsent"
    BY DEF PutsApart, PutsStay
  <2>2. \A u, v \in Threads :
          pc'[u] \in PutPcs /\ pc'[v] \in PutPcs /\ loc'[u].cur = loc'[v].cur => u = v
    BY DEF PutsApart, PutsStay
  <2>3. \A i \in DOMAIN nodes' : fate'[nodes'[i].msg] # "unsent"
    BY <1>1, <1>4 DEF PutsApart, PutsStay
  <2>4. \A i, j \in DOMAIN nodes' : nodes'[i].msg = nodes'[j].msg => i = j
    <3> SUFFICES ASSUME NEW i \in DOMAIN nodes', NEW j \in DOMAIN nodes',
                        nodes'[i].msg = nodes'[j].msg
                 PROVE  i = j
      OBVIOUS
    <3>1. i + d = j + d
      BY <1>4 DEF PutsApart
    <3> QED
      BY <1>2, <1>3, <3>1
  <2>5. \A u \in Threads : pc'[u] \in PutPcs \ FillPcs =>
          \A i \in DOMAIN nodes' : nodes'[i].msg # loc'[u].cur
    BY <1>4 DEF PutsApart, PutsStay
  <2> QED
    BY <2>1, <2>2, <2>3, <2>4, <2>5 DEF PutsApart
<1>7. \A i \in DOMAIN nodes' : nodes'[i].state = "empty" =>
        \E u \in Threads : pc'[u] \in FillPcs /\ loc'[u].cur = nodes'[i].msg
  <2> SUFFICES ASSUME NEW i \in DOMAIN nodes', nodes'[i].state = "empty"
               PROVE  \E u \in Threads : pc'[u] \in FillPcs /\ loc'[u].cur = nodes'[i].msg
    OBVIOUS
  <2>1. nodes[i + d].state = "empty" /\ i + d \in DOMAIN nodes /\ nodes'[i].msg = nodes[i + d].msg
    BY <1>2, <1>4 DEF Thinned
  <2>2. PICK u \in Threads : pc[u] \in FillPcs /\ loc[u].cur = nodes[i + d].msg
    BY <2>1 DEF EmptyNodes
  <2> QED
    BY <1>5, <2>1, <2>2 DEF PutsStay
<1>8. \A u \in Threads : pc'[u] \in FillPcs => \E i \in DOMAIN nodes' : nodes'[i] = Node(loc'[u].cur)
  <2> SUFFICES ASSUME NEW u \in Threads, pc'[u] \in FillPcs
               PROVE  \E i \in DOMAIN nodes' : nodes'[i] = Node(loc'[u].cur)
    OBVIOUS
  <2>1. pc[u] \in FillPcs /\ loc'[u].cur = loc[u].cur
    BY <1>5 DEF PutsStay
  <2>2. PICK i \in DOMAIN nodes : nodes[i] = Node(loc[u].cur)
    BY <2>1 DEF EmptyNodes
  <2>3. nodes[i].state = "empty" /\ nodes[i].msg = loc[u].cur
    BY <2>2 DEF Node
  <2>4. ~(i \in 1 .. d)
    BY <2>3 DEF Thinned
  <2>5. i - d \in DOMAIN nodes' /\ (i - d) + d = i
    BY <1>1, <1>2, <1>3, <2>4
  <2>6. nodes'[i - d].msg = nodes[i].msg /\ nodes'[i - d].state = "empty"
    BY <1>2, <2>3, <2>5 DEF Thinned
  <2>7. nodes'[i - d] = [msg |-> loc[u].cur, state |-> "empty"]
    BY <1>2, <2>3, <2>5, <2>6
  <2> QED
    BY <2>1, <2>5, <2>7 DEF Node
<1> QED
  BY <1>6, <1>7, <1>8 DEF EmptyNodes

(* The messages in the queue are finitely many.                            *)
LEMMA LiveFinite ==
  ASSUME nodes \in Seq(NodeRecord)
  PROVE  /\ IsFiniteSet(Live)
         /\ \A i \in DOMAIN nodes : nodes[i].state # "removed" => nodes[i].msg \in Live
<1> DEFINE J == {j \in DOMAIN nodes : nodes[j].state # "removed"}
           f == [i \in J |-> nodes[i].msg]
<1>1. IsFiniteSet(J)
  <2>1. DOMAIN nodes = 1 .. Len(nodes) /\ Len(nodes) \in Nat
    BY LenProperties
  <2>2. IsFiniteSet(1 .. Len(nodes))
    BY <2>1, FS_Interval
  <2> QED
    BY <2>1, <2>2, FS_Subset
<1>2. f \in Surjection(J, Live)
  BY DEF Surjection, Live
<1> HIDE DEF f, J
<1>3. IsFiniteSet(Live)
  BY <1>1, <1>2, FS_Surjection
<1> QED
  BY <1>3 DEF Live

(* The messages of G are what a step takes from the queue.                 *)
Takes(G, d) ==
  /\ Thinned(d)
  /\ \A j \in 1 .. d : nodes[j].state # "removed" => nodes[j].msg \in G
  /\ \A i \in 1 .. Len(nodes') :
       nodes'[i].state # "removed" <=> nodes[i + d].state # "removed" /\ nodes[i + d].msg \notin G

(* The messages that are left.                                             *)
LEMMA TakesLive ==
  ASSUME nodes \in Seq(NodeRecord), NEW G, NEW d, Takes(G, d)
  PROVE  Live' = Live \ G
<1>1. Len(nodes) \in Nat /\ DOMAIN nodes = 1 .. Len(nodes)
  BY NodeFacts
<1>2. Len(nodes') \in Nat /\ DOMAIN nodes' = 1 .. Len(nodes')
  BY NodeFacts DEF Takes, Thinned
<1>3. d \in 0 .. Len(nodes) /\ Len(nodes') = Len(nodes) - d
  BY DEF Takes, Thinned
<1>4. ASSUME NEW m \in Live' PROVE m \in Live \ G
  <2>1. PICK i \in DOMAIN nodes' : nodes'[i].state # "removed" /\ nodes'[i].msg = m
    BY <1>4 DEF Live
  <2>2. i + d \in DOMAIN nodes /\ nodes[i + d].msg = m
    BY <1>1, <1>2, <1>3, <2>1 DEF Takes, Thinned
  <2>3. nodes[i + d].state # "removed" /\ nodes[i + d].msg \notin G
    BY <1>2, <2>1 DEF Takes
  <2> QED
    BY <2>2, <2>3 DEF Live
<1>5. ASSUME NEW m \in Live \ G PROVE m \in Live'
  <2>1. PICK k \in DOMAIN nodes : nodes[k].state # "removed" /\ nodes[k].msg = m
    BY <1>5 DEF Live
  <2>2. k \notin 1 .. d
    BY <1>5, <2>1 DEF Takes
  <2>3. k - d \in 1 .. Len(nodes') /\ (k - d) + d = k
    BY <1>1, <1>2, <1>3, <2>2
  <2>4. nodes'[k - d].msg = m /\ nodes'[k - d].state # "removed"
    BY <1>5, <2>1, <2>3 DEF Takes, Thinned
  <2> QED
    BY <1>2, <2>3, <2>4 DEF Live
<1> QED
  BY <1>4, <1>5

(* Taking messages of the queue, counting them and their expiry.           *)
LEMMA TakesNodes ==
  ASSUME NodeInv, nodes \in Seq(NodeRecord), bufferedMsgs \in Int,
         NEW G, G \subseteq Live, NEW d, Takes(G, d), PutsStay,
         bufferedMsgs' = bufferedMsgs - Cardinality(G), expiryData' = expiryData \ G
  PROVE  NodeInv'
<1>1. PutsApart' /\ EmptyNodes'
  BY ThinnedApart DEF NodeInv, Takes
<1>2. Live' = Live \ G
  BY TakesLive
<1>3. Counting' = Counting
  BY DEF Counting, PutsStay, PutPcs
<1>4. CountExact'
  <2>1. IsFiniteSet(Live) /\ IsFiniteSet(G) /\ Live \cap G = G
    BY LiveFinite, FS_Subset
  <2>2. Cardinality(Live \ G) = Cardinality(Live) - Cardinality(G)
    BY <2>1, FS_Difference
  <2>3. Cardinality(Live) \in Nat /\ Cardinality(G) \in Nat
    BY <2>1, FS_CardinalityType
  <2>4. IsFiniteSet(Counting) /\ bufferedMsgs + Cardinality(Counting) = Cardinality(Live)
    BY DEF NodeInv, CountExact
  <2>5. Cardinality(Counting) \in Nat
    BY <2>4, FS_CardinalityType
  <2>6. bufferedMsgs' + Cardinality(Counting) = Cardinality(Live \ G)
    BY <2>2, <2>3, <2>4, <2>5
  <2> QED
    BY <1>2, <1>3, <2>4, <2>6 DEF CountExact
<1>5. ExpiryExact'
  <2>1. \A m : (\E u \in Threads : pc'[u] \in {"count", "addExpiry"} /\ loc'[u].cur = m)
                 <=> (\E u \in Threads : pc[u] \in {"count", "addExpiry"} /\ loc[u].cur = m)
    BY DEF PutsStay, PutPcs
  <2>2. \A u \in Threads : pc'[u] = "addExpiry" => loc'[u].cur \in Expiring
    BY DEF PutsStay, PutPcs, NodeInv, ExpiryExact
  <2>3. expiryData' = {m \in Expiring \cap Live' :
          ~\E u \in Threads : pc'[u] \in {"count", "addExpiry"} /\ loc'[u].cur = m}
    BY <1>2, <2>1 DEF NodeInv, ExpiryExact
  <2> QED
    BY <2>2, <2>3 DEF ExpiryExact
<1> QED
  BY <1>1, <1>4, <1>5 DEF NodeInv

(* The first message is taken.                                             *)
LEMMA TakeHeadNodes ==
  ASSUME NodeInv, QueueTypeOK, TakeHead, PutsStay
  PROVE  NodeInv' /\ bufferedMsgs' = bufferedMsgs - 1
<1> DEFINE ms == SkipRemoved(nodes)
<1>0. nodes \in Seq(NodeRecord) /\ bufferedMsgs \in Int
  BY DEF QueueTypeOK
<1>1. PICK d \in 0 .. Len(nodes) : /\ Dropped(ms, nodes, d)
                                   /\ \A i \in 1 .. d : nodes[i].state = "removed"
                                   /\ d < Len(nodes) => nodes[d + 1].state # "removed"
  BY <1>0, SkipDrops
<1>2. ms \in Seq(NodeRecord) /\ Len(ms) \in Nat /\ Len(nodes) \in Nat
  BY <1>0, SkipRemovedType, LenProperties
<1>3. /\ ms # << >> /\ Head(ms).state = "full" /\ nodes' = Tail(ms)
      /\ bufferedMsgs' = bufferedMsgs - 1 /\ expiryData' = expiryData \ {Head(ms).msg}
  BY DEF TakeHead, HeadReady
<1> HIDE DEF ms
<1>4. /\ nodes' \in Seq(NodeRecord) /\ Len(nodes') = Len(ms) - 1
      /\ \A i \in 1 .. Len(nodes') : nodes'[i] = ms[i + 1]
  BY <1>2, <1>3, HeadTailProperties
<1>5. Len(ms) > 0 /\ Head(ms) = ms[1]
  BY <1>2, <1>3, EmptySeq
<1>6. Len(ms) = Len(nodes) - d /\ d + 1 \in 1 .. Len(nodes) /\ Head(ms) = nodes[d + 1]
  BY <1>1, <1>2, <1>5 DEF Dropped
<1>7. \A i \in 1 .. Len(nodes') : nodes'[i] = nodes[i + (d + 1)] /\ i + (d + 1) \in 1 .. Len(nodes)
  <2> SUFFICES ASSUME NEW i \in 1 .. Len(nodes')
               PROVE  nodes'[i] = nodes[i + (d + 1)] /\ i + (d + 1) \in 1 .. Len(nodes)
    OBVIOUS
  <2>1. i + 1 \in 1 .. Len(ms) /\ (i + 1) + d = i + (d + 1) /\ i + (d + 1) \in 1 .. Len(nodes)
    BY <1>2, <1>4, <1>6
  <2> QED
    BY <1>1, <1>4, <2>1 DEF Dropped
<1>8. \A i \in 1 .. Len(nodes) : nodes[i].state \in {"empty", "full", "removed"}
  BY <1>0, NodeFacts
<1>9. Thinned(d + 1)
  <2>1. d + 1 \in 0 .. Len(nodes) /\ Len(nodes') = Len(nodes) - (d + 1)
    BY <1>2, <1>4, <1>6
  <2>2. \A j \in 1 .. (d + 1) : nodes[j].state # "empty"
    BY <1>1, <1>3, <1>6
  <2> QED
    BY <1>4, <1>7, <2>1, <2>2 DEF Thinned
<1> DEFINE G == {Head(ms).msg}
<1>10. Takes(G, d + 1)
  <2>1. \A j \in 1 .. (d + 1) : nodes[j].state # "removed" => nodes[j].msg \in G
    BY <1>1, <1>6
  <2>2. \A i \in 1 .. Len(nodes') : nodes[i + (d + 1)].msg \notin G
    <3> SUFFICES ASSUME NEW i \in 1 .. Len(nodes'), nodes[i + (d + 1)].msg = nodes[d + 1].msg
                 PROVE  FALSE
      BY <1>6
    <3>1. i + (d + 1) \in DOMAIN nodes /\ d + 1 \in DOMAIN nodes
      BY <1>0, <1>6, <1>7, NodeFacts
    <3>2. i + (d + 1) = d + 1
      BY <3>1 DEF NodeInv, PutsApart
    <3> QED
      BY <1>1, <1>2, <1>4, <3>2
  <2> HIDE DEF G
  <2> QED
    BY <1>7, <1>9, <2>1, <2>2 DEF Takes
<1>11. G \subseteq Live /\ Cardinality(G) = 1
  <2>1. d + 1 \in DOMAIN nodes /\ nodes[d + 1].state # "removed"
    BY <1>0, <1>3, <1>6, NodeFacts
  <2>2. nodes[d + 1].msg \in Live
    BY <1>0, <2>1, LiveFinite
  <2> QED
    BY <1>6, <2>2, FS_Singleton
<1> HIDE DEF G
<1>12. expiryData' = expiryData \ G
  BY <1>3 DEF G
<1> QED
  BY <1>0, <1>3, <1>10, <1>11, <1>12, TakesNodes

(* Only removed nodes are passed over.                                     *)
LEMMA SkipNodes ==
  ASSUME NodeInv, QueueTypeOK, nodes' = SkipRemoved(nodes),
         UNCHANGED <<bufferedMsgs, expiryData>>, PutsStay
  PROVE  NodeInv' /\ (Ready' => Ready)
<1>0. nodes \in Seq(NodeRecord) /\ bufferedMsgs \in Int
  BY DEF QueueTypeOK
<1>1. PICK d \in 0 .. Len(nodes) : /\ Dropped(nodes', nodes, d)
                                   /\ \A i \in 1 .. d : nodes[i].state = "removed"
                                   /\ d < Len(nodes) => nodes[d + 1].state # "removed"
  BY <1>0, SkipDrops
<1>2. nodes' \in Seq(NodeRecord) /\ Len(nodes') \in Nat /\ Len(nodes) \in Nat
  BY <1>0, SkipRemovedType, LenProperties
<1>3. Thinned(d) /\ \A i \in 1 .. Len(nodes') : nodes'[i] = nodes[i + d]
  BY <1>1, <1>2 DEF Thinned, Dropped
<1>4. Takes({}, d)
  BY <1>1, <1>3 DEF Takes
<1>5. {} \subseteq Live /\ Cardinality({}) = 0
  BY FS_EmptySet
<1>6. bufferedMsgs' = bufferedMsgs - Cardinality({}) /\ expiryData' = expiryData \ {}
  BY <1>0, <1>5
<1>7. NodeInv'
  BY <1>0, <1>4, <1>5, <1>6, TakesNodes
<1>8. ASSUME Ready' PROVE Ready
  <2>1. HeadReady(SkipRemoved(nodes'))
    BY <1>8 DEF Ready
  <2>2. PICK i \in 1 .. Len(nodes') : /\ nodes'[i].state = "full"
                                      /\ \A j \in 1 .. (i - 1) : nodes'[j].state = "removed"
    BY <1>2, <2>1, ReadyIs
  <2>3. Len(nodes') = Len(nodes) - d
    BY <1>1 DEF Dropped
  <2>4. nodes'[1].state # "removed"
    <3>1. 1 \in 1 .. Len(nodes') /\ 1 + d = d + 1 /\ d < Len(nodes)
      BY <1>1, <1>2, <2>2, <2>3
    <3> QED
      BY <1>1, <1>3, <3>1
  <2>5. i = 1
    <3> SUFFICES ASSUME i # 1 PROVE FALSE
      OBVIOUS
    <3>1. 1 \in 1 .. (i - 1)
      BY <1>2, <2>2
    <3> QED
      BY <2>2, <2>4, <3>1
  <2>6. nodes[d + 1].state = "full" /\ d + 1 \in 1 .. Len(nodes) /\ (d + 1) - 1 = d
    <3>1. 1 \in 1 .. Len(nodes') /\ 1 + d = d + 1 /\ d + 1 \in 1 .. Len(nodes) /\ (d + 1) - 1 = d
      BY <1>1, <1>2, <2>2, <2>3
    <3> QED
      BY <1>3, <2>2, <2>5, <3>1
  <2>7. HeadReady(SkipRemoved(nodes))
    BY <1>0, <1>1, <2>6, ReadyIs
  <2> QED
    BY <2>7 DEF Ready
<1> QED
  BY <1>7, <1>8

(* The nodes of the messages G, and all nodes with these removed.          *)
Marked(G) == {i \in DOMAIN nodes : nodes[i].msg \in G}

MarkedNodes(G) ==
  [i \in DOMAIN nodes |->
     IF i \in Marked(G) THEN [nodes[i] EXCEPT !.state = "removed"] ELSE nodes[i]]

(* Marking changes the state of the marked nodes and nothing else.         *)
LEMMA MarkNodes ==
  ASSUME nodes \in Seq(NodeRecord), NEW G
  PROVE  /\ Marked(G) \subseteq 1 .. Len(nodes)
         /\ \A i \in 1 .. Len(nodes) : i \in Marked(G) <=> nodes[i].msg \in G
         /\ MarkedNodes(G) \in Seq(NodeRecord) /\ Len(MarkedNodes(G)) = Len(nodes)
         /\ \A i \in 1 .. Len(nodes) :
              /\ MarkedNodes(G)[i].msg = nodes[i].msg
              /\ MarkedNodes(G)[i].state = IF i \in Marked(G) THEN "removed" ELSE nodes[i].state
<1> DEFINE D == Marked(G)  rs == MarkedNodes(G)
<1>1. /\ Len(nodes) \in Nat /\ DOMAIN nodes = 1 .. Len(nodes)
      /\ \A i \in 1 .. Len(nodes) :
           nodes[i] = [msg |-> nodes[i].msg, state |-> nodes[i].state]
  BY NodeFacts
<1>2. \A i \in 1 .. Len(nodes) : i \in D <=> nodes[i].msg \in G
  BY <1>1 DEF Marked
<1>3. rs \in Seq(NodeRecord)
  <2>1. rs = [i \in DOMAIN nodes |->
                IF nodes[i].msg \in G THEN [nodes[i] EXCEPT !.state = "removed"] ELSE nodes[i]]
    BY DEF Marked, MarkedNodes
  <2>2. "removed" \in {"empty", "full", "removed"}
    OBVIOUS
  <2>3. [i \in DOMAIN nodes |->
                IF nodes[i].msg \in G THEN [nodes[i] EXCEPT !.state = "removed"] ELSE nodes[i]]
           \in Seq(NodeRecord)
    BY <2>2, MapNodesType
  <2> QED
    BY <2>1, <2>3
<1>4. Len(rs) = Len(nodes)
  <2>1. DOMAIN rs = 1 .. Len(rs) /\ DOMAIN rs = 1 .. Len(nodes) /\ Len(rs) \in Nat
    BY <1>1, <1>3, LenProperties DEF MarkedNodes
  <2>2. \A n, k \in Nat : (1 .. n) = (1 .. k) => n = k
    <3> SUFFICES ASSUME NEW n \in Nat, NEW k \in Nat, (1 .. n) = (1 .. k) PROVE n <= k /\ k <= n
      OBVIOUS
    <3>1. n > 0 => n \in 1 .. k
      OBVIOUS
    <3>2. k > 0 => k \in 1 .. n
      OBVIOUS
    <3> QED
      BY <3>1, <3>2
  <2> HIDE DEF rs
  <2> QED
    BY <1>1, <2>1, <2>2
<1>5. \A i \in 1 .. Len(nodes) :
        rs[i] = IF i \in D THEN [nodes[i] EXCEPT !.state = "removed"] ELSE nodes[i]
  BY <1>1 DEF MarkedNodes
<1>6. \A i \in 1 .. Len(nodes) : /\ rs[i].msg = nodes[i].msg
                                 /\ rs[i].state = IF i \in D THEN "removed" ELSE nodes[i].state
  <2> SUFFICES ASSUME NEW i \in 1 .. Len(nodes)
               PROVE  /\ rs[i].msg = nodes[i].msg
                      /\ rs[i].state = IF i \in D THEN "removed" ELSE nodes[i].state
    OBVIOUS
  <2>1. nodes[i] = [msg |-> nodes[i].msg, state |-> nodes[i].state]
    BY <1>1
  <2>2. i \in D => rs[i] = [msg |-> nodes[i].msg, state |-> "removed"]
    BY <1>5, <2>1
  <2>3. i \notin D => rs[i] = nodes[i]
    BY <1>5
  <2> QED
    BY <2>2, <2>3
<1> QED
  BY <1>1, <1>2, <1>3, <1>4, <1>6 DEF Marked

(* ... and then passed over.                                               *)
LEMMA MarkTakes ==
  ASSUME nodes \in Seq(NodeRecord), NEW D, NEW G, NEW rs \in Seq(NodeRecord),
         \A i \in 1 .. Len(nodes) : i \in D <=> nodes[i].msg \in G,
         Len(rs) = Len(nodes),
         \A i \in 1 .. Len(nodes) :
              /\ rs[i].msg = nodes[i].msg
              /\ rs[i].state = IF i \in D THEN "removed" ELSE nodes[i].state,
         \A i \in D : nodes[i].state # "empty",
         nodes' = SkipRemoved(rs)
  PROVE  \E d : Takes(G, d)
<1>1. PICK d \in 0 .. Len(rs) : /\ Dropped(nodes', rs, d)
                                /\ \A i \in 1 .. d : rs[i].state = "removed"
  BY SkipDrops
<1>2. nodes' \in Seq(NodeRecord) /\ Len(nodes') \in Nat /\ Len(nodes) \in Nat
  BY SkipRemovedType, LenProperties
<1>3. /\ d \in 0 .. Len(nodes) /\ Len(nodes') = Len(nodes) - d
      /\ \A i \in 1 .. Len(nodes') : nodes'[i] = rs[i + d]
  BY <1>1 DEF Dropped
<1>4. \A i \in 1 .. Len(nodes') : i + d \in 1 .. Len(nodes)
  BY <1>2, <1>3
<1>5. \A i \in 1 .. d : i \in 1 .. Len(nodes)
  BY <1>2, <1>3
<1>6. \A i \in 1 .. d : nodes[i].state = "removed" \/ i \in D
  BY <1>1, <1>5
<1>7. \A i \in 1 .. Len(nodes') :
          /\ nodes'[i].msg = nodes[i + d].msg
          /\ nodes'[i].state = IF i + d \in D THEN "removed" ELSE nodes[i + d].state
  BY <1>3, <1>4
<1>8. Thinned(d)
  <2>1. \A j \in 1 .. d : nodes[j].state # "empty"
    BY <1>6
  <2> QED
    BY <1>2, <1>3, <1>7, <2>1 DEF Thinned
<1>9. \A j \in 1 .. d : nodes[j].state # "removed" => nodes[j].msg \in G
  BY <1>5, <1>6
<1>10. \A i \in 1 .. Len(nodes') :
         nodes'[i].state # "removed" <=> nodes[i + d].state # "removed" /\ nodes[i + d].msg \notin G
  BY <1>4, <1>7
<1> QED
  BY <1>8, <1>9, <1>10 DEF Takes

(* As many nodes as messages, since each message has one node.             *)
LEMMA MarkCount ==
  ASSUME nodes \in Seq(NodeRecord), PutsApart, NEW D, NEW G, G \subseteq Live,
         D \subseteq 1 .. Len(nodes),
         \A i \in 1 .. Len(nodes) : i \in D <=> nodes[i].msg \in G
  PROVE  Cardinality(G) = Cardinality(D)
<1> DEFINE f == [i \in D |-> nodes[i].msg]
<1>1. DOMAIN nodes = 1 .. Len(nodes) /\ Len(nodes) \in Nat
  BY NodeFacts
<1>2. f \in [D -> G] /\ \A i, j \in D : f[i] = f[j] => i = j
  BY <1>1 DEF PutsApart
<1>3. \A m \in G : \E i \in D : f[i] = m
  <2>1. \A m \in G : \E i \in DOMAIN nodes : nodes[i].msg = m
    BY DEF Live
  <2> QED
    BY <1>1, <2>1
<1> HIDE DEF f
<1>4. ExistsBijection(D, G)
  <2>1. f \in Injection(D, G)
    BY <1>2 DEF Injection, IsInjective
  <2>2. f \in Surjection(D, G)
    BY <1>2, <1>3 DEF Surjection
  <2> QED
    BY <2>1, <2>2 DEF ExistsBijection, Bijection
<1>5. IsFiniteSet(D)
  <2>1. IsFiniteSet(1 .. Len(nodes))
    BY <1>1, FS_Interval
  <2> QED
    BY <2>1, FS_Subset
<1> QED
  BY <1>4, <1>5, FS_Bijection

(* The reaper removes the messages that have expired.                      *)
LEMMA ReapNodes ==
  ASSUME NodeInv, QueueTypeOK, NEW t \in Threads, ReapWork(t), pc'[t] # "crash",
         ThreadTypeOK, PutsStay
  PROVE  NodeInv' /\ bufferedMsgs' <= bufferedMsgs
<1> DEFINE G  == expiryData \cap late
           D  == Marked(G)
           rs == MarkedNodes(G)
<1>0. nodes \in Seq(NodeRecord) /\ bufferedMsgs \in Int
  BY DEF QueueTypeOK
<1>1. /\ ~\E i \in D : nodes[i].state = "empty"
      /\ nodes' = SkipRemoved(rs)
      /\ bufferedMsgs' = bufferedMsgs - Cardinality(D)
      /\ expiryData' = expiryData \ late
  BY DEF ReapWork, Goto, ThreadTypeOK, Marked, MarkedNodes
<1>2. /\ D \subseteq 1 .. Len(nodes)
      /\ \A i \in 1 .. Len(nodes) : i \in D <=> nodes[i].msg \in G
      /\ rs \in Seq(NodeRecord) /\ Len(rs) = Len(nodes)
      /\ \A i \in 1 .. Len(nodes) :
           /\ rs[i].msg = nodes[i].msg
           /\ rs[i].state = IF i \in D THEN "removed" ELSE nodes[i].state
  BY <1>0, MarkNodes
<1>3. G \subseteq Live /\ expiryData' = expiryData \ G
  BY <1>1 DEF NodeInv, ExpiryExact
<1> HIDE DEF D, rs, G
<1>4. PICK d : Takes(G, d)
  BY <1>0, <1>1, <1>2, MarkTakes
<1>5. Cardinality(G) = Cardinality(D)
  BY <1>0, <1>2, <1>3, MarkCount DEF NodeInv
<1>6. Cardinality(G) \in Nat
  BY <1>0, <1>3, LiveFinite, FS_Subset, FS_CardinalityType
<1>7. NodeInv'
  BY <1>0, <1>1, <1>3, <1>4, <1>5, TakesNodes
<1>8. bufferedMsgs' <= bufferedMsgs
  BY <1>0, <1>1, <1>5, <1>6
<1> QED
  BY <1>7, <1>8

(* A put takes a node at the tail of the queue.                            *)
LEMMA EnqueueNodes ==
  ASSUME NodeInv, QueueTypeOK, NEW t \in Threads, Alone(t), Enqueue(t), ThreadTypeOK
  PROVE  NodeInv' /\ (Ready' => Ready)
<1> DEFINE m == loc[t].cur
<1>0. nodes \in Seq(NodeRecord) /\ bufferedMsgs \in Int
  BY DEF QueueTypeOK
<1>1. /\ pc[t] = "enqueue" /\ pc'[t] = "count" /\ nodes' = Append(nodes, Node(m))
      /\ bufferedMsgs' = bufferedMsgs /\ expiryData' = expiryData
      /\ loc' = loc /\ fate' = fate
  BY DEF Enqueue, Goto, ThreadTypeOK, msgVars
<1>2. \A u \in Threads : u # t => pc'[u] = pc[u]
  BY DEF Alone
<1>3. /\ "enqueue" \in PutPcs \ FillPcs /\ "count" \in FillPcs /\ FillPcs \subseteq PutPcs
      /\ "enqueue" \notin {"count", "addExpiry"}
  BY DEF PutPcs, FillPcs
<1>4. /\ m \in Msgs /\ fate[m] # "unsent" /\ \A i \in DOMAIN nodes : nodes[i].msg # m
      /\ \A u \in Threads : pc[u] \in PutPcs /\ loc[u].cur = m => u = t
  BY <1>1, <1>3 DEF NodeInv, PutsApart
<1> HIDE DEF m
<1>5. Node(m) \in NodeRecord /\ Node(m).msg = m /\ Node(m).state = "empty"
  BY <1>4 DEF Node, NodeRecord
<1>6. /\ Len(nodes) \in Nat /\ DOMAIN nodes = 1 .. Len(nodes)
      /\ nodes' \in Seq(NodeRecord) /\ Len(nodes') = Len(nodes) + 1
      /\ DOMAIN nodes' = 1 .. (Len(nodes) + 1)
      /\ nodes'[Len(nodes) + 1] = Node(m)
      /\ \A i \in DOMAIN nodes : nodes'[i] = nodes[i]
  <2>1. Len(nodes) \in Nat /\ DOMAIN nodes = 1 .. Len(nodes)
    BY <1>0, LenProperties
  <2>2. /\ nodes' \in Seq(NodeRecord) /\ Len(nodes') = Len(nodes) + 1
        /\ nodes'[Len(nodes) + 1] = Node(m)
        /\ \A i \in 1 .. Len(nodes) : nodes'[i] = nodes[i]
    BY <1>0, <1>1, <1>5, AppendProperties
  <2>3. DOMAIN nodes' = 1 .. Len(nodes')
    BY <2>2, LenProperties
  <2> QED
    BY <2>1, <2>2, <2>3
<1>7. /\ \A i \in DOMAIN nodes' : i = Len(nodes) + 1 \/ i \in DOMAIN nodes
      /\ Len(nodes) + 1 \in DOMAIN nodes' /\ \A i \in DOMAIN nodes : i \in DOMAIN nodes'
  BY <1>6
<1>8. PutsApart'
  <2>1. \A u \in Threads : pc'[u] \in PutPcs =>
          pc[u] \in PutPcs /\ loc'[u].cur \in Msgs /\ fate'[loc'[u].cur] # "unsent"
    BY <1>1, <1>2, <1>3 DEF NodeInv, PutsApart
  <2>2. \A u, v \in Threads :
          pc'[u] \in PutPcs /\ pc'[v] \in PutPcs /\ loc'[u].cur = loc'[v].cur => u = v
    BY <1>1, <2>1 DEF NodeInv, PutsApart
  <2>3. \A i \in DOMAIN nodes' : fate'[nodes'[i].msg] # "unsent"
    BY <1>1, <1>4, <1>5, <1>6, <1>7 DEF NodeInv, PutsApart
  <2>4. \A i, j \in DOMAIN nodes' : nodes'[i].msg = nodes'[j].msg => i = j
    BY <1>4, <1>5, <1>6, <1>7 DEF NodeInv, PutsApart
  <2>5. \A u \in Threads : pc'[u] \in PutPcs \ FillPcs =>
          \A i \in DOMAIN nodes' : nodes'[i].msg # loc'[u].cur
    <3> SUFFICES ASSUME NEW u \in Threads, pc'[u] \in PutPcs \ FillPcs, NEW i \in DOMAIN nodes'
                 PROVE  nodes'[i].msg # loc'[u].cur
      OBVIOUS
    <3>1. u # t /\ pc[u] \in PutPcs \ FillPcs /\ loc'[u].cur = loc[u].cur
      BY <1>1, <1>2, <1>3
    <3>2. loc[u].cur # m
      BY <1>4, <3>1
    <3>3. \A j \in DOMAIN nodes : nodes[j].msg # loc[u].cur
      BY <3>1 DEF NodeInv, PutsApart
    <3> QED
      BY <1>5, <1>6, <1>7, <3>1, <3>2, <3>3
  <2> QED
    BY <2>1, <2>2, <2>3, <2>4, <2>5 DEF PutsApart
<1>9. EmptyNodes'
  <2>1. \A i \in DOMAIN nodes' : nodes'[i].state = "empty" =>
          \E u \in Threads : pc'[u] \in FillPcs /\ loc'[u].cur = nodes'[i].msg
    <3> SUFFICES ASSUME NEW i \in DOMAIN nodes', nodes'[i].state = "empty"
                 PROVE  \E u \in Threads : pc'[u] \in FillPcs /\ loc'[u].cur = nodes'[i].msg
      OBVIOUS
    <3>1. CASE i \in DOMAIN nodes
      <4>1. PICK u \in Threads : pc[u] \in FillPcs /\ loc[u].cur = nodes[i].msg
        BY <1>6, <3>1 DEF NodeInv, EmptyNodes
      <4> QED
        BY <1>1, <1>2, <1>3, <1>6, <3>1, <4>1
    <3>2. CASE i = Len(nodes) + 1
      BY <1>1, <1>3, <1>5, <1>6, <3>2 DEF m
    <3> QED
      BY <1>7, <3>1, <3>2
  <2>2. \A u \in Threads : pc'[u] \in FillPcs =>
          \E i \in DOMAIN nodes' : nodes'[i] = Node(loc'[u].cur)
    <3> SUFFICES ASSUME NEW u \in Threads, pc'[u] \in FillPcs
                 PROVE  \E i \in DOMAIN nodes' : nodes'[i] = Node(loc'[u].cur)
      OBVIOUS
    <3>1. CASE u = t
      BY <1>1, <1>6, <1>7, <3>1 DEF m
    <3>2. CASE u # t
      <4>1. PICK i \in DOMAIN nodes : nodes[i] = Node(loc[u].cur)
        BY <1>2, <3>2 DEF NodeInv, EmptyNodes
      <4> QED
        BY <1>1, <1>6, <1>7, <4>1
    <3> QED
      BY <3>1, <3>2
  <2> QED
    BY <2>1, <2>2 DEF EmptyNodes
<1>10. Live' = Live \cup {m} /\ m \notin Live
  <2>1. \A x : x \in Live' <=> \E i \in DOMAIN nodes' : nodes'[i].state # "removed" /\ nodes'[i].msg = x
    BY DEF Live
  <2>2. \A x : x \in Live <=> \E i \in DOMAIN nodes : nodes[i].state # "removed" /\ nodes[i].msg = x
    BY DEF Live
  <2>3. \A x : x \in Live' <=> x \in Live \/ x = m
    BY <1>5, <1>6, <1>7, <2>1, <2>2
  <2> QED
    BY <1>4, <2>2, <2>3
<1>11. Counting' = Counting \cup {t} /\ t \notin Counting
  BY <1>1, <1>2 DEF Counting
<1>12. CountExact'
  <2>1. IsFiniteSet(Live) /\ IsFiniteSet(Counting)
        /\ bufferedMsgs + Cardinality(Counting) = Cardinality(Live)
    BY <1>0, LiveFinite DEF NodeInv, CountExact
  <2>2. /\ IsFiniteSet(Counting \cup {t})
        /\ Cardinality(Counting \cup {t}) = Cardinality(Counting) + 1
        /\ Cardinality(Live \cup {m}) = Cardinality(Live) + 1
    BY <1>10, <1>11, <2>1, FS_AddElement
  <2>3. Cardinality(Live) \in Nat /\ Cardinality(Counting) \in Nat
    BY <2>1, FS_CardinalityType
  <2>4. bufferedMsgs + Cardinality(Counting \cup {t}) = Cardinality(Live \cup {m})
    BY <1>0, <2>1, <2>2, <2>3
  <2> QED
    BY <1>1, <1>10, <1>11, <2>2, <2>4 DEF CountExact
<1>13. ExpiryExact'
  <2>1. \A x : (\E u \in Threads : pc'[u] \in {"count", "addExpiry"} /\ loc'[u].cur = x)
           <=> x = m \/ (\E u \in Threads : pc[u] \in {"count", "addExpiry"} /\ loc[u].cur = x)
    BY <1>1, <1>2, <1>3 DEF m
  <2>2. \A u \in Threads : pc'[u] = "addExpiry" => loc'[u].cur \in Expiring
    BY <1>1, <1>2 DEF NodeInv, ExpiryExact
  <2>3. expiryData' = {x \in Expiring \cap Live' :
          ~\E u \in Threads : pc'[u] \in {"count", "addExpiry"} /\ loc'[u].cur = x}
    BY <1>1, <1>10, <2>1 DEF NodeInv, ExpiryExact
  <2> QED
    BY <2>2, <2>3 DEF ExpiryExact
<1>14. ASSUME Ready' PROVE Ready
  <2>1. PICK i \in 1 .. Len(nodes') : /\ nodes'[i].state = "full"
                                      /\ \A j \in 1 .. (i - 1) : nodes'[j].state = "removed"
    BY <1>6, <1>14, ReadyIs DEF Ready
  <2>2. i \in 1 .. Len(nodes)
    BY <1>5, <1>6, <2>1
  <2>3. \A j \in 1 .. (i - 1) : j \in 1 .. Len(nodes)
    BY <1>6, <2>2
  <2>4. nodes[i].state = "full" /\ \A j \in 1 .. (i - 1) : nodes[j].state = "removed"
    BY <1>6, <2>1, <2>2, <2>3
  <2> QED
    BY <1>0, <2>2, <2>4, ReadyIs DEF Ready
<1> QED
  BY <1>8, <1>9, <1>12, <1>13, <1>14 DEF NodeInv

(* A put that goes on filling its node.                                    *)
LEMMA FillApart ==
  ASSUME NodeInv, QueueTypeOK, NEW t \in Threads, Alone(t), pc[t] \in FillPcs, pc'[t] \in FillPcs,
         UNCHANGED <<nodes, loc, fate>>
  PROVE  PutsApart' /\ EmptyNodes' /\ Live' = Live
<1>1. \A u \in Threads : u # t => pc'[u] = pc[u]
  BY DEF Alone
<1>2. FillPcs \subseteq PutPcs
  BY DEF FillPcs, PutPcs
<1>3. PutsApart'
  BY <1>1, <1>2 DEF NodeInv, PutsApart
<1>4. EmptyNodes'
  BY <1>1 DEF NodeInv, EmptyNodes, Node
<1> QED
  BY <1>3, <1>4 DEF Live

(* The message is counted.                                                 *)
LEMMA CountNodes ==
  ASSUME NodeInv, QueueTypeOK, NEW t \in Threads, Alone(t), CountMessage(t), ThreadTypeOK
  PROVE  NodeInv'
<1>0. nodes \in Seq(NodeRecord) /\ bufferedMsgs \in Int
  BY DEF QueueTypeOK
<1>1. /\ pc[t] = "count" /\ pc'[t] = IF loc[t].cur \in Expiring THEN "addExpiry" ELSE "store"
      /\ bufferedMsgs' = bufferedMsgs + 1 /\ UNCHANGED <<nodes, loc, fate, expiryData>>
  BY DEF CountMessage, Goto, ThreadTypeOK, msgVars
<1>2. \A u \in Threads : u # t => pc'[u] = pc[u]
  BY DEF Alone
<1>3. PutsApart' /\ EmptyNodes' /\ Live' = Live
  BY <1>1, FillApart DEF FillPcs
<1>4. Counting' = Counting \ {t} /\ t \in Counting
  BY <1>1, <1>2 DEF Counting
<1>5. CountExact'
  <2>1. IsFiniteSet(Live) /\ IsFiniteSet(Counting)
        /\ bufferedMsgs + Cardinality(Counting) = Cardinality(Live)
    BY <1>0, LiveFinite DEF NodeInv, CountExact
  <2>2. /\ IsFiniteSet(Counting \ {t})
        /\ Cardinality(Counting \ {t}) = Cardinality(Counting) - 1
    BY <1>4, <2>1, FS_RemoveElement
  <2>3. Cardinality(Live) \in Nat /\ Cardinality(Counting) \in Nat
    BY <2>1, FS_CardinalityType
  <2>4. (bufferedMsgs + 1) + Cardinality(Counting \ {t}) = Cardinality(Live)
    BY <1>0, <2>1, <2>2, <2>3
  <2> QED
    BY <1>1, <1>3, <1>4, <2>2, <2>4 DEF CountExact
<1>6. ExpiryExact'
  <2>1. \A x \in Expiring :
          (\E u \in Threads : pc'[u] \in {"count", "addExpiry"} /\ loc'[u].cur = x)
            <=> (\E u \in Threads : pc[u] \in {"count", "addExpiry"} /\ loc[u].cur = x)
    BY <1>1, <1>2
  <2>2. \A u \in Threads : pc'[u] = "addExpiry" => loc'[u].cur \in Expiring
    BY <1>1, <1>2 DEF NodeInv, ExpiryExact
  <2>3. expiryData' = {x \in Expiring \cap Live' :
          ~\E u \in Threads : pc'[u] \in {"count", "addExpiry"} /\ loc'[u].cur = x}
    BY <1>1, <1>3, <2>1 DEF NodeInv, ExpiryExact
  <2> QED
    BY <2>2, <2>3 DEF ExpiryExact
<1> QED
  BY <1>3, <1>5, <1>6 DEF NodeInv

(* Its expiry is recorded.                                                 *)
LEMMA AddExpiryNodes ==
  ASSUME NodeInv, QueueTypeOK, NEW t \in Threads, Alone(t), AddMessageExpiryData(t), ThreadTypeOK
  PROVE  NodeInv'
<1> DEFINE m == loc[t].cur
<1>0. nodes \in Seq(NodeRecord) /\ bufferedMsgs \in Int
  BY DEF QueueTypeOK
<1>1. /\ pc[t] = "addExpiry" /\ pc'[t] = "store"
      /\ expiryData' = expiryData \cup {m} /\ UNCHANGED <<nodes, loc, fate, bufferedMsgs>>
  BY DEF AddMessageExpiryData, Goto, ThreadTypeOK, msgVars
<1>2. \A u \in Threads : u # t => pc'[u] = pc[u]
  BY DEF Alone
<1>3. PutsApart' /\ EmptyNodes' /\ Live' = Live
  BY <1>1, FillApart DEF FillPcs
<1>4. Counting' = Counting
  BY <1>1, <1>2 DEF Counting
<1>5. CountExact'
  BY <1>1, <1>3, <1>4 DEF NodeInv, CountExact
<1>6. m \in Expiring \cap Live
  <2>1. PICK i \in DOMAIN nodes : nodes[i] = Node(m)
    BY <1>1 DEF NodeInv, EmptyNodes, FillPcs
  <2>2. nodes[i].msg = m /\ nodes[i].state # "removed"
    BY <2>1 DEF Node
  <2>3. m \in Live
    BY <1>0, <2>2, LiveFinite
  <2> QED
    BY <1>1, <2>3 DEF NodeInv, ExpiryExact
<1>7. \A u \in Threads : pc[u] \in {"count", "addExpiry"} /\ loc[u].cur = m => u = t
  BY <1>1 DEF NodeInv, PutsApart, PutPcs
<1>8. ExpiryExact'
  <2>1. \A x :
          (\E u \in Threads : pc'[u] \in {"count", "addExpiry"} /\ loc'[u].cur = x)
            <=> x # m /\ (\E u \in Threads : pc[u] \in {"count", "addExpiry"} /\ loc[u].cur = x)
    BY <1>1, <1>2, <1>7
  <2>2. \A u \in Threads : pc'[u] = "addExpiry" => loc'[u].cur \in Expiring
    BY <1>1, <1>2 DEF NodeInv, ExpiryExact
  <2> HIDE DEF m
  <2>3. expiryData' = {x \in Expiring \cap Live' :
          ~\E u \in Threads : pc'[u] \in {"count", "addExpiry"} /\ loc'[u].cur = x}
    BY <1>1, <1>3, <1>6, <2>1 DEF NodeInv, ExpiryExact
  <2> QED
    BY <2>2, <2>3 DEF ExpiryExact
<1> QED
  BY <1>3, <1>5, <1>8 DEF NodeInv

(* The message is stored: the put is done with its node.                   *)
LEMMA StoreNodes ==
  ASSUME NodeInv, QueueTypeOK, NEW t \in Threads, Alone(t), StoreMessage(t), ThreadTypeOK,
         QueueTypeOK'
  PROVE  NodeInv'
<1> DEFINE m == loc[t].cur
<1>0. nodes \in Seq(NodeRecord) /\ bufferedMsgs \in Int /\ nodes' \in Seq(NodeRecord)
  BY DEF QueueTypeOK
<1>1. /\ pc[t] = "store" /\ pc'[t] = "check"
      /\ UNCHANGED <<loc, fate, bufferedMsgs, expiryData>>
      /\ nodes' = [i \in DOMAIN nodes |->
                     IF nodes[i].msg = m THEN [nodes[i] EXCEPT !.state = "full"] ELSE nodes[i]]
  BY DEF StoreMessage, Call, Goto, ThreadTypeOK, msgVars
<1>2. \A u \in Threads : u # t => pc'[u] = pc[u]
  BY DEF Alone
<1>3. /\ "store" \in FillPcs /\ FillPcs \subseteq PutPcs /\ "check" \notin PutPcs
      /\ "store" \notin {"count", "addExpiry"} /\ "check" \notin {"count", "addExpiry"}
  BY DEF FillPcs, PutPcs
<1>4. \A u \in Threads : pc[u] \in PutPcs /\ loc[u].cur = m => u = t
  BY <1>1, <1>3 DEF NodeInv, PutsApart
<1>5. PICK k \in DOMAIN nodes : nodes[k] = Node(m)
  BY <1>1, <1>3 DEF NodeInv, EmptyNodes
<1>6. nodes[k].msg = m /\ nodes[k].state = "empty"
  BY <1>5 DEF Node
<1> HIDE DEF m
<1>7. \A i \in DOMAIN nodes : nodes[i].msg = m <=> i = k
  BY <1>5, <1>6 DEF NodeInv, PutsApart
<1>8. /\ DOMAIN nodes' = DOMAIN nodes
      /\ nodes'[k].msg = m /\ nodes'[k].state = "full"
      /\ \A i \in DOMAIN nodes : i # k => nodes'[i] = nodes[i]
      /\ \A i \in DOMAIN nodes : nodes'[i].msg = nodes[i].msg
  <2>1. DOMAIN nodes' = DOMAIN nodes
    BY <1>1
  <2>2. nodes'[k] = [nodes[k] EXCEPT !.state = "full"]
    BY <1>1, <1>6
  <2>3. nodes'[k].msg = m /\ nodes'[k].state = "full"
    BY <1>5, <2>2 DEF Node
  <2>4. \A i \in DOMAIN nodes : i # k => nodes'[i] = nodes[i]
    BY <1>1, <1>7
  <2> QED
    BY <1>6, <2>1, <2>3, <2>4
<1>9. PutsApart'
  <2>1. \A u \in Threads : pc'[u] \in PutPcs => u # t /\ pc'[u] = pc[u] /\ loc'[u] = loc[u]
    BY <1>1, <1>2, <1>3
  <2> QED
    BY <1>1, <1>8, <2>1 DEF NodeInv, PutsApart
<1>10. EmptyNodes'
  <2>1. \A i \in DOMAIN nodes' : nodes'[i].state = "empty" =>
          \E u \in Threads : pc'[u] \in FillPcs /\ loc'[u].cur = nodes'[i].msg
    <3> SUFFICES ASSUME NEW i \in DOMAIN nodes', nodes'[i].state = "empty"
                 PROVE  \E u \in Threads : pc'[u] \in FillPcs /\ loc'[u].cur = nodes'[i].msg
      OBVIOUS
    <3>1. i # k /\ i \in DOMAIN nodes /\ nodes'[i] = nodes[i]
      BY <1>8
    <3>2. PICK u \in Threads : pc[u] \in FillPcs /\ loc[u].cur = nodes[i].msg
      BY <3>1 DEF NodeInv, EmptyNodes
    <3>3. u # t
      BY <1>7, <3>1, <3>2 DEF m
    <3> QED
      BY <1>1, <1>2, <3>1, <3>2, <3>3
  <2>2. \A u \in Threads : pc'[u] \in FillPcs =>
          \E i \in DOMAIN nodes' : nodes'[i] = Node(loc'[u].cur)
    <3> SUFFICES ASSUME NEW u \in Threads, pc'[u] \in FillPcs
                 PROVE  \E i \in DOMAIN nodes' : nodes'[i] = Node(loc'[u].cur)
      OBVIOUS
    <3>1. u # t /\ pc[u] \in FillPcs
      BY <1>1, <1>2, <1>3
    <3>2. PICK i \in DOMAIN nodes : nodes[i] = Node(loc[u].cur)
      BY <3>1 DEF NodeInv, EmptyNodes
    <3>3. loc[u].cur # m
      BY <1>3, <1>4, <3>1
    <3>4. nodes[i].msg = loc[u].cur
      BY <3>2 DEF Node
    <3>5. i # k
      BY <1>6, <3>3, <3>4
    <3> QED
      BY <1>1, <1>8, <3>2, <3>5
  <2> QED
    BY <2>1, <2>2 DEF EmptyNodes
<1>11. Live' = Live
  <2>1. \A x : x \in Live' <=> \E i \in DOMAIN nodes' : nodes'[i].state # "removed" /\ nodes'[i].msg = x
    BY DEF Live
  <2>2. \A x : x \in Live <=> \E i \in DOMAIN nodes : nodes[i].state # "removed" /\ nodes[i].msg = x
    BY DEF Live
  <2>3. \A i \in DOMAIN nodes : nodes'[i].state # "removed" <=> nodes[i].state # "removed"
    BY <1>6, <1>8
  <2>4. \A x : x \in Live' <=> x \in Live
    BY <1>8, <2>1, <2>2, <2>3
  <2> QED
    BY <2>4
<1>12. Counting' = Counting
  BY <1>1, <1>2 DEF Counting
<1>13. CountExact'
  BY <1>1, <1>11, <1>12 DEF NodeInv, CountExact
<1>14. ExpiryExact'
  <2>1. \A x : (\E u \in Threads : pc'[u] \in {"count", "addExpiry"} /\ loc'[u].cur = x)
           <=> (\E u \in Threads : pc[u] \in {"count", "addExpiry"} /\ loc[u].cur = x)
    BY <1>1, <1>2, <1>3
  <2>2. \A u \in Threads : pc'[u] = "addExpiry" => loc'[u].cur \in Expiring
    BY <1>1, <1>2 DEF NodeInv, ExpiryExact
  <2>3. expiryData' = {x \in Expiring \cap Live' :
          ~\E u \in Threads : pc'[u] \in {"count", "addExpiry"} /\ loc'[u].cur = x}
    BY <1>1, <1>11, <2>1 DEF NodeInv, ExpiryExact
  <2> QED
    BY <2>2, <2>3 DEF ExpiryExact
<1> QED
  BY <1>9, <1>10, <1>13, <1>14 DEF NodeInv

(* A message that is ready has been counted.                               *)
LEMMA ReadyCounted ==
  ASSUME NodeInv, QueueTypeOK, Ready
  PROVE  bufferedMsgs > 0
<1>0. nodes \in Seq(NodeRecord) /\ bufferedMsgs \in Int
  BY DEF QueueTypeOK
<1>1. PICK i \in 1 .. Len(nodes) : nodes[i].state = "full"
  BY <1>0, ReadyIs DEF Ready
<1> DEFINE m == nodes[i].msg
           f == [t \in Counting |-> loc[t].cur]
<1>2. i \in DOMAIN nodes
  BY <1>0, NodeFacts
<1>3. m \in Live /\ IsFiniteSet(Live)
  BY <1>0, <1>1, <1>2, LiveFinite
<1>4. \A t \in Counting : pc[t] = "count" /\ t \in Threads
  BY DEF Counting
<1>5. f \in [Counting -> Live \ {m}]
  <2> SUFFICES ASSUME NEW t \in Counting PROVE loc[t].cur \in Live /\ loc[t].cur # m
    OBVIOUS
  <2>1. PICK k \in DOMAIN nodes : nodes[k] = Node(loc[t].cur)
    BY <1>4 DEF NodeInv, EmptyNodes, FillPcs
  <2>2. nodes[k].msg = loc[t].cur /\ nodes[k].state = "empty"
    BY <2>1 DEF Node
  <2>3. loc[t].cur \in Live
    BY <1>0, <2>2, LiveFinite
  <2>4. k # i
    BY <1>1, <2>2
  <2> QED
    BY <1>2, <2>2, <2>3, <2>4 DEF NodeInv, PutsApart
<1>6. \A t, u \in Counting : f[t] = f[u] => t = u
  BY <1>4 DEF NodeInv, PutsApart, PutPcs
<1> HIDE DEF f, m
<1>7. f \in Injection(Counting, Live \ {m})
  BY <1>5, <1>6 DEF Injection, IsInjective
<1>8. IsFiniteSet(Live \ {m}) /\ Cardinality(Live \ {m}) = Cardinality(Live) - 1
  BY <1>3, FS_RemoveElement
<1>9. Cardinality(Counting) <= Cardinality(Live \ {m}) /\ IsFiniteSet(Counting)
  BY <1>7, <1>8, FS_Injection
<1>10. Cardinality(Live) \in Nat /\ Cardinality(Counting) \in Nat
  BY <1>3, <1>9, FS_CardinalityType
<1>11. bufferedMsgs + Cardinality(Counting) = Cardinality(Live)
  BY DEF NodeInv, CountExact
<1> QED
  BY <1>0, <1>8, <1>9, <1>10, <1>11

(* When messages are counted and none is ready the first is being put.     *)
LEMMA CountedReady ==
  ASSUME NodeInv, QueueTypeOK, bufferedMsgs > 0, ~Ready
  PROVE  \E t \in Threads : pc[t] \in FillPcs
<1>0. nodes \in Seq(NodeRecord) /\ bufferedMsgs \in Int
  BY DEF QueueTypeOK
<1>1. Len(nodes) \in Nat /\ DOMAIN nodes = 1 .. Len(nodes)
  BY <1>0, NodeFacts
<1>2. CASE SkipRemoved(nodes) # << >>
  BY <1>0, <1>1, <1>2, ReadyIs DEF Ready, NodeInv, EmptyNodes
<1>3. CASE SkipRemoved(nodes) = << >>
  <2>1. \A i \in DOMAIN nodes : nodes[i].state = "removed"
    BY <1>0, <1>1, <1>3, ReadyIs
  <2>2. Live = {}
    BY <2>1 DEF Live
  <2>3. IsFiniteSet(Counting) /\ bufferedMsgs + Cardinality(Counting) = Cardinality(Live)
    BY DEF NodeInv, CountExact
  <2>4. Cardinality(Counting) \in Nat /\ Cardinality(Live) = 0
    BY <2>2, <2>3, FS_CardinalityType, FS_EmptySet
  <2> QED
    BY <1>0, <2>3, <2>4
<1> QED
  BY <1>2, <1>3

-----------------------------------------------------------------------------
(* Steps that leave everything as it is *)

(* A step neither opens the waiter nor forgets that a discard is due.      *)
StatusQuiet(t) ==
  /\ \/ waiterStatus' = waiterStatus
     \/ waiterStatus' \notin {WS_ENABLED, WS_GETTING}
     \/ Owner(t)'
  /\ RECLAIMSPACE_PEND \in waiterStatus => RECLAIMSPACE_PEND \in waiterStatus'

(* A step of a thread of which nothing is expected.                        *)
Quiet(t) ==
  /\ pc[t] \notin MovePcs /\ pc[t] \notin DiscardPcs
  /\ SessionQuiet /\ StatusQuiet(t)
  /\ UNCHANGED <<nodes, bufferedMsgs, expiryData, fate>>

(* Points at which nothing is asked of the stack or of the locals.         *)
QuietPcs ==
  (LockPcs \cup FreePcs) \
    (LockedPcs \cup PutPcs \cup
       {"empty", "idle", "suspended", "stopDisable", "sessMark", "sessNack", "acquire", "enable",
        "complete", "waiterDisabledCB", "endStop", "completeUnlock", "disabling", "reclaim"})

(* The owner of the lock has not opened the waiter.                        *)
LEMMA OwnerNotOpen ==
  ASSUME Inv', NEW t \in Threads, Owner(t)', pc'[t] # "empty"
  PROVE  ~WaiterOpen'
<1>1. /\ \A u \in Threads : Owner(u)' => u = t
      /\ IsLocked(waiterStatus') /\ waiterStatus' \in Status
  BY DEF Inv, LockInv, LockExclusion, TypeOK, QueueTypeOK
<1>2. waiterStatus' # WS_ENABLED
  BY <1>1, LockedCases
<1>3. \A u \in Threads : pc'[u] = "empty" => Owner(u)'
  BY DEF Owner, LockPcs
<1> QED
  BY <1>1, <1>2, <1>3 DEF WaiterOpen

(* Such a status does not open the waiter.                                 *)
LEMMA OpenKept ==
  ASSUME Inv, Inv', NEW t \in Threads, Alone(t), StatusQuiet(t), pc'[t] # "empty"
  PROVE  WaiterOpen' => WaiterOpen
<1>1. CASE Owner(t)'
  BY <1>1, OwnerNotOpen
<1>2. CASE waiterStatus' = waiterStatus
  BY <1>2 DEF WaiterOpen, Alone
<1>3. CASE waiterStatus' \notin {WS_ENABLED, WS_GETTING}
  BY <1>3 DEF WaiterOpen
<1> QED
  BY <1>1, <1>2, <1>3 DEF StatusQuiet

(* At these points nothing is asked of the stack ...                       *)
LEMMA QuietMeets ==
  ASSUME NEW t \in Threads, pc'[t] \in QuietPcs
  PROVE  /\ StackMeets(t)' /\ pc'[t] \notin LockedPcs /\ pc'[t] \notin PutPcs /\ pc'[t] # "empty"
         /\ pc'[t] \notin FillPcs
BY DEF StackMeets, MayUnlock, QuietPcs, FillPcs, PutPcs

(* ... nor after a return, unless the caller asks for it.                  *)
LEMMA ReturnMeets ==
  ASSUME ThreadTypeOK, NEW t \in Threads, Return(t), UNCHANGED cb
  PROVE  /\ StackMeets(t)' /\ pc'[t] \notin PutPcs /\ pc'[t] # "empty"
         /\ pc'[t] \notin FillPcs
<1>1. /\ stack[t] = << >> => pc'[t] = "idle" /\ stack'[t] = << >> /\ loc'[t] = InitLoc
      /\ stack[t] # << >> => pc'[t] \in ReturnPcs
  BY ReturnMoved
<1>2. CASE stack[t] = << >>
  BY <1>1, <1>2 DEF StackMeets, MayUnlock, InitLoc, PutPcs, FillPcs
<1>3. CASE stack[t] # << >>
  BY <1>1, <1>3 DEF StackMeets, MayUnlock, ReturnPcs, PutPcs, FillPcs
<1> QED
  BY <1>2, <1>3

(* What is needed of types.                                                *)
LEMMA InvTypes ==
  ASSUME Inv
  PROVE  /\ ThreadTypeOK /\ QueueTypeOK /\ SessionTypeOK /\ nodes \in Seq(NodeRecord)
         /\ bufferedMsgs \in Int /\ waiterStatus \in Status
BY DEF Inv, TypeOK, QueueTypeOK

(* A step about something else leaves nothing undone ...                   *)
LEMMA PlainStep ==
  ASSUME Inv, Inv', RestInv, NEW t \in Threads, Moved(t), StackMeets(t)',
         pc[t] \notin MovePcs, pc[t] \notin DiscardPcs, SessionQuiet, StatusQuiet(t),
         UNCHANGED <<nodes, bufferedMsgs, expiryData>>, pc'[t] # "empty", pc'[t] \notin FillPcs,
         \A m \in Msgs : fate'[m] = "unsent" => fate[m] = "unsent",
         pc'[t] \in PutPcs =>
           \/ pc[t] \in PutPcs /\ loc'[t].cur = loc[t].cur
           \/ /\ loc'[t].cur \in Msgs /\ fate[loc'[t].cur] = "unsent"
              /\ fate'[loc'[t].cur] # "unsent"
  PROVE  RestInv'
<1>1. ControlInv'
  BY PlainControl DEF RestInv, MovePcs
<1>2. NodeInv'
  <2>1. Alone(t) /\ pc[t] \notin FillPcs
    BY DEF Moved, DiscardPcs
  <2>2. nodes \in Seq(NodeRecord)
    BY InvTypes
  <2> QED
    BY <2>1, <2>2, NodesStill DEF RestInv
<1>3. WakeInv'
  <2>1. Ready' <=> Ready
    BY DEF Ready, HeadReady, SkipRemoved
  <2>2. WaiterOpen' => WaiterOpen
    BY OpenKept DEF Moved
  <2> QED
    BY <2>1, <2>2, PlainWake DEF RestInv
<1>4. DiscardInv'
  BY InvTypes, PlainDiscard DEF RestInv, StatusQuiet
<1> QED
  BY <1>1, <1>2, <1>3, <1>4 DEF RestInv

(* ... when it goes on to one of those points,                             *)
LEMMA PlainGoto ==
  ASSUME Inv, Inv', RestInv, NEW t \in Threads, Quiet(t), NEW l \in QuietPcs, Goto(t, l),
         UNCHANGED <<stack, cb>>, \A u \in Threads : u # t => loc'[u] = loc[u]
  PROVE  RestInv'
<1>1. ThreadTypeOK /\ ThreadTypeOK'
  BY DEF Inv, TypeOK
<1>2. Moved(t) /\ pc'[t] = l
  BY <1>1, GotoMoved DEF QuietPcs
<1> QED
  BY <1>2, QuietMeets, PlainStep DEF Quiet

(* ... makes a call to one of them,                                        *)
LEMMA PlainPush ==
  ASSUME Inv, Inv', RestInv, NEW t \in Threads, Quiet(t), NEW l \in QuietPcs, Goto(t, l),
         NEW f \in Frame, f.pc \notin LockedPcs, stack' = [stack EXCEPT ![t] = <<f>> \o @],
         UNCHANGED cb, \A u \in Threads : u # t => loc'[u] = loc[u]
  PROVE  RestInv'
<1>1. ThreadTypeOK /\ ThreadTypeOK'
  BY DEF Inv, TypeOK
<1>2. Moved(t) /\ pc'[t] = l
  BY <1>1, PushMoved DEF QuietPcs
<1> QED
  BY <1>2, QuietMeets, PlainStep DEF Quiet

(* ... or returns.                                                         *)
LEMMA PlainReturn ==
  ASSUME Inv, Inv', RestInv, NEW t \in Threads, Quiet(t), Return(t), UNCHANGED cb
  PROVE  RestInv'
<1>1. ThreadTypeOK
  BY DEF Inv, TypeOK
<1>2. Moved(t)
  BY <1>1, ReturnMoved
<1>3. StackMeets(t)' /\ pc'[t] \notin PutPcs /\ pc'[t] # "empty" /\ pc'[t] \notin FillPcs
  BY <1>1, ReturnMeets
<1> QED
  BY <1>2, <1>3, PlainStep DEF Quiet

-----------------------------------------------------------------------------
(* Steps of which nothing is expected, one by one *)

(* The counts of the session do not matter, and a stop may end at any time.*)
LEMMA CountsQuiet ==
  ASSUME session \in SessionRecord,
         \/ UNCHANGED session
         \/ session' = [session EXCEPT !.activeCallbacks = @ - 1]
         \/ session' = [session EXCEPT !.activeCallbacks = @ + 1]
         \/ session' = [session EXCEPT !.useCount = @ - 1]
         \/ session' = [session EXCEPT !.stopping = FALSE, !.useCount = @ - 1]
         \/ session' = ReducePreNackAll(session)
  PROVE  SessionQuiet
BY DEF SessionQuiet, SessionRecord, ReducePreNackAll

(* The reaper gives up.                                                    *)
LEMMA ReapLockBusyRest ==
  ASSUME Inv, Inv', RestInv, NEW t \in Threads, ReapLockBusy(t)
  PROVE  RestInv'
<1>1. session \in SessionRecord /\ ThreadTypeOK
  BY DEF Inv, TypeOK, SessionTypeOK
<1>2. SessionQuiet
  BY <1>1, CountsQuiet DEF ReapLockBusy
<1>3. Quiet(t)
  BY <1>2 DEF ReapLockBusy, Quiet, StatusQuiet, queueVars, msgVars, MovePcs, LockedPcs, WakePcs, DiscardPcs, FillPcs
<1>4. "unlock" \in QuietPcs
  BY DEF QuietPcs, LockPcs, FreePcs, LockedPcs, PutPcs
<1> QED
  BY <1>1, <1>3, <1>4, PlainGoto DEF ReapLockBusy

(* The queue gives up its pointer.                                         *)
LEMMA DisconnectConsumerRest ==
  ASSUME Inv, Inv', RestInv, NEW t \in Threads, DisconnectConsumer(t)
  PROVE  RestInv'
<1>1. session \in SessionRecord /\ ThreadTypeOK
  BY DEF Inv, TypeOK, SessionTypeOK
<1>2. SessionQuiet
  BY <1>1, CountsQuiet DEF DisconnectConsumer
<1>3. Quiet(t)
  BY <1>2 DEF DisconnectConsumer, Quiet, StatusQuiet, queueVars, msgVars, MovePcs, LockedPcs, WakePcs, DiscardPcs, FillPcs
<1>4. "disconnecting" \in QuietPcs
  BY DEF QuietPcs, LockPcs, FreePcs, LockedPcs, PutPcs
<1> QED
  BY <1>1, <1>3, <1>4, PlainGoto DEF DisconnectConsumer

(* The consumer is freed.                                                  *)
LEMMA WaiterRemovedCallbackRest ==
  ASSUME Inv, Inv', RestInv, NEW t \in Threads, WaiterRemovedCallback(t)
  PROVE  RestInv'
<1>1. session \in SessionRecord /\ ThreadTypeOK
  BY DEF Inv, TypeOK, SessionTypeOK
<1>2. SessionQuiet
  BY <1>1, CountsQuiet DEF WaiterRemovedCallback
<1>3. Quiet(t)
  BY <1>2 DEF WaiterRemovedCallback, Quiet, StatusQuiet, queueVars, msgVars, MovePcs, LockedPcs, WakePcs, DiscardPcs, FillPcs
<1>4. "reducePreDelete" \in QuietPcs
  BY DEF QuietPcs, LockPcs, FreePcs, LockedPcs, PutPcs
<1> QED
  BY <1>1, <1>3, <1>4, PlainGoto DEF WaiterRemovedCallback

(* The callback of a disable that had been cancelled.                      *)
LEMMA UncancelCallbackRest ==
  ASSUME Inv, Inv', RestInv, NEW t \in Threads, UncancelCallback(t)
  PROVE  RestInv'
<1>1. session \in SessionRecord /\ ThreadTypeOK
  BY DEF Inv, TypeOK, SessionTypeOK
<1>2. SessionQuiet
  BY <1>1, CountsQuiet DEF UncancelCallback, WaiterDisabledStatus
<1>3. Quiet(t)
  BY <1>2 DEF UncancelCallback, Quiet, StatusQuiet, queueVars, msgVars, MovePcs, LockedPcs, WakePcs, DiscardPcs, FillPcs
<1>4. "uncancelEndStop" \in QuietPcs /\ "release" \in QuietPcs
  BY DEF QuietPcs, LockPcs, FreePcs, LockedPcs, PutPcs
<1> QED
  BY <1>1, <1>3, <1>4, PlainGoto DEF UncancelCallback, LastCallback

(* ... ends a stop.                                                        *)
LEMMA UncancelEndStopRest ==
  ASSUME Inv, Inv', RestInv, NEW t \in Threads, UncancelEndStop(t)
  PROVE  RestInv'
<1>1. session \in SessionRecord /\ ThreadTypeOK
  BY DEF Inv, TypeOK, SessionTypeOK
<1>2. SessionQuiet
  BY <1>1, CountsQuiet DEF UncancelEndStop, EndStop
<1>3. Quiet(t)
  BY <1>2 DEF UncancelEndStop, Quiet, StatusQuiet, queueVars, msgVars, MovePcs, LockedPcs, WakePcs, DiscardPcs, FillPcs
<1>4. "release" \in QuietPcs
  BY DEF QuietPcs, LockPcs, FreePcs, LockedPcs, PutPcs
<1> QED
  BY <1>1, <1>3, <1>4, PlainGoto DEF UncancelEndStop

(* The client is told that the consumer is gone.                           *)
LEMMA FinishDestroyConsumerRest ==
  ASSUME Inv, Inv', RestInv, NEW t \in Threads, FinishDestroyConsumer(t)
  PROVE  RestInv'
<1>1. session \in SessionRecord /\ ThreadTypeOK
  BY DEF Inv, TypeOK, SessionTypeOK
<1>2. SessionQuiet
  BY <1>1, CountsQuiet DEF FinishDestroyConsumer
<1>3. Quiet(t)
  BY <1>2 DEF FinishDestroyConsumer, Quiet, StatusQuiet, queueVars, msgVars, MovePcs, LockedPcs, WakePcs, DiscardPcs, FillPcs
<1>4. "term" \in QuietPcs
  BY DEF QuietPcs, LockPcs, FreePcs, LockedPcs, PutPcs
<1> QED
  BY <1>1, <1>3, <1>4, PlainGoto DEF FinishDestroyConsumer

(* A new consumer is connected to the queue.                               *)
LEMMA ConnectConsumerRest ==
  ASSUME Inv, Inv', RestInv, NEW t \in Threads, ConnectConsumer(t)
  PROVE  RestInv'
<1>1. session \in SessionRecord /\ ThreadTypeOK
  BY DEF Inv, TypeOK, SessionTypeOK
<1>2. SessionQuiet
  BY <1>1, CountsQuiet DEF ConnectConsumer
<1>3. Quiet(t)
  BY <1>2 DEF ConnectConsumer, Quiet, StatusQuiet, queueVars, msgVars, MovePcs, LockedPcs, WakePcs, DiscardPcs, FillPcs
<1>4. "createLink" \in QuietPcs
  BY DEF QuietPcs, LockPcs, FreePcs, LockedPcs, PutPcs
<1> QED
  BY <1>1, <1>3, <1>4, PlainGoto DEF ConnectConsumer

(* The getter has its message.                                             *)
LEMMA StateToDeliveringRest ==
  ASSUME Inv, Inv', RestInv, NEW t \in Threads, StateToDelivering(t)
  PROVE  RestInv'
<1>1. session \in SessionRecord /\ ThreadTypeOK
  BY DEF Inv, TypeOK, SessionTypeOK
<1>2. SessionQuiet
  BY <1>1, CountsQuiet DEF StateToDelivering
<1>3. Quiet(t)
  BY <1>2 DEF StateToDelivering, Quiet, StatusQuiet, queueVars, msgVars, MovePcs, LockedPcs, WakePcs, DiscardPcs, FillPcs, WS_DISCONNECTED, WS_ENABLED, WS_GETTING, WS_DELIVERING,
     RECLAIMSPACE_PEND, DISCONNECT_PEND
<1>4. "deliver" \in QuietPcs
  BY DEF QuietPcs, LockPcs, FreePcs, LockedPcs, PutPcs
<1> QED
  BY <1>1, <1>3, <1>4, PlainGoto DEF StateToDelivering

(* The waiter is disconnected.                                             *)
LEMMA DisconnectingRest ==
  ASSUME Inv, Inv', RestInv, NEW t \in Threads, Disconnecting(t)
  PROVE  RestInv'
<1>1. session \in SessionRecord /\ ThreadTypeOK
  BY DEF Inv, TypeOK, SessionTypeOK
<1>2. SessionQuiet
  BY <1>1, CountsQuiet DEF Disconnecting
<1>3. Quiet(t)
  BY <1>2 DEF Disconnecting, Quiet, StatusQuiet, queueVars, msgVars, MovePcs, LockedPcs, WakePcs, DiscardPcs, FillPcs, WS_DISCONNECTED, WS_ENABLED, WS_GETTING, WS_DELIVERING,
     RECLAIMSPACE_PEND, DISCONNECT_PEND
<1>4. "removed" \in QuietPcs
  BY DEF QuietPcs, LockPcs, FreePcs, LockedPcs, PutPcs
<1> QED
  BY <1>1, <1>3, <1>4, PlainGoto DEF Disconnecting

(* A put returns to its caller.                                            *)
LEMMA PutDoneRest ==
  ASSUME Inv, Inv', RestInv, NEW t \in Threads, PutDone(t)
  PROVE  RestInv'
<1>1. session \in SessionRecord
  BY DEF Inv, TypeOK, SessionTypeOK
<1>2. SessionQuiet
  BY <1>1, CountsQuiet DEF PutDone
<1>3. Quiet(t)
  BY <1>2 DEF PutDone, Quiet, StatusQuiet, queueVars, msgVars, MovePcs, LockedPcs, WakePcs, DiscardPcs, FillPcs
<1> QED
  BY <1>3, PlainReturn DEF PutDone

(* The reaper is done.                                                     *)
LEMMA ReapDoneRest ==
  ASSUME Inv, Inv', RestInv, NEW t \in Threads, ReapDone(t)
  PROVE  RestInv'
<1>1. session \in SessionRecord
  BY DEF Inv, TypeOK, SessionTypeOK
<1>2. SessionQuiet
  BY <1>1, CountsQuiet DEF ReapDone
<1>3. Quiet(t)
  BY <1>2 DEF ReapDone, Quiet, StatusQuiet, queueVars, msgVars, MovePcs, LockedPcs, WakePcs, DiscardPcs, FillPcs
<1> QED
  BY <1>3, PlainReturn DEF ReapDone

(* The session's creation reference is dropped.                            *)
LEMMA SessionReleaseRest ==
  ASSUME Inv, Inv', RestInv, NEW t \in Threads, SessionRelease(t)
  PROVE  RestInv'
<1>1. session \in SessionRecord
  BY DEF Inv, TypeOK, SessionTypeOK
<1>2. SessionQuiet
  BY <1>1, CountsQuiet DEF SessionRelease
<1>3. Quiet(t)
  BY <1>2 DEF SessionRelease, Quiet, StatusQuiet, queueVars, msgVars, MovePcs, LockedPcs, WakePcs, DiscardPcs, FillPcs
<1> QED
  BY <1>3, PlainReturn DEF SessionRelease

(* The caller has its new consumer.                                        *)
LEMMA CreateDoneRest ==
  ASSUME Inv, Inv', RestInv, NEW t \in Threads, CreateDone(t)
  PROVE  RestInv'
<1>1. session \in SessionRecord
  BY DEF Inv, TypeOK, SessionTypeOK
<1>2. SessionQuiet
  BY <1>1, CountsQuiet DEF CreateDone
<1>3. Quiet(t)
  BY <1>2 DEF CreateDone, Quiet, StatusQuiet, queueVars, msgVars, MovePcs, LockedPcs, WakePcs, DiscardPcs, FillPcs
<1> QED
  BY <1>3, PlainReturn DEF CreateDone

(* The stop is completed by the thread that stops.                         *)
LEMMA StopFinishRest ==
  ASSUME Inv, Inv', RestInv, NEW t \in Threads, StopFinish(t)
  PROVE  RestInv'
<1>1. session \in SessionRecord
  BY DEF Inv, TypeOK, SessionTypeOK
<1>2. SessionQuiet
  BY <1>1, CountsQuiet DEF StopFinish
<1>3. Quiet(t)
  BY <1>2 DEF StopFinish, Quiet, StatusQuiet, queueVars, msgVars, MovePcs, LockedPcs, WakePcs, DiscardPcs, FillPcs
<1> QED
  BY <1>3, PlainReturn DEF StopFinish

(* The queue has one user less.                                            *)
LEMMA ReducePreDeleteCountRest ==
  ASSUME Inv, Inv', RestInv, NEW t \in Threads, ReducePreDeleteCount(t)
  PROVE  RestInv'
<1>1. session \in SessionRecord
  BY DEF Inv, TypeOK, SessionTypeOK
<1>2. SessionQuiet
  BY <1>1, CountsQuiet DEF ReducePreDeleteCount
<1>3. Quiet(t)
  BY <1>2 DEF ReducePreDeleteCount, Quiet, StatusQuiet, queueVars, msgVars, MovePcs, LockedPcs, WakePcs, DiscardPcs, FillPcs
<1>4. "release" \in QuietPcs
  BY DEF QuietPcs, LockPcs, FreePcs, LockedPcs, PutPcs
<1> QED
  BY <1>3, <1>4, PlainGoto, PlainReturn DEF ReducePreDeleteCount, FinishComplete

(* A reference to a consumer is dropped.                                   *)
LEMMA ReleaseConsumerReferenceRest ==
  ASSUME Inv, Inv', RestInv, NEW t \in Threads, ReleaseConsumerReference(t)
  PROVE  RestInv'
<1>1. session \in SessionRecord
  BY DEF Inv, TypeOK, SessionTypeOK
<1>2. SessionQuiet
  BY <1>1, CountsQuiet DEF ReleaseConsumerReference
<1>3. Quiet(t)
  BY <1>2 DEF ReleaseConsumerReference, Quiet, StatusQuiet, queueVars, msgVars, MovePcs, LockedPcs, WakePcs, DiscardPcs, FillPcs
<1>4. "finishDestroy" \in QuietPcs
  BY DEF QuietPcs, LockPcs, FreePcs, LockedPcs, PutPcs
<1> QED
  BY <1>3, <1>4, PlainGoto, PlainReturn DEF ReleaseConsumerReference

(* All consumers have been told to stop.                                   *)
LEMMA StopDoneRest ==
  ASSUME Inv, Inv', RestInv, NEW t \in Threads, StopDone(t)
  PROVE  RestInv'
<1>1. session \in SessionRecord
  BY DEF Inv, TypeOK, SessionTypeOK
<1>2. SessionQuiet
  BY <1>1, CountsQuiet DEF StopDone
<1>3. Quiet(t)
  BY <1>2 DEF StopDone, Quiet, StatusQuiet, queueVars, msgVars, MovePcs, LockedPcs, WakePcs, DiscardPcs, FillPcs
<1>4. "stopFinish" \in QuietPcs
  BY DEF QuietPcs, LockPcs, FreePcs, LockedPcs, PutPcs
<1> QED
  BY <1>3, <1>4, PlainGoto, PlainReturn DEF StopDone

(* An enable that did nothing is taken back.                               *)
LEMMA EnableUndoRest ==
  ASSUME Inv, Inv', RestInv, NEW t \in Threads, EnableUndo(t)
  PROVE  RestInv'
<1>1. session \in SessionRecord
  BY DEF Inv, TypeOK, SessionTypeOK
<1>2. SessionQuiet
  BY <1>1, CountsQuiet DEF EnableUndo
<1>3. Quiet(t)
  BY <1>2 DEF EnableUndo, Quiet, StatusQuiet, queueVars, msgVars, MovePcs, LockedPcs, WakePcs, DiscardPcs, FillPcs
<1>4. "release" \in QuietPcs
  BY DEF QuietPcs, LockPcs, FreePcs, LockedPcs, PutPcs
<1> QED
  BY <1>3, <1>4, PlainGoto, PlainReturn DEF EnableUndo

(* The transitions of the status keep the flag that a discard is due, and  *)
(* only an enable opens the waiter.                                        *)
LEMMA TermKeepsFlag ==
  ASSUME NEW s \in Status, ~TermWaits(s)
  PROVE  /\ RECLAIMSPACE_PEND \in s => RECLAIMSPACE_PEND \in TermTo(s)
         /\ TermTo(s) \notin {WS_ENABLED, WS_GETTING}
<1>1. RECLAIMSPACE_PEND \in s => TermInvalid(s)
  BY DEF TermWaits, HasPending, PENDING
<1>2. TermInvalid(s) => TermTo(s) = s
  BY DEF TermTo
<1>3. TermInvalid(s) => s \notin {WS_ENABLED, WS_GETTING}
  BY DEF TermInvalid, WS_DISCONNECTED, WS_ENABLED, WS_GETTING, DISCONNECT_PEND
<1>4. ~TermInvalid(s) => TermTo(s) = {DISCONNECT_PEND}
  BY DEF TermTo
<1>5. {DISCONNECT_PEND} \notin {WS_ENABLED, WS_GETTING}
  BY DEF DISCONNECT_PEND, WS_ENABLED, WS_GETTING
<1> QED
  BY <1>1, <1>2, <1>3, <1>4, <1>5

(* A new flag keeps a reclaim that is pending, and the waiter is not open. *)
LEMMA AddKeepsFlag ==
  ASSUME NEW s, NEW f \in PENDING
  PROVE  /\ RECLAIMSPACE_PEND \in s => RECLAIMSPACE_PEND \in AddPendFlag(s, f)
         /\ AddPendFlag(s, f) \notin {WS_ENABLED, WS_GETTING}
         /\ f \in AddPendFlag(s, f)
BY DEF AddPendFlag, PENDING, WS_ENABLED, WS_GETTING, DISABLE_PEND, CANCEL_DISABLE_PEND,
       DISCONNECT_PEND, RECLAIMSPACE_PEND

(* So does iews_disableWaiter ...                                          *)
LEMMA DisableKeepsFlag ==
  ASSUME NEW s \in Status
  PROVE  /\ RECLAIMSPACE_PEND \in s => RECLAIMSPACE_PEND \in DisableTo(s)
         /\ DisableTo(s) \notin {WS_ENABLED, WS_GETTING}
<1> DEFINE o == DisableOutcome(s)
<1>1. o \in {"WaiterInvalid", "WaiterDisabled", "uncancel", "AsyncCompletion", "lock"}
  BY DEF DisableOutcome
<1>2. RECLAIMSPACE_PEND \in PENDING /\ DISABLE_PEND \in PENDING /\ DISCONNECT_PEND \in PENDING
      /\ RECLAIMSPACE_PEND # CANCEL_DISABLE_PEND
  BY DEF PENDING, RECLAIMSPACE_PEND, CANCEL_DISABLE_PEND
<1>3. \A x \in PENDING : x \notin WS_ENABLED /\ x \notin WS_GETTING /\ x \notin WS_DISABLED
  BY DEF PENDING, WS_ENABLED, WS_GETTING, WS_DISABLED, DISABLE_PEND, CANCEL_DISABLE_PEND,
         DISCONNECT_PEND, RECLAIMSPACE_PEND
<1>4. CASE o = "WaiterInvalid"
  <2>1. DisableTo(s) = s /\ (s = WS_DISCONNECTED \/ DISCONNECT_PEND \in s)
    BY <1>4 DEF DisableTo, DisableOutcome
  <2>2. WS_DISCONNECTED \notin {WS_ENABLED, WS_GETTING}
    BY DEF WS_DISCONNECTED, WS_ENABLED, WS_GETTING
  <2> QED
    BY <1>2, <1>3, <2>1, <2>2
<1>5. CASE o = "WaiterDisabled"
  <2>1. DisableTo(s) = s /\ s = WS_DISABLED
    BY <1>5 DEF DisableTo, DisableOutcome
  <2>2. WS_DISABLED \notin {WS_ENABLED, WS_GETTING}
    BY DEF WS_DISABLED, WS_ENABLED, WS_GETTING
  <2> QED
    BY <2>1, <2>2
<1>6. CASE o = "uncancel"
  <2>1. DisableTo(s) = s \ {CANCEL_DISABLE_PEND} /\ CANCEL_DISABLE_PEND \in s
    BY <1>6 DEF DisableTo, DisableOutcome
  <2>2. "ENABLED" \notin s /\ "GETTING" \notin s
    BY <2>1, StatusCases
       DEF PENDING, PendingStatus, WS_ENABLED, WS_GETTING, WS_DISABLED, WS_DISCONNECTED, WS_DELIVERING,
       WS_DISABLED_LOCKEDWAIT, DISABLE_PEND, CANCEL_DISABLE_PEND, DISCONNECT_PEND, RECLAIMSPACE_PEND
  <2>3. "ENABLED" \in WS_ENABLED /\ "GETTING" \in WS_GETTING
    BY DEF WS_ENABLED, WS_GETTING
  <2>4. "ENABLED" \notin DisableTo(s) /\ "GETTING" \notin DisableTo(s)
    BY <2>1, <2>2
  <2> QED
    BY <1>2, <2>1, <2>3, <2>4
<1>7. CASE o = "AsyncCompletion"
  <2>1. DisableTo(s) = (s \cap PENDING) \cup {DISABLE_PEND}
    BY <1>7 DEF DisableTo
  <2> QED
    BY <1>2, <1>3, <2>1
<1>8. CASE o = "lock"
  <2>1. DisableTo(s) = {DISABLE_PEND} /\ ~HasPending(s)
    BY <1>8 DEF DisableTo, DisableOutcome
  <2>2. RECLAIMSPACE_PEND \notin s
    BY <1>2, <2>1 DEF HasPending
  <2> QED
    BY <1>2, <1>3, <2>1, <2>2
<1> QED
  BY <1>1, <1>4, <1>5, <1>6, <1>7, <1>8

(* ... and iews_enableWaiter, which opens only a waiter that was disabled ...*)
LEMMA EnableKeepsFlag ==
  ASSUME NEW s \in Status
  PROVE  /\ RECLAIMSPACE_PEND \in s => RECLAIMSPACE_PEND \in EnableTo(s)
         /\ \/ EnableTo(s) = s
            \/ EnableTo(s) \notin {WS_ENABLED, WS_GETTING}
            \/ s = WS_DISABLED /\ EnableTo(s) = WS_ENABLED /\ EnableRc(s) = "OK"
<1> DEFINE o == EnableRc(s)
<1>1. o \in {"OK", "DisableWaiterCancel", "WaiterEnabled", "WaiterInvalid"}
  BY DEF EnableRc
<1>2. CASE o = "OK"
  <2>1. s = WS_DISABLED /\ EnableTo(s) = WS_ENABLED
    BY <1>2 DEF EnableTo, EnableRc
  <2>2. RECLAIMSPACE_PEND \notin WS_DISABLED
    BY DEF WS_DISABLED, RECLAIMSPACE_PEND
  <2> QED
    BY <1>2, <2>1, <2>2
<1>3. CASE o = "DisableWaiterCancel"
  <2>1. EnableTo(s) = s \cup {CANCEL_DISABLE_PEND}
    BY <1>3 DEF EnableTo
  <2>2. CANCEL_DISABLE_PEND \notin WS_ENABLED /\ CANCEL_DISABLE_PEND \notin WS_GETTING
    BY DEF CANCEL_DISABLE_PEND, WS_ENABLED, WS_GETTING
  <2> QED
    BY <2>1, <2>2
<1>4. CASE o \in {"WaiterEnabled", "WaiterInvalid"}
  BY <1>4 DEF EnableTo
<1> QED
  BY <1>1, <1>2, <1>3, <1>4

(* ... and connecting a consumer; an owner with the flag set does not unlock.*)
LEMMA OtherKeepsFlag ==
  ASSUME NEW s \in Status, NEW d
  PROVE  /\ RECLAIMSPACE_PEND \in s => RECLAIMSPACE_PEND \in InitTo(s) /\ QOpTo(s, d) = s
         /\ InitTo(s) = s \/ InitTo(s) \notin {WS_ENABLED, WS_GETTING}
<1>1. RECLAIMSPACE_PEND \in s => s \notin {WS_DISCONNECTED, WS_DISABLED, WS_ENABLED}
  BY DEF RECLAIMSPACE_PEND, WS_DISCONNECTED, WS_DISABLED, WS_ENABLED
<1>2. WS_DISABLED \notin {WS_ENABLED, WS_GETTING}
  BY DEF WS_DISABLED, WS_ENABLED, WS_GETTING
<1> QED
  BY <1>1, <1>2 DEF InitTo, QOpTo

(* Handing the lock to completeWaiterActions, to look at the queue after.  *)
LEMMA PlainComplete ==
  ASSUME Inv, Inv', RestInv, NEW t \in Threads, Quiet(t), NEW r \in {"check", "checkLock"},
         NEW c, NEW w, NEW d, CallComplete(t, <<FrameAt(t, r)>> \o stack[t], c, w, d), UNCHANGED cb
  PROVE  RestInv'
<1>1. ThreadTypeOK /\ ThreadTypeOK'
  BY DEF Inv, TypeOK
<1>2. FrameAt(t, r) \in Frame /\ FrameAt(t, r).pc = r
  BY <1>1, FrameAtType DEF ReturnPcs, FrameAt
<1>3. /\ Goto(t, "complete") /\ stack' = [stack EXCEPT ![t] = <<FrameAt(t, r)>> \o @]
      /\ \A u \in Threads : u # t => loc'[u] = loc[u]
  BY <1>1 DEF CallComplete, ThreadTypeOK
<1>4. r \notin LockedPcs /\ "complete" \notin LockedPcs /\ r \in WakePcs
  BY DEF LockedPcs, WakePcs
<1>5. /\ Moved(t) /\ pc'[t] = "complete" /\ Has(stack'[t], WakePcs)
  <2> DEFINE f == FrameAt(t, r)
  <2>1. f \in Frame /\ f.pc = r /\ f.pc \notin LockedPcs
    BY <1>2, <1>4
  <2>2. stack' = [stack EXCEPT ![t] = <<f>> \o @]
    BY <1>3
  <2> HIDE DEF f
  <2>3. /\ Moved(t) /\ pc'[t] = "complete"
        /\ \A P : Has(stack'[t], P) <=> f.pc \in P \/ Has(stack[t], P)
    BY <1>1, <1>3, <1>4, <2>1, <2>2, PushMoved
  <2> QED
    BY <1>4, <2>1, <2>3
<1>6. StackMeets(t)'
  BY <1>5 DEF StackMeets
<1>7. "complete" # "empty" /\ "complete" \notin FillPcs /\ "complete" \notin PutPcs
  BY DEF FillPcs, PutPcs
<1> QED
  BY <1>5, <1>6, <1>7, PlainStep DEF Quiet

-----------------------------------------------------------------------------
(* Putting a message, delivering it, and the callback *)

(* What is needed of types, on both sides of a step.                       *)
LEMMA StepTypes ==
  ASSUME Inv, Inv'
  PROVE  /\ ThreadTypeOK /\ ThreadTypeOK' /\ QueueTypeOK /\ QueueTypeOK'
         /\ session \in SessionRecord /\ session' \in SessionRecord /\ MsgTypeOK
         /\ waiterStatus \in Status /\ waiterStatus' \in Status
         /\ bufferedMsgs \in Int /\ bufferedMsgs' \in Int
         /\ nodes \in Seq(NodeRecord)
BY DEF Inv, TypeOK, QueueTypeOK, SessionTypeOK

(* The session and the status stay as they are.                            *)
LEMMA SameQuiet ==
  ASSUME NEW t
  PROVE  /\ UNCHANGED session => SessionQuiet
         /\ UNCHANGED waiterStatus => StatusQuiet(t)
BY DEF SessionQuiet, StatusQuiet

(* Where nothing is asked of the stack.                                    *)
LEMMA FreeMeets ==
  ASSUME NEW t \in Threads, pc'[t] \in QuietPcs \cup PutPcs \cup {"empty"}
  PROVE  StackMeets(t)'
BY DEF StackMeets, MayUnlock, QuietPcs, PutPcs

(* A put begins.                                                           *)
LEMMA PutMessageRest ==
  ASSUME Inv, Inv', RestInv, NEW t \in Threads, NEW m \in Msgs, PutMessage(t, m)
  PROVE  RestInv'
<1>1. ThreadTypeOK /\ ThreadTypeOK' /\ MsgTypeOK
  BY StepTypes
<1>2. /\ pc[t] = "idle" /\ fate[m] = "unsent" /\ loc' = [loc EXCEPT ![t].cur = m]
      /\ UNCHANGED <<nodes, bufferedMsgs, expiryData, waiterStatus, session, cb>>
  BY DEF PutMessage, Begin, queueVars
<1>3. loc'[t].cur = m /\ \A u \in Threads : u # t => loc'[u] = loc[u]
  BY <1>1, <1>2 DEF ThreadTypeOK, Locals
<1>4. fate'[m] # "unsent" /\ \A x \in Msgs : fate'[x] = "unsent" => fate[x] = "unsent"
  BY <1>1 DEF PutMessage, MsgTypeOK
<1>5. SessionQuiet /\ StatusQuiet(t)
  BY <1>2, SameQuiet
<1>6. pc[t] \notin MovePcs /\ pc[t] \notin DiscardPcs
  BY <1>2 DEF MovePcs, LockedPcs, WakePcs, DiscardPcs, FillPcs
<1>7. CASE Goto(t, "putDone") /\ stack' = stack
  <2>1. Moved(t) /\ pc'[t] = "putDone"
    BY <1>1, <1>2, <1>3, <1>7, GotoMoved DEF LockedPcs
  <2>2. "putDone" \in QuietPcs
    BY DEF QuietPcs, LockPcs, FreePcs, LockedPcs, PutPcs
  <2> QED
    BY <1>2, <1>4, <1>5, <1>6, <2>1, <2>2, QuietMeets, PlainStep
<1>8. CASE /\ Goto(t, "putTry")
           /\ stack' = [stack EXCEPT ![t] = <<[FrameAt(t, "putDone") EXCEPT !.cur = m]>> \o @]
  <2> DEFINE f == [FrameAt(t, "putDone") EXCEPT !.cur = m]
  <2>1. f \in Frame /\ f.pc \notin LockedPcs
    BY <1>1 DEF FrameAt, Frame, ReturnPcs, ThreadTypeOK, Locals, LockedPcs
  <2> HIDE DEF f
  <2>2. stack' = [stack EXCEPT ![t] = <<f>> \o @]
    BY <1>8 DEF f
  <2>3. Moved(t) /\ pc'[t] = "putTry"
    <3>1. "putTry" \notin LockedPcs
      BY DEF LockedPcs
    <3>2. Goto(t, "putTry") /\ UNCHANGED cb
      BY <1>2, <1>8
    <3> QED
      BY <1>1, <1>3, <2>1, <2>2, <3>1, <3>2, PushMoved
  <2>4. pc'[t] \in PutPcs /\ pc'[t] \notin FillPcs /\ pc'[t] # "empty"
    BY <2>3 DEF PutPcs, FillPcs
  <2>5. StackMeets(t)'
    BY <2>4, FreeMeets
  <2> QED
    BY <1>2, <1>3, <1>4, <1>5, <1>6, <2>3, <2>4, <2>5, PlainStep
<1> QED
  BY <1>7, <1>8 DEF PutMessage

(* Straight to the consumer or into the queue.                             *)
LEMMA PutTryRest ==
  ASSUME Inv, Inv', RestInv, NEW t \in Threads, PutTry(t)
  PROVE  RestInv'
<1>1. ThreadTypeOK /\ ThreadTypeOK'
  BY StepTypes
<1>2. /\ pc[t] = "putTry"
      /\ UNCHANGED <<nodes, bufferedMsgs, expiryData, waiterStatus, session, cb, stack, loc, fate>>
  BY DEF PutTry, queueVars, msgVars
<1>3. PICK l \in {"putToWaitingGetter", "enqueue"} : Goto(t, l)
  BY DEF PutTry
<1>4. Moved(t) /\ pc'[t] = l
  BY <1>1, <1>2, <1>3, GotoMoved DEF LockedPcs
<1>5. /\ pc[t] \notin MovePcs /\ pc[t] \notin DiscardPcs /\ pc[t] \in PutPcs
      /\ pc'[t] \in PutPcs /\ pc'[t] \notin FillPcs /\ pc'[t] # "empty"
  BY <1>2, <1>4 DEF MovePcs, LockedPcs, WakePcs, DiscardPcs, FillPcs, PutPcs
<1>6. SessionQuiet /\ StatusQuiet(t)
  BY <1>2, SameQuiet
<1> QED
  BY <1>2, <1>4, <1>5, <1>6, FreeMeets, PlainStep

(* The waiter is taken to deliver the message, or the message is queued.   *)
LEMMA PutToWaitingGetterRest ==
  ASSUME Inv, Inv', RestInv, NEW t \in Threads, PutToWaitingGetter(t)
  PROVE  RestInv'
<1>1. ThreadTypeOK /\ ThreadTypeOK'
  BY StepTypes
<1>2. /\ pc[t] = "putToWaitingGetter"
      /\ UNCHANGED <<nodes, bufferedMsgs, expiryData, session, cb, stack, fate>>
  BY DEF PutToWaitingGetter, msgVars
<1>3. pc[t] \notin MovePcs /\ pc[t] \notin DiscardPcs /\ pc[t] \in PutPcs
  BY <1>2 DEF MovePcs, LockedPcs, WakePcs, DiscardPcs, FillPcs, PutPcs
<1>4. SessionQuiet
  BY <1>2, SameQuiet
<1>5. CASE waiterStatus = WS_ENABLED
  <2>1. Goto(t, "deliver") /\ \A u \in Threads : u # t => loc'[u] = loc[u]
    BY <1>1, <1>5 DEF PutToWaitingGetter, ThreadTypeOK
  <2>2. "deliver" \in QuietPcs
    BY DEF QuietPcs, LockPcs, LockedPcs, PutPcs
  <2>3. RECLAIMSPACE_PEND \notin waiterStatus
    BY <1>5 DEF WS_ENABLED, RECLAIMSPACE_PEND
  <2>4. pc'[t] \in LockPcs
    BY <1>1, <2>1 DEF Goto, ThreadTypeOK, LockPcs
  <2>5. StatusQuiet(t)
    BY <2>3, <2>4 DEF StatusQuiet, Owner
  <2>6. Quiet(t)
    BY <1>2, <1>3, <1>4, <2>5 DEF Quiet
  <2> QED
    BY <1>2, <2>1, <2>2, <2>6, PlainGoto
<1>6. CASE waiterStatus # WS_ENABLED
  <2>1. Goto(t, "enqueue") /\ UNCHANGED <<waiterStatus, loc>>
    BY <1>6 DEF PutToWaitingGetter
  <2>2. Moved(t) /\ pc'[t] = "enqueue"
    BY <1>1, <1>2, <2>1, GotoMoved DEF LockedPcs
  <2>3. pc'[t] \in PutPcs /\ pc'[t] \notin FillPcs /\ pc'[t] # "empty"
    BY <2>2 DEF FillPcs, PutPcs
  <2>4. StatusQuiet(t)
    BY <2>1, SameQuiet
  <2> QED
    BY <1>2, <1>3, <1>4, <2>1, <2>2, <2>3, <2>4, FreeMeets, PlainStep
<1> QED
  BY <1>5, <1>6

(* An expired message goes; any other is handed to the callback.           *)
LEMMA DeliverMessageRest ==
  ASSUME Inv, Inv', RestInv, NEW t \in Threads, DeliverMessage(t)
  PROVE  RestInv'
<1>1. ThreadTypeOK /\ ThreadTypeOK' /\ MsgTypeOK
  BY StepTypes
<1>2. /\ pc[t] = "deliver"
      /\ UNCHANGED <<nodes, bufferedMsgs, expiryData, waiterStatus, session>>
  BY DEF DeliverMessage, queueVars
<1>3. pc[t] \notin MovePcs /\ pc[t] \notin DiscardPcs
  BY <1>2 DEF MovePcs, LockedPcs, WakePcs, DiscardPcs, FillPcs
<1>4. SessionQuiet /\ StatusQuiet(t)
  BY <1>2, SameQuiet
<1>5. \A x \in Msgs : fate'[x] = "unsent" => fate[x] = "unsent"
  BY <1>1 DEF DeliverMessage, MsgTypeOK
<1>6. \A u \in Threads : u # t => loc'[u] = loc[u]
  BY <1>1 DEF DeliverMessage, ThreadTypeOK
<1>7. CASE Expired(loc[t].cur)
  <2>1. Goto(t, "reenable") /\ UNCHANGED <<cb, stack>>
    BY <1>7 DEF DeliverMessage
  <2>2. "reenable" \in QuietPcs
    BY DEF QuietPcs, LockPcs, LockedPcs, PutPcs
  <2>3. Moved(t) /\ pc'[t] = "reenable"
    BY <1>1, <1>6, <2>1, GotoMoved DEF LockedPcs
  <2> QED
    BY <1>2, <1>3, <1>4, <1>5, <2>2, <2>3, QuietMeets, PlainStep
<1>8. CASE ~Expired(loc[t].cur)
  <2> DEFINE c == loc[t].con  a == loc[t].after
  <2>1. /\ cb' = [cb EXCEPT ![t] = [stack |-> stack[t], con |-> c, after |-> a]]
        /\ stack' = [stack EXCEPT ![t] = << >>] /\ loc' = [loc EXCEPT ![t] = InitLoc]
        /\ Goto(t, "idle")
    BY <1>8 DEF DeliverMessage
  <2>2. cb[t] = NoCb /\ a \in {"check", "checkLock"}
    BY <1>2 DEF Inv, LockInv, ThreadInv, LocalsMeet, LockPcs
  <2>3. c \in Consumers \cup {NoConsumer}
    BY <1>1 DEF ThreadTypeOK, Locals
  <2> HIDE DEF c, a
  <2>4. Moved(t) /\ pc'[t] = "idle" /\ stack'[t] = << >>
    BY <1>1, <1>6, <2>1, <2>2, <2>3, EnterMoved
  <2>5. loc'[t] = InitLoc
    BY <1>1, <2>1 DEF ThreadTypeOK
  <2>6. StackMeets(t)'
    BY <2>4, <2>5 DEF StackMeets, MayUnlock, InitLoc
  <2>7. pc'[t] \notin PutPcs /\ pc'[t] \notin FillPcs /\ pc'[t] # "empty"
    BY <2>4 DEF PutPcs, FillPcs
  <2> QED
    BY <1>2, <1>3, <1>4, <1>5, <2>4, <2>6, <2>7, PlainStep
<1> QED
  BY <1>7, <1>8

(* The callback is over.                                                   *)
LEMMA LeaveCallbackRest ==
  ASSUME Inv, Inv', RestInv, NEW t \in Threads, pc[t] = "idle", NEW l \in {"reenable", "pend"},
         LeaveCallback(t, l)
  PROVE  RestInv'
<1>1. ThreadTypeOK /\ ThreadTypeOK'
  BY StepTypes
<1>2. /\ cb[t] # NoCb /\ cb' = [cb EXCEPT ![t] = NoCb]
      /\ stack' = [stack EXCEPT ![t] = cb[t].stack] /\ Goto(t, l)
      /\ UNCHANGED <<nodes, bufferedMsgs, expiryData, waiterStatus, session, fate>>
  BY DEF LeaveCallback, queueVars, msgVars
<1>3. /\ pc[t] \notin MovePcs /\ pc[t] \notin DiscardPcs /\ l \notin LockedPcs /\ l \in QuietPcs
  BY DEF MovePcs, LockedPcs, WakePcs, DiscardPcs, FillPcs, QuietPcs, LockPcs, PutPcs
<1>4. SessionQuiet /\ StatusQuiet(t)
  BY <1>2, SameQuiet
<1>5. stack[t] = << >>
  BY DEF RestInv, ControlInv, StackMeets
<1>6. \A u \in Threads : u # t => loc'[u] = loc[u]
  BY <1>1 DEF LeaveCallback, ThreadTypeOK
<1>7. stack'[t] = cb[t].stack /\ stack' = [stack EXCEPT ![t] = stack'[t]]
  BY <1>1, <1>2 DEF ThreadTypeOK
<1>8. Moved(t) /\ pc'[t] = l
  BY <1>1, <1>2, <1>3, <1>5, <1>6, <1>7, LeaveMoved
<1> QED
  BY <1>2, <1>3, <1>4, <1>8, QuietMeets, PlainStep

(* The callback wants more,                                                *)
LEMMA CallbackReturnsTrueRest ==
  ASSUME Inv, Inv', RestInv, NEW t \in Threads, CallbackReturnsTrue(t)
  PROVE  RestInv'
BY LeaveCallbackRest DEF CallbackReturnsTrue

(* ... or asks for the waiter to be disabled,                              *)
LEMMA CallbackReturnsFalseRest ==
  ASSUME Inv, Inv', RestInv, NEW t \in Threads, CallbackReturnsFalse(t)
  PROVE  RestInv'
BY LeaveCallbackRest DEF CallbackReturnsFalse

(* The callback asks for no more messages.                                 *)
LEMMA SuspendMessageDeliveryRest ==
  ASSUME Inv, Inv', RestInv, NEW t \in Threads, SuspendMessageDelivery(t)
  PROVE  RestInv'
<1>1. ThreadTypeOK /\ ThreadTypeOK'
  BY StepTypes
<1>2. /\ pc[t] = "idle" /\ waiterStatus' = AddPendFlag(waiterStatus, DISABLE_PEND)
      /\ Goto(t, "suspended")
      /\ UNCHANGED <<nodes, bufferedMsgs, expiryData, session, cb, stack, loc, fate>>
  BY DEF SuspendMessageDelivery, msgVars
<1>3. DISABLE_PEND \in PENDING
  BY DEF PENDING
<1>4. SessionQuiet /\ StatusQuiet(t)
  BY <1>2, <1>3, SameQuiet, AddKeepsFlag DEF StatusQuiet
<1>5. Moved(t) /\ pc'[t] = "suspended"
  BY <1>1, <1>2, GotoMoved DEF LockedPcs
<1>6. StackMeets(t)
  BY DEF RestInv, ControlInv
<1>7. StackMeets(t)'
  BY <1>2, <1>5, <1>6 DEF StackMeets, MayUnlock
<1>8. /\ pc[t] \notin MovePcs /\ pc[t] \notin DiscardPcs
      /\ pc'[t] \notin PutPcs /\ pc'[t] \notin FillPcs /\ pc'[t] # "empty"
  BY <1>2, <1>5 DEF MovePcs, LockedPcs, WakePcs, DiscardPcs, FillPcs, PutPcs
<1> QED
  BY <1>2, <1>4, <1>5, <1>7, <1>8, PlainStep

(* ... or has suspended delivery itself.                                   *)
LEMMA SuspendedCallbackReturnsRest ==
  ASSUME Inv, Inv', RestInv, NEW t \in Threads, SuspendedCallbackReturns(t)
  PROVE  RestInv'
<1>1. ThreadTypeOK /\ ThreadTypeOK'
  BY StepTypes
<1> DEFINE f == [pc |-> cb[t].after, con |-> cb[t].con, cur |-> NoMsg]
<1>2. /\ pc[t] = "suspended" /\ cb' = [cb EXCEPT ![t] = NoCb]
      /\ stack' = [stack EXCEPT ![t] = <<f>> \o cb[t].stack] /\ Goto(t, "complete")
      /\ UNCHANGED <<nodes, bufferedMsgs, expiryData, waiterStatus, session, fate>>
  BY DEF SuspendedCallbackReturns, CallComplete, queueVars, msgVars
<1>3. stack[t] = << >> /\ cb[t] # NoCb
  BY <1>2 DEF RestInv, ControlInv, StackMeets, Inv, LockInv, ThreadInv
<1>4. cb[t] \in Callback
  BY <1>1, <1>3 DEF ThreadTypeOK
<1>5. f \in Frame /\ f.pc \in {"check", "checkLock"}
  BY <1>4 DEF Callback, Frame, ReturnPcs
<1> HIDE DEF f
<1>6. f.pc \in WakePcs /\ f.pc \notin LockedPcs /\ "complete" \notin LockedPcs
  BY <1>5 DEF WakePcs, LockedPcs
<1>7. \A u \in Threads : u # t => loc'[u] = loc[u]
  BY <1>1 DEF SuspendedCallbackReturns, CallComplete, ThreadTypeOK
<1>8. Moved(t) /\ pc'[t] = "complete" /\ \A P : f.pc \in P => Has(stack'[t], P)
  BY <1>1, <1>2, <1>3, <1>5, <1>6, <1>7, LeavePushMoved
<1>9. StackMeets(t)'
  BY <1>6, <1>8 DEF StackMeets
<1>10. /\ pc[t] \notin MovePcs /\ pc[t] \notin DiscardPcs
       /\ pc'[t] \notin PutPcs /\ pc'[t] \notin FillPcs /\ pc'[t] # "empty"
  BY <1>2, <1>8 DEF MovePcs, LockedPcs, WakePcs, DiscardPcs, FillPcs, PutPcs
<1>11. SessionQuiet /\ StatusQuiet(t)
  BY <1>2, SameQuiet
<1> QED
  BY <1>2, <1>8, <1>9, <1>10, <1>11, PlainStep

(* A callback that returned false.                                         *)
LEMMA PendDisableRest ==
  ASSUME Inv, Inv', RestInv, NEW t \in Threads, PendDisable(t)
  PROVE  RestInv'
<1>1. /\ pc[t] = "pend" /\ waiterStatus' = AddPendFlag(waiterStatus, DISABLE_PEND)
      /\ UNCHANGED <<nodes, bufferedMsgs, expiryData, session, cb, fate>>
  BY DEF PendDisable, msgVars
<1>2. DISABLE_PEND \in PENDING
  BY DEF PENDING
<1>3. SessionQuiet /\ StatusQuiet(t)
  BY <1>1, <1>2, SameQuiet, AddKeepsFlag DEF StatusQuiet
<1>4. pc[t] \notin MovePcs /\ pc[t] \notin DiscardPcs
  BY <1>1 DEF MovePcs, LockedPcs, WakePcs, DiscardPcs, FillPcs
<1>5. Quiet(t)
  BY <1>1, <1>3, <1>4 DEF Quiet
<1> DEFINE r == loc[t].after
<1>6. r \in {"check", "checkLock"}
  BY <1>1 DEF Inv, LockInv, ThreadInv, LocalsMeet
<1>7. CallComplete(t, <<FrameAt(t, r)>> \o stack[t], loc[t].con, TRUE, FALSE)
  BY DEF PendDisable
<1> HIDE DEF r
<1> QED
  BY <1>1, <1>5, <1>6, <1>7, PlainComplete

(* The queue was empty: the waiter stays open or the flags are acted on.   *)
LEMMA QueueEmptyRest ==
  ASSUME Inv, Inv', RestInv, NEW t \in Threads, QueueEmpty(t)
  PROVE  RestInv'
<1>1. pc[t] = "empty" /\ UNCHANGED <<nodes, bufferedMsgs, expiryData, session, cb, fate>>
  BY DEF QueueEmpty, msgVars
<1>2. pc[t] \notin MovePcs /\ pc[t] \notin DiscardPcs /\ pc[t] \notin FillPcs /\ pc[t] # "sessMark"
  BY <1>1 DEF MovePcs, LockedPcs, WakePcs, DiscardPcs, FillPcs
<1>3. SessionQuiet
  BY <1>1, SameQuiet
<1>4. CASE waiterStatus = WS_GETTING
  <2>1. Return(t) /\ waiterStatus' = WS_ENABLED
    BY <1>4 DEF QueueEmpty
  <2>2. ThreadTypeOK /\ bufferedMsgs \in Int /\ nodes \in Seq(NodeRecord)
    BY StepTypes
  <2>3. /\ Moved(t) /\ StackMeets(t)' /\ pc'[t] \notin PutPcs /\ pc'[t] \notin FillPcs
    BY <1>1, <2>1, <2>2, ReturnMoved, ReturnMeets
  <2>4. ControlInv'
    BY <1>2, <1>3, <2>3, PlainControl DEF RestInv
  <2>5. NodeInv'
    BY <1>1, <1>2, <2>2, <2>3, NodesStill DEF RestInv, Moved
  <2>6. WaiterOpen
    BY <1>1, <1>4 DEF WaiterOpen
  <2>7. Ready' <=> Ready
    BY <1>1 DEF Ready, HeadReady, SkipRemoved
  <2>8. WakeInv'
    BY <1>2, <1>3, <2>3, <2>6, <2>7, PlainWake DEF RestInv
  <2>9. RECLAIMSPACE_PEND \notin waiterStatus
    BY <1>4 DEF WS_GETTING, RECLAIMSPACE_PEND
  <2>10. DiscardInv'
    BY <1>1, <1>2, <2>2, <2>3, <2>9, PlainDiscard DEF RestInv
  <2> QED
    BY <2>4, <2>5, <2>8, <2>10 DEF RestInv
<1>5. CASE waiterStatus # WS_GETTING
  <2>1. /\ CallComplete(t, <<FrameAt(t, "checkLock")>> \o stack[t], loc[t].con, TRUE, FALSE)
        /\ UNCHANGED waiterStatus
    BY <1>5 DEF QueueEmpty
  <2>2. Quiet(t)
    BY <1>1, <1>2, <1>3, <2>1, SameQuiet DEF Quiet
  <2> QED
    BY <1>1, <2>1, <2>2, PlainComplete
<1> QED
  BY <1>4, <1>5

-----------------------------------------------------------------------------
(* Steps of the owner and of the waiter of which nothing is expected *)

(* The owner goes on completing what was left for it.                      *)
LEMMA OwnerGoes ==
  ASSUME Inv, Inv', RestInv, NEW t \in Threads, pc[t] \in {"waiterDisabledCB", "endStop"},
         NEW l \in {"endStop", "disabling", "disconnect"}, Goto(t, l), SessionQuiet,
         UNCHANGED <<queueVars, stack, cb, loc, msgVars>>
  PROVE  RestInv'
<1>1. ThreadTypeOK /\ ThreadTypeOK'
  BY StepTypes
<1>2. UNCHANGED <<nodes, bufferedMsgs, expiryData, waiterStatus, fate>>
  BY DEF queueVars, msgVars
<1>3. Moved(t) /\ pc'[t] = l
  BY <1>1, GotoMoved DEF LockedPcs
<1>4. ~loc[t].deliver => Has(stack[t], WakePcs)
  BY DEF RestInv, ControlInv, StackMeets, MayUnlock
<1>5. StackMeets(t)'
  BY <1>3, <1>4 DEF StackMeets
<1>6. /\ pc[t] \notin MovePcs /\ pc[t] \notin DiscardPcs
      /\ pc'[t] \notin PutPcs /\ pc'[t] \notin FillPcs /\ pc'[t] # "empty"
  BY <1>3 DEF MovePcs, LockedPcs, WakePcs, DiscardPcs, FillPcs, PutPcs
<1>7. StatusQuiet(t)
  BY <1>2, SameQuiet
<1> QED
  BY <1>2, <1>3, <1>5, <1>6, <1>7, PlainStep

(* The consumer is told that its waiter is disabled ...                    *)
LEMMA WaiterDisabledCallbackRest ==
  ASSUME Inv, Inv', RestInv, NEW t \in Threads, WaiterDisabledCallback(t)
  PROVE  RestInv'
<1>1. loc[t].after \in {"disabling", "disconnect"}
  BY DEF WaiterDisabledCallback, Inv, LockInv, ThreadInv, LocalsMeet
<1>2. PICK l \in {"endStop", "disabling", "disconnect"} : Goto(t, l)
  BY <1>1 DEF WaiterDisabledCallback
<1>3. SessionQuiet
  BY StepTypes, CountsQuiet DEF WaiterDisabledCallback, WaiterDisabledStatus
<1> QED
  BY <1>2, <1>3, OwnerGoes DEF WaiterDisabledCallback

(* ... and a stop of delivery that waited for it ends.                     *)
LEMMA WaiterDisabledEndStopRest ==
  ASSUME Inv, Inv', RestInv, NEW t \in Threads, WaiterDisabledEndStop(t)
  PROVE  RestInv'
<1>1. loc[t].after \in {"disabling", "disconnect"}
  BY DEF WaiterDisabledEndStop, Inv, LockInv, ThreadInv, LocalsMeet
<1>2. PICK l \in {"endStop", "disabling", "disconnect"} : Goto(t, l)
  BY <1>1 DEF WaiterDisabledEndStop
<1>3. SessionQuiet
  BY StepTypes, CountsQuiet DEF WaiterDisabledEndStop, EndStop
<1> QED
  BY <1>2, <1>3, OwnerGoes DEF WaiterDisabledEndStop

(* The reaper asks for the lock.                                           *)
LEMMA LockForReapRest ==
  ASSUME Inv, Inv', RestInv, NEW t \in Threads, LockForReap(t)
  PROVE  RestInv'
<1>1. ThreadTypeOK /\ ThreadTypeOK' /\ waiterStatus \in Status
  BY StepTypes
<1>2. /\ pc[t] = "reapLock" /\ waiterStatus' = QOpTo(waiterStatus, loc[t].deliver)
      /\ UNCHANGED <<nodes, bufferedMsgs, expiryData, session, cb, fate>>
  BY DEF LockForReap, msgVars
<1>3. RECLAIMSPACE_PEND \in waiterStatus => RECLAIMSPACE_PEND \in waiterStatus'
  BY <1>1, <1>2, OtherKeepsFlag
<1>4. SessionQuiet /\ pc[t] \notin MovePcs /\ pc[t] \notin DiscardPcs
  BY <1>2, SameQuiet DEF MovePcs, LockedPcs, WakePcs, DiscardPcs, FillPcs
<1>5. CASE waiterStatus' = waiterStatus
  <2>1. Return(t)
    BY <1>5 DEF LockForReap
  <2>2. Quiet(t)
    BY <1>2, <1>4, <1>5, SameQuiet DEF Quiet
  <2> QED
    BY <1>2, <2>1, <2>2, PlainReturn
<1>6. CASE waiterStatus' # waiterStatus
  <2>1. /\ Goto(t, "reapWork") /\ UNCHANGED stack
        /\ loc' = [loc EXCEPT ![t].old = waiterStatus, ![t].con = pConsumer]
    BY <1>6 DEF LockForReap
  <2>2. \A u \in Threads : u # t => loc'[u] = loc[u]
    BY <1>1, <2>1 DEF ThreadTypeOK
  <2>3. pc'[t] \in LockPcs
    BY <1>1, <2>1 DEF Goto, ThreadTypeOK, LockPcs
  <2>4. Quiet(t)
    BY <1>2, <1>3, <1>4, <2>3 DEF Quiet, StatusQuiet, Owner
  <2>5. "reapWork" \in QuietPcs
    BY DEF QuietPcs, LockPcs, LockedPcs, PutPcs
  <2> QED
    BY <1>2, <2>1, <2>2, <2>4, <2>5, PlainGoto
<1> QED
  BY <1>5, <1>6

(* The reaper comes to the queue.                                          *)
LEMMA ReapExpiredMessagesRest ==
  ASSUME Inv, Inv', RestInv, NEW t \in Threads, ReapExpiredMessages(t)
  PROVE  RestInv'
<1>1. ThreadTypeOK
  BY StepTypes
<1>2. /\ pc[t] = "idle" /\ Goto(t, "reapLock")
      /\ stack' = [stack EXCEPT ![t] = <<FrameAt(t, "reapDone")>> \o @]
      /\ UNCHANGED <<nodes, bufferedMsgs, expiryData, waiterStatus, session, cb, loc, fate>>
  BY DEF ReapExpiredMessages, Begin, Call, Push, queueVars, msgVars
<1>3. Quiet(t)
  BY <1>2, SameQuiet DEF Quiet, MovePcs, LockedPcs, WakePcs, DiscardPcs, FillPcs
<1>4. "reapLock" \in QuietPcs
  BY DEF QuietPcs, FreePcs, LockedPcs, PutPcs
<1> DEFINE f == FrameAt(t, "reapDone")
<1>5. f \in Frame /\ f.pc \notin LockedPcs
  BY <1>1, FrameAtType DEF FrameAt, ReturnPcs, LockedPcs
<1>6. stack' = [stack EXCEPT ![t] = <<f>> \o @]
  BY <1>2
<1> HIDE DEF f
<1> QED
  BY <1>2, <1>3, <1>4, <1>5, <1>6, PlainPush

(* A start goes on with the next consumer.                                 *)
LEMMA StartReleaseRest ==
  ASSUME Inv, Inv', RestInv, NEW t \in Threads, StartRelease(t)
  PROVE  RestInv'
<1>1. ThreadTypeOK
  BY StepTypes
<1>2. /\ pc[t] = "startRelease" /\ Goto(t, "release")
      /\ stack' = [stack EXCEPT ![t] = <<FrameAt(t, "startDeliver")>> \o @]
      /\ UNCHANGED <<nodes, bufferedMsgs, expiryData, waiterStatus, session, cb, loc, fate>>
  BY DEF StartRelease, Call, Push, queueVars, msgVars
<1>3. Quiet(t)
  BY <1>2, SameQuiet DEF Quiet, MovePcs, LockedPcs, WakePcs, DiscardPcs, FillPcs
<1>4. "release" \in QuietPcs
  BY DEF QuietPcs, FreePcs, LockedPcs, PutPcs
<1> DEFINE f == FrameAt(t, "startDeliver")
<1>5. f \in Frame /\ f.pc \notin LockedPcs
  BY <1>1, FrameAtType DEF FrameAt, ReturnPcs, LockedPcs
<1>6. stack' = [stack EXCEPT ![t] = <<f>> \o @]
  BY <1>2
<1> HIDE DEF f
<1> QED
  BY <1>2, <1>3, <1>4, <1>5, <1>6, PlainPush

(* A reference for the consumer that is to be enabled.                     *)
LEMMA AcquireForEnableRest ==
  ASSUME Inv, Inv', RestInv, NEW t \in Threads, AcquireForEnable(t)
  PROVE  RestInv'
<1>1. ThreadTypeOK /\ ThreadTypeOK' /\ session \in SessionRecord
  BY StepTypes
<1>2. /\ pc[t] = "acquire" /\ Goto(t, "enable")
      /\ UNCHANGED <<nodes, bufferedMsgs, expiryData, waiterStatus, cb, stack, loc, fate>>
  BY DEF AcquireForEnable, queueVars, msgVars
<1>3. Moved(t) /\ pc'[t] = "enable"
  BY <1>1, <1>2, GotoMoved DEF LockedPcs
<1>4. Has(stack[t], WakePcs \cup {"startNext"})
  BY <1>2 DEF RestInv, ControlInv, StackMeets
<1>5. StackMeets(t)'
  BY <1>2, <1>3, <1>4 DEF StackMeets, MayUnlock
<1>6. /\ pc[t] \notin MovePcs /\ pc[t] \notin DiscardPcs
      /\ pc'[t] \notin PutPcs /\ pc'[t] \notin FillPcs /\ pc'[t] # "empty"
  BY <1>2, <1>3 DEF MovePcs, LockedPcs, WakePcs, DiscardPcs, FillPcs, PutPcs
<1>7. SessionQuiet /\ StatusQuiet(t)
  BY <1>1, <1>2, SameQuiet, CountsQuiet DEF AcquireForEnable
<1> QED
  BY <1>2, <1>3, <1>5, <1>6, <1>7, PlainStep

(* The waiter of a destroyed consumer is to go.                            *)
LEMMA TermWaiterRest ==
  ASSUME Inv, Inv', RestInv, NEW t \in Threads, TermWaiter(t)
  PROVE  RestInv'
<1>1. ThreadTypeOK /\ ThreadTypeOK' /\ waiterStatus \in Status
  BY StepTypes
<1>2. /\ pc[t] = "term" /\ ~TermWaits(waiterStatus) /\ waiterStatus' = TermTo(waiterStatus)
      /\ UNCHANGED <<nodes, bufferedMsgs, expiryData, session, cb, fate>>
  BY DEF TermWaiter, msgVars
<1>3. SessionQuiet /\ StatusQuiet(t)
  BY <1>1, <1>2, SameQuiet, TermKeepsFlag DEF StatusQuiet
<1>4. Quiet(t)
  BY <1>2, <1>3 DEF Quiet, MovePcs, LockedPcs, WakePcs, DiscardPcs, FillPcs
<1>5. CASE TermLocks(waiterStatus)
  <2>1. CallComplete(t, stack[t], loc[t].con, waiterStatus # WS_DISABLED, TRUE)
    BY <1>5 DEF TermWaiter
  <2>2. Goto(t, "complete") /\ stack' = stack
    BY <1>1, <2>1 DEF CallComplete, ThreadTypeOK
  <2>3. loc'[t].deliver /\ \A u \in Threads : u # t => loc'[u] = loc[u]
    BY <1>1, <2>1 DEF CallComplete, ThreadTypeOK, Locals
  <2>4. Moved(t) /\ pc'[t] = "complete"
    BY <1>1, <1>2, <2>2, <2>3, GotoMoved DEF LockedPcs
  <2>5. StackMeets(t)'
    BY <2>3, <2>4 DEF StackMeets
  <2>6. pc'[t] \notin PutPcs /\ pc'[t] \notin FillPcs /\ pc'[t] # "empty"
    BY <2>4 DEF FillPcs, PutPcs
  <2> QED
    BY <1>4, <2>4, <2>5, <2>6, PlainStep DEF Quiet
<1>6. CASE ~TermLocks(waiterStatus)
  <2>1. Return(t)
    BY <1>6 DEF TermWaiter
  <2> QED
    BY <1>2, <1>4, <2>1, PlainReturn
<1> QED
  BY <1>5, <1>6

(* A consumer is connected, or refused.                                    *)
LEMMA CreateConsumerRest ==
  ASSUME Inv, Inv', RestInv, NEW t \in Threads, NEW c \in Consumers, CreateConsumer(t, c)
  PROVE  RestInv'
<1>1. ThreadTypeOK /\ ThreadTypeOK' /\ waiterStatus \in Status
  BY StepTypes
<1>2. /\ pc[t] = "idle" /\ waiterStatus' = InitTo(waiterStatus)
      /\ UNCHANGED <<nodes, bufferedMsgs, expiryData, session, stack, cb, fate>>
  BY DEF CreateConsumer, Begin, msgVars
<1>3. SessionQuiet /\ StatusQuiet(t)
  BY <1>1, <1>2, SameQuiet, OtherKeepsFlag DEF StatusQuiet
<1>4. Quiet(t)
  BY <1>2, <1>3 DEF Quiet, MovePcs, LockedPcs, WakePcs, DiscardPcs, FillPcs
<1>5. CASE waiterStatus = WS_DISCONNECTED
  <2>1. Goto(t, "createConnect") /\ \A u \in Threads : u # t => loc'[u] = loc[u]
    BY <1>1, <1>5 DEF CreateConsumer, ThreadTypeOK
  <2>2. "createConnect" \in QuietPcs
    BY DEF QuietPcs, FreePcs, LockedPcs, PutPcs
  <2> QED
    BY <1>2, <1>4, <2>1, <2>2, PlainGoto
<1>6. CASE waiterStatus # WS_DISCONNECTED
  <2>1. UNCHANGED <<loc, pc>>
    BY <1>6 DEF CreateConsumer
  <2>2. Goto(t, "idle")
    BY <1>1, <1>2, <2>1 DEF Goto, ThreadTypeOK
  <2>3. Moved(t) /\ pc'[t] = "idle"
    BY <1>1, <1>2, <2>1, <2>2, GotoMoved DEF LockedPcs
  <2>4. StackMeets(t)'
    BY <1>2, <2>1 DEF RestInv, ControlInv, StackMeets, MayUnlock
  <2>5. pc'[t] \notin PutPcs /\ pc'[t] \notin FillPcs /\ pc'[t] # "empty"
    BY <2>3 DEF FillPcs, PutPcs
  <2> QED
    BY <1>4, <2>3, <2>4, <2>5, PlainStep DEF Quiet
<1> QED
  BY <1>5, <1>6

(* The invariant is about these variables only.                            *)
LEMMA UnchangedRest ==
  ASSUME RestInv, UNCHANGED <<nodes, bufferedMsgs, expiryData, waiterStatus, session, pc, stack,
                              cb, loc, fate>>
  PROVE  RestInv'
<1>1. ControlInv'
  BY DEF RestInv, ControlInv, HoldsSession, StackMeets, Starting, MayUnlock, InCall, Has, Single,
         HasBelow
<1>2. NodeInv'
  BY DEF RestInv, NodeInv, PutsApart, EmptyNodes, CountExact, ExpiryExact, Live, Counting, Node
<1>3. WakeInv'
  BY DEF RestInv, WakeInv, WaiterOpen, Ready, HeadReady, SkipRemoved, Wakes, InCall
<1>4. DiscardInv'
  BY DEF RestInv, DiscardInv, Discards, InCall
<1> QED
  BY <1>1, <1>2, <1>3, <1>4 DEF RestInv

(* The queue is deleted.                                                   *)
LEMMA DeleteQRest ==
  ASSUME RestInv, NEW t, DeleteQ(t)
  PROVE  RestInv'
BY UnchangedRest DEF DeleteQ, threadVars, msgVars

(* The time of a message passes.                                           *)
LEMMA ExpiryTimePassesRest ==
  ASSUME RestInv, NEW m, ExpiryTimePasses(m)
  PROVE  RestInv'
BY UnchangedRest DEF ExpiryTimePasses, threadVars, queueVars

(* Nothing happens.                                                        *)
LEMMA StutterRest ==
  ASSUME RestInv, UNCHANGED vars
  PROVE  RestInv'
BY UnchangedRest DEF vars, queueVars, threadVars, msgVars

-----------------------------------------------------------------------------
(* Looking at the queue, and opening the waiter *)

(* Control and nodes in a step that is about neither.                      *)
LEMMA StillParts ==
  ASSUME Inv, RestInv, NEW t \in Threads, Moved(t), StackMeets(t)', SessionQuiet,
         pc[t] # "sessMark", pc[t] \notin FillPcs, pc'[t] \notin PutPcs,
         UNCHANGED <<nodes, bufferedMsgs, expiryData, fate>>
  PROVE  ControlInv' /\ NodeInv' /\ (Ready' <=> Ready)
<1>1. ControlInv'
  BY PlainControl DEF RestInv
<1>2. pc'[t] \notin FillPcs
  BY DEF FillPcs, PutPcs
<1>3. NodeInv'
  BY <1>2, InvTypes, NodesStill DEF RestInv, Moved
<1>4. Ready' <=> Ready
  BY DEF Ready, HeadReady, SkipRemoved
<1> QED
  BY <1>1, <1>3, <1>4

(* A thread at a point where it was expected, or that opens the waiter.    *)
LEMMA LookStep ==
  ASSUME Inv, Inv', RestInv, NEW t \in Threads, Moved(t), StackMeets(t)', SessionQuiet,
         pc[t] # "sessMark", pc[t] \notin DiscardPcs, pc'[t] \notin PutPcs,
         UNCHANGED <<nodes, bufferedMsgs, expiryData, fate>>,
         RECLAIMSPACE_PEND \in waiterStatus => RECLAIMSPACE_PEND \in waiterStatus',
         WaiterOpen' /\ Ready => \E u \in Threads : Wakes(u)'
  PROVE  RestInv'
<1>1. pc[t] \notin FillPcs
  BY DEF DiscardPcs
<1>2. ControlInv' /\ NodeInv' /\ (Ready' <=> Ready)
  BY <1>1, StillParts
<1>3. WakeInv'
  BY <1>2 DEF WakeInv
<1>4. bufferedMsgs \in Int /\ bufferedMsgs' = bufferedMsgs
  BY InvTypes
<1>5. DiscardInv'
  BY <1>4, PlainDiscard DEF RestInv
<1> QED
  BY <1>2, <1>3, <1>5 DEF RestInv

(* A thread that is going to come to a point where the queue is looked at. *)
LEMMA ComesToLook ==
  ASSUME NEW t \in Threads, InCall(t, WakePcs)'
  PROVE  \E u \in Threads : Wakes(u)'
BY DEF Wakes

(* Points at which a thread is about to look.                              *)
LEMMA LookPcs ==
  /\ {"check", "checkLock"} \subseteq WakePcs
  /\ "check" \notin LockedPcs /\ "checkLock" \notin LockedPcs
  /\ {"check", "checkLock"} \subseteq QuietPcs
  /\ {"check", "checkLock"} \cap (DiscardPcs \cup PutPcs \cup FillPcs) = {}
BY DEF WakePcs, LockedPcs, QuietPcs, FreePcs, PutPcs, DiscardPcs, FillPcs

(* Going to look.                                                          *)
LEMMA GotoLook ==
  ASSUME Inv, Inv', RestInv, NEW t \in Threads, NEW l \in {"check", "checkLock"}, Goto(t, l),
         UNCHANGED <<stack, cb, loc, session, nodes, bufferedMsgs, expiryData, fate>>,
         pc[t] # "sessMark", pc[t] \notin DiscardPcs,
         RECLAIMSPACE_PEND \in waiterStatus => RECLAIMSPACE_PEND \in waiterStatus'
  PROVE  RestInv'
<1>1. ThreadTypeOK /\ ThreadTypeOK'
  BY StepTypes
<1>2. l \in WakePcs /\ l \notin LockedPcs /\ l \in QuietPcs /\ l \notin PutPcs
  BY LookPcs
<1>3. Moved(t) /\ pc'[t] = l
  BY <1>1, <1>2, GotoMoved
<1>4. StackMeets(t)'
  BY <1>2, <1>3, QuietMeets
<1>5. \E u \in Threads : Wakes(u)'
  BY <1>2, <1>3 DEF Wakes, InCall
<1>6. SessionQuiet
  BY SameQuiet
<1> QED
  BY <1>2, <1>3, <1>4, <1>5, <1>6, LookStep

(* Returning to who looks.                                                 *)
LEMMA ReturnLook ==
  ASSUME Inv, Inv', RestInv, NEW t \in Threads, Return(t), Has(stack[t], WakePcs),
         UNCHANGED <<cb, session, nodes, bufferedMsgs, expiryData, fate>>,
         pc[t] # "sessMark", pc[t] \notin DiscardPcs,
         RECLAIMSPACE_PEND \in waiterStatus => RECLAIMSPACE_PEND \in waiterStatus'
  PROVE  RestInv'
<1>1. ThreadTypeOK
  BY StepTypes
<1>2. Moved(t) /\ StackMeets(t)' /\ pc'[t] \notin PutPcs
  BY <1>1, ReturnMoved, ReturnMeets
<1>3. Rest(t, WakePcs)
  BY DEF Rest
<1>4. InCall(t, WakePcs)'
  BY <1>2, <1>3 DEF Moved
<1>5. \E u \in Threads : Wakes(u)'
  BY <1>4, ComesToLook
<1>6. SessionQuiet
  BY SameQuiet
<1> QED
  BY <1>2, <1>5, <1>6, LookStep

(* iesq_checkWaiters looks whether anything is buffered.                   *)
LEMMA CheckWaitersRest ==
  ASSUME Inv, Inv', RestInv, NEW t \in Threads, CheckWaiters(t)
  PROVE  RestInv'
<1>1. ThreadTypeOK /\ QueueTypeOK /\ bufferedMsgs \in Int
  BY StepTypes
<1>2. /\ pc[t] = "check"
      /\ UNCHANGED <<nodes, bufferedMsgs, expiryData, waiterStatus, session, cb, fate>>
  BY DEF CheckWaiters, queueVars, msgVars
<1>3. pc[t] # "sessMark" /\ pc[t] \notin DiscardPcs
  BY <1>2, LookPcs
<1>4. SessionQuiet
  BY <1>2, SameQuiet
<1>5. CASE bufferedMsgs = 0
  <2>1. Return(t)
    BY <1>5 DEF CheckWaiters
  <2>2. ~Ready
    BY <1>1, <1>5, ReadyCounted DEF RestInv
  <2>3. Moved(t) /\ StackMeets(t)' /\ pc'[t] \notin PutPcs
    BY <1>1, <1>2, <2>1, ReturnMoved, ReturnMeets
  <2> QED
    BY <1>2, <1>3, <1>4, <2>2, <2>3, LookStep
<1>6. CASE bufferedMsgs # 0
  <2>1. Goto(t, "checkLock") /\ UNCHANGED <<stack, loc>>
    BY <1>6 DEF CheckWaiters
  <2> QED
    BY <1>2, <1>3, <2>1, GotoLook
<1> QED
  BY <1>5, <1>6

(* ... and takes the waiter, unless it is not open.                        *)
LEMMA CheckLockRest ==
  ASSUME Inv, Inv', RestInv, NEW t \in Threads, CheckLock(t)
  PROVE  RestInv'
<1>1. ThreadTypeOK /\ ThreadTypeOK'
  BY StepTypes
<1>2. /\ pc[t] = "checkLock" /\ waiterStatus # WS_GETTING
      /\ UNCHANGED <<nodes, bufferedMsgs, expiryData, session, cb, fate>>
  BY DEF CheckLock, CheckWaits, msgVars
<1>3. pc[t] # "sessMark" /\ pc[t] \notin DiscardPcs
  BY <1>2, LookPcs
<1>4. SessionQuiet
  BY <1>2, SameQuiet
<1>5. CASE waiterStatus = WS_ENABLED
  <2>1. /\ Goto(t, "get") /\ UNCHANGED stack /\ waiterStatus' = WS_GETTING
        /\ loc' = [loc EXCEPT ![t].con = pConsumer]
    BY <1>5 DEF CheckLock, CheckLocks
  <2>2. \A u \in Threads : u # t => loc'[u] = loc[u]
    BY <1>1, <2>1 DEF ThreadTypeOK
  <2>3. Moved(t) /\ pc'[t] = "get"
    BY <1>1, <1>2, <2>1, <2>2, GotoMoved DEF LockedPcs
  <2>4. "get" \in QuietPcs /\ "get" \in LockPcs
    BY DEF QuietPcs, LockPcs, LockedPcs, PutPcs
  <2>5. ~WaiterOpen'
    BY <2>3, <2>4, OwnerNotOpen DEF Owner
  <2>6. RECLAIMSPACE_PEND \notin waiterStatus
    BY <1>5 DEF WS_ENABLED, RECLAIMSPACE_PEND
  <2> QED
    BY <1>2, <1>3, <1>4, <2>3, <2>4, <2>5, <2>6, QuietMeets, LookStep
<1>6. CASE waiterStatus # WS_ENABLED
  <2>1. Return(t) /\ UNCHANGED waiterStatus
    BY <1>6 DEF CheckLock, CheckLocks
  <2>2. Moved(t) /\ StackMeets(t)' /\ pc'[t] \notin PutPcs
    BY <1>1, <1>2, <2>1, ReturnMoved, ReturnMeets
  <2>3. ~WaiterOpen'
    BY <1>2, <1>6, <2>1 DEF WaiterOpen
  <2> QED
    BY <1>2, <1>3, <1>4, <2>1, <2>2, <2>3, LookStep
<1> QED
  BY <1>5, <1>6

(* A status without flags does not ask for a discard.                      *)
LEMMA PlainFlags ==
  /\ RECLAIMSPACE_PEND \notin WS_ENABLED /\ RECLAIMSPACE_PEND \notin WS_DISABLED
  /\ RECLAIMSPACE_PEND \notin WS_DELIVERING /\ RECLAIMSPACE_PEND \notin WS_DISABLED_LOCKEDWAIT
  /\ RECLAIMSPACE_PEND \notin WS_DISCONNECTED /\ RECLAIMSPACE_PEND \notin WS_GETTING
BY DEF WS_ENABLED, WS_DISABLED, WS_DELIVERING, WS_DISABLED_LOCKEDWAIT, WS_DISCONNECTED,
       WS_GETTING, RECLAIMSPACE_PEND

(* After the callback the waiter is open again, and who opened it looks.   *)
LEMMA ReenableWaiterRest ==
  ASSUME Inv, Inv', RestInv, NEW t \in Threads, ReenableWaiter(t)
  PROVE  RestInv'
<1>1. pc[t] = "reenable" /\ UNCHANGED <<nodes, bufferedMsgs, expiryData, session, cb, fate>>
  BY DEF ReenableWaiter, msgVars
<1>2. pc[t] # "sessMark" /\ pc[t] \notin DiscardPcs /\ pc[t] \notin MovePcs
  BY <1>1 DEF MovePcs, LockedPcs, WakePcs, DiscardPcs, FillPcs
<1> DEFINE r == loc[t].after
<1>3. r \in {"check", "checkLock"}
  BY <1>1 DEF Inv, LockInv, ThreadInv, LocalsMeet
<1>4. CASE waiterStatus = WS_DELIVERING
  <2>1. Goto(t, r) /\ UNCHANGED <<stack, loc>> /\ waiterStatus' = WS_ENABLED
    BY <1>4 DEF ReenableWaiter
  <2> HIDE DEF r
  <2> QED
    BY <1>1, <1>2, <1>3, <1>4, <2>1, PlainFlags, GotoLook
<1>5. CASE waiterStatus # WS_DELIVERING
  <2>1. /\ CallComplete(t, <<FrameAt(t, r)>> \o stack[t], loc[t].con, TRUE, FALSE)
        /\ UNCHANGED waiterStatus
    BY <1>5 DEF ReenableWaiter
  <2>2. Quiet(t)
    BY <1>1, <1>2, <2>1, SameQuiet DEF Quiet
  <2> HIDE DEF r
  <2> QED
    BY <1>1, <1>3, <2>1, <2>2, PlainComplete
<1> QED
  BY <1>4, <1>5

(* The lock is given up after a discard, if no flags have come.            *)
LEMMA CompleteUnlockRest ==
  ASSUME Inv, Inv', RestInv, NEW t \in Threads, CompleteUnlock(t)
  PROVE  RestInv'
<1>1. ThreadTypeOK /\ ThreadTypeOK'
  BY StepTypes
<1>2. /\ pc[t] = "completeUnlock"
      /\ UNCHANGED <<nodes, bufferedMsgs, expiryData, session, cb, fate>>
  BY DEF CompleteUnlock, msgVars
<1>3. pc[t] # "sessMark" /\ pc[t] \notin DiscardPcs /\ pc[t] \notin MovePcs
  BY <1>2 DEF MovePcs, LockedPcs, WakePcs, DiscardPcs, FillPcs
<1>4. ~loc[t].deliver => Has(stack[t], WakePcs)
  BY <1>2 DEF RestInv, ControlInv, StackMeets, MayUnlock
<1>5. CASE waiterStatus = WS_DELIVERING
  <2>1. /\ \/ Goto(t, "check") /\ UNCHANGED <<stack, loc>>
           \/ ~loc[t].deliver /\ Return(t)
    BY <1>5 DEF CompleteUnlock
  <2> QED
    BY <1>2, <1>3, <1>4, <1>5, <2>1, PlainFlags, GotoLook, ReturnLook
<1>6. CASE waiterStatus # WS_DELIVERING
  <2>1. Goto(t, "complete") /\ UNCHANGED <<waiterStatus, stack, loc>>
    BY <1>6 DEF CompleteUnlock
  <2>2. Moved(t) /\ pc'[t] = "complete"
    BY <1>1, <1>2, <2>1, GotoMoved DEF LockedPcs
  <2>3. StackMeets(t)'
    BY <1>4, <2>1, <2>2 DEF StackMeets
  <2>4. pc'[t] \notin PutPcs /\ pc'[t] \notin FillPcs /\ pc'[t] # "empty"
    BY <2>2 DEF PutPcs, FillPcs
  <2>5. SessionQuiet /\ StatusQuiet(t)
    BY <1>2, <2>1, SameQuiet
  <2> QED
    BY <1>2, <1>3, <2>2, <2>3, <2>4, <2>5, PlainStep
<1> QED
  BY <1>5, <1>6

(* The end of completeWaiterActions after a disable.                       *)
LEMMA DisablingRest ==
  ASSUME Inv, Inv', RestInv, NEW t \in Threads, Disabling(t)
  PROVE  RestInv'
<1>1. ThreadTypeOK /\ ThreadTypeOK'
  BY StepTypes
<1>2. /\ pc[t] = "disabling" /\ RECLAIMSPACE_PEND \notin waiterStatus
      /\ UNCHANGED <<nodes, bufferedMsgs, expiryData, session, cb, fate>>
  BY DEF Disabling, msgVars
<1>3. pc[t] # "sessMark" /\ pc[t] \notin DiscardPcs /\ pc[t] \notin MovePcs
  BY <1>2 DEF MovePcs, LockedPcs, WakePcs, DiscardPcs, FillPcs
<1>4. ~loc[t].deliver => Has(stack[t], WakePcs)
  BY <1>2 DEF RestInv, ControlInv, StackMeets, MayUnlock
<1>5. SessionQuiet
  BY <1>2, SameQuiet
<1>6. "release" \in QuietPcs /\ "release" \notin LockedPcs /\ "disconnect" \in QuietPcs
      /\ "release" \notin PutPcs
  BY DEF QuietPcs, LockPcs, FreePcs, LockedPcs, PutPcs
<1>7. CASE DISCONNECT_PEND \in waiterStatus
  <2>1. /\ waiterStatus' = {DISCONNECT_PEND} /\ Goto(t, "disconnect")
        /\ UNCHANGED <<stack, loc>>
    BY <1>7 DEF Disabling
  <2>2. {DISCONNECT_PEND} \notin {WS_ENABLED, WS_GETTING}
    BY DEF DISCONNECT_PEND, WS_ENABLED, WS_GETTING
  <2>3. Quiet(t)
    BY <1>2, <1>3, <1>5, <2>1, <2>2 DEF Quiet, StatusQuiet
  <2> QED
    BY <1>2, <1>6, <2>1, <2>3, PlainGoto
<1>8. CASE DISCONNECT_PEND \notin waiterStatus /\ CANCEL_DISABLE_PEND \notin waiterStatus
  <2>1. waiterStatus' = WS_DISABLED /\ FinishComplete(t)
    BY <1>8 DEF Disabling
  <2>2. WS_DISABLED \notin {WS_ENABLED, WS_GETTING}
    BY DEF WS_DISABLED, WS_ENABLED, WS_GETTING
  <2>3. Quiet(t)
    BY <1>2, <1>3, <1>5, <2>1, <2>2 DEF Quiet, StatusQuiet
  <2>4. Return(t) \/ (Goto(t, "release") /\ UNCHANGED <<stack, loc>>)
    BY <2>1 DEF FinishComplete
  <2> QED
    BY <1>2, <1>6, <2>3, <2>4, PlainGoto, PlainReturn
<1>9. CASE DISCONNECT_PEND \notin waiterStatus /\ CANCEL_DISABLE_PEND \in waiterStatus
  <2>1. CASE loc[t].deliver
    <3>1. /\ Goto(t, "check") /\ UNCHANGED loc
          /\ UNCHANGED stack \/ Push(t, "release")
      BY <1>9, <2>1 DEF Disabling
    <3>2. CASE UNCHANGED stack
      BY <1>2, <1>3, <3>1, <3>2, GotoLook
    <3>3. CASE Push(t, "release")
      <4> DEFINE f == FrameAt(t, "release")
      <4>1. f \in Frame /\ f.pc \notin LockedPcs
        BY <1>1, FrameAtType DEF FrameAt, ReturnPcs, LockedPcs
      <4>2. stack' = [stack EXCEPT ![t] = <<f>> \o @]
        BY <3>3 DEF Push
      <4> HIDE DEF f
      <4>3. Moved(t) /\ pc'[t] = "check"
        BY <1>1, <1>2, <3>1, <4>1, <4>2, PushMoved, LookPcs
      <4>4. "check" \in QuietPcs /\ "check" \in WakePcs /\ "check" \notin PutPcs
        BY LookPcs
      <4>5. StackMeets(t)'
        BY <4>3, <4>4, QuietMeets
      <4>6. \E u \in Threads : Wakes(u)'
        BY <4>3, <4>4 DEF Wakes, InCall
      <4> QED
        BY <1>2, <1>3, <1>5, <4>3, <4>4, <4>5, <4>6, LookStep
    <3> QED
      BY <3>1, <3>2, <3>3
  <2>2. CASE ~loc[t].deliver
    <3>1. Return(t) \/ (Goto(t, "release") /\ UNCHANGED <<stack, loc>>)
      BY <1>9, <2>2 DEF Disabling, FinishComplete
    <3>2. Has(stack[t], WakePcs)
      BY <1>4, <2>2
    <3>3. CASE Return(t)
      BY <1>2, <1>3, <3>2, <3>3, ReturnLook
    <3>4. CASE Goto(t, "release") /\ UNCHANGED <<stack, loc>>
      <4>1. Moved(t) /\ pc'[t] = "release"
        BY <1>1, <1>2, <1>6, <3>4, GotoMoved
      <4>2. StackMeets(t)'
        BY <1>6, <4>1, QuietMeets
      <4>3. InCall(t, WakePcs)'
        BY <3>2, <4>1 DEF Moved, Rest
      <4>4. \E u \in Threads : Wakes(u)'
        BY <4>3, ComesToLook
      <4> QED
        BY <1>2, <1>3, <1>5, <1>6, <4>1, <4>2, <4>4, LookStep
    <3> QED
      BY <3>1, <3>3, <3>4
  <2> QED
    BY <2>1, <2>2
<1> QED
  BY <1>7, <1>8, <1>9

(* The lock is given up after a discard or after messages have expired.    *)
LEMMA UnlockAfterQOperationRest ==
  ASSUME Inv, Inv', RestInv, NEW t \in Threads, UnlockAfterQOperation(t)
  PROVE  RestInv'
<1>1. ThreadTypeOK
  BY StepTypes
<1>2. pc[t] = "unlock" /\ UNCHANGED <<nodes, bufferedMsgs, expiryData, session, cb, fate>>
  BY DEF UnlockAfterQOperation, msgVars
<1>3. pc[t] # "sessMark" /\ pc[t] \notin DiscardPcs /\ pc[t] \notin MovePcs
  BY <1>2 DEF MovePcs, LockedPcs, WakePcs, DiscardPcs, FillPcs
<1>4. loc[t].old \in {WS_DISCONNECTED, WS_DISABLED, WS_ENABLED}
  BY <1>2 DEF Inv, LockInv, ThreadInv, LocalsMeet
<1>5. CASE loc[t].old = WS_ENABLED /\ waiterStatus = WS_DELIVERING
  <2>1. Goto(t, "check") /\ UNCHANGED <<stack, loc>>
    BY <1>5 DEF UnlockAfterQOperation
  <2> QED
    BY <1>2, <1>3, <1>5, <2>1, PlainFlags, GotoLook
<1>6. CASE loc[t].old = WS_ENABLED /\ waiterStatus # WS_DELIVERING
  <2>1. /\ CallComplete(t, <<FrameAt(t, "check")>> \o stack[t], loc[t].con, TRUE, FALSE)
        /\ UNCHANGED waiterStatus
    BY <1>6 DEF UnlockAfterQOperation
  <2>2. Quiet(t)
    BY <1>2, <1>3, <2>1, SameQuiet DEF Quiet
  <2> QED
    BY <1>2, <2>1, <2>2, PlainComplete
<1>7. CASE loc[t].old # WS_ENABLED /\ waiterStatus = WS_DISABLED_LOCKEDWAIT
  <2>1. waiterStatus' = loc[t].old /\ Return(t)
    BY <1>7 DEF UnlockAfterQOperation
  <2>2. WS_DISCONNECTED \notin {WS_ENABLED, WS_GETTING} /\ WS_DISABLED \notin {WS_ENABLED, WS_GETTING}
    BY DEF WS_DISCONNECTED, WS_DISABLED, WS_ENABLED, WS_GETTING
  <2>3. StatusQuiet(t)
    BY <1>4, <1>7, <2>1, <2>2, PlainFlags DEF StatusQuiet
  <2>4. Quiet(t)
    BY <1>2, <1>3, <2>3, SameQuiet DEF Quiet
  <2> QED
    BY <1>2, <2>1, <2>4, PlainReturn
<1>8. CASE loc[t].old # WS_ENABLED /\ waiterStatus # WS_DISABLED_LOCKEDWAIT
  <2>1. Goto(t, "ffdc")
    BY <1>8 DEF UnlockAfterQOperation
  <2>2. pc'[t] = "ffdc"
    BY <1>1, <2>1 DEF Goto, ThreadTypeOK
  <2>3. pc'[t] # "ffdc"
    BY DEF Inv, LockInv, ThreadInv
  <2> QED
    BY <2>2, <2>3
<1> QED
  BY <1>5, <1>6, <1>7, <1>8

(* Who enables the waiter looks at the queue, or visits the consumers to   *)
(* look for them, or is followed by who destroys the session.              *)
LEMMA EnableWaiterRest ==
  ASSUME Inv, Inv', RestInv, NEW t \in Threads, EnableWaiter(t)
  PROVE  RestInv'
<1>1. ThreadTypeOK /\ ThreadTypeOK' /\ waiterStatus \in Status
  BY StepTypes
<1>2. /\ pc[t] = "enable" /\ waiterStatus' = EnableTo(waiterStatus)
      /\ UNCHANGED <<nodes, bufferedMsgs, expiryData, session, cb, fate>>
  BY DEF EnableWaiter, msgVars
<1>3. pc[t] # "sessMark" /\ pc[t] \notin DiscardPcs /\ pc[t] \notin MovePcs
  BY <1>2 DEF MovePcs, LockedPcs, WakePcs, DiscardPcs, FillPcs
<1>4. SessionQuiet
  BY <1>2, SameQuiet
<1>5. /\ RECLAIMSPACE_PEND \in waiterStatus => RECLAIMSPACE_PEND \in waiterStatus'
      /\ \/ waiterStatus' = waiterStatus
         \/ waiterStatus' \notin {WS_ENABLED, WS_GETTING}
         \/ EnableRc(waiterStatus) = "OK"
  BY <1>1, <1>2, EnableKeepsFlag
<1>6. CASE EnableRc(waiterStatus) # "OK"
  <2>1. Quiet(t)
    BY <1>2, <1>3, <1>4, <1>5, <1>6 DEF Quiet, StatusQuiet
  <2>2. "enableUndo" \in QuietPcs /\ "release" \in QuietPcs
    BY DEF QuietPcs, FreePcs, LockedPcs, PutPcs
  <2>3. \/ Return(t)
        \/ Goto(t, "enableUndo") /\ UNCHANGED <<stack, loc>>
        \/ Call(t, "release", "enableUndo") /\ UNCHANGED loc
    BY DEF EnableWaiter
  <2>4. CASE Call(t, "release", "enableUndo") /\ UNCHANGED loc
    <3> DEFINE f == FrameAt(t, "enableUndo")
    <3>1. f \in Frame /\ f.pc \notin LockedPcs
      BY <1>1, FrameAtType DEF FrameAt, ReturnPcs, LockedPcs
    <3>2. stack' = [stack EXCEPT ![t] = <<f>> \o @] /\ Goto(t, "release")
      BY <2>4 DEF Call, Push
    <3> HIDE DEF f
    <3> QED
      BY <1>2, <2>1, <2>2, <2>4, <3>1, <3>2, PlainPush
  <2> QED
    BY <1>2, <2>1, <2>2, <2>3, <2>4, PlainGoto, PlainReturn
<1>7. CASE EnableRc(waiterStatus) = "OK"
  <2>1. Return(t)
    BY <1>7 DEF EnableWaiter
  <2>2. Moved(t) /\ StackMeets(t)' /\ pc'[t] \notin PutPcs
    BY <1>1, <1>2, <2>1, ReturnMoved, ReturnMeets
  <2>3. Has(stack[t], WakePcs) \/ Has(stack[t], {"startNext"})
    BY <1>2 DEF RestInv, ControlInv, StackMeets, Has
  <2>4. CASE Has(stack[t], WakePcs)
    BY <1>2, <1>3, <1>5, <2>1, <2>4, ReturnLook
  <2>5. CASE Has(stack[t], {"startNext"})
    <3>1. Rest(t, {"startNext"})
      BY <2>5 DEF Rest
    <3>2. InCall(t, {"startNext"}) /\ InCall(t, {"startNext"})'
      BY <2>2, <3>1, InCallRest DEF Moved
    <3>3. session.list # << >> /\ (session.destroyed => \E u \in Threads : pc[u] = "sessMark")
      BY <3>1, <3>2, StartingParts DEF RestInv, ControlInv
    <3>4. CASE ~session.destroyed
      BY <1>2, <1>3, <1>4, <1>5, <2>2, <3>2, <3>3, <3>4, LookStep DEF Wakes
    <3>5. CASE session.destroyed
      <4>1. PICK u \in Threads : pc[u] = "sessMark"
        BY <3>3, <3>5
      <4>2. pc'[u] = "sessMark"
        BY <1>3, <2>2, <4>1 DEF Moved, Alone
      <4>3. Wakes(u)'
        BY <1>2, <3>3, <4>2 DEF Wakes
      <4> QED
        BY <1>2, <1>3, <1>4, <1>5, <2>2, <4>3, LookStep
    <3> QED
      BY <3>4, <3>5
  <2> QED
    BY <2>3, <2>4, <2>5
<1> QED
  BY <1>6, <1>7

(* The waiter is not open after it has been disabled.                      *)
LEMMA DisableWaiterRest ==
  ASSUME Inv, Inv', RestInv, NEW t \in Threads, DisableWaiter(t)
  PROVE  RestInv'
<1>1. ThreadTypeOK /\ ThreadTypeOK' /\ waiterStatus \in Status
  BY StepTypes
<1>2. /\ pc[t] = "disable" /\ waiterStatus' = DisableTo(waiterStatus)
      /\ UNCHANGED <<nodes, bufferedMsgs, expiryData, session, cb, fate>>
  BY DEF DisableWaiter, msgVars
<1>3. pc[t] # "sessMark" /\ pc[t] \notin DiscardPcs
  BY <1>2 DEF DiscardPcs, FillPcs
<1>4. SessionQuiet
  BY <1>2, SameQuiet
<1>5. /\ RECLAIMSPACE_PEND \in waiterStatus => RECLAIMSPACE_PEND \in waiterStatus'
      /\ ~WaiterOpen'
  BY <1>1, <1>2, DisableKeepsFlag DEF WaiterOpen
<1>6. \/ CallComplete(t, stack[t], loc[t].con, TRUE, TRUE)
      \/ Goto(t, "uncancelCB") /\ UNCHANGED <<stack, loc>>
      \/ Return(t)
  <2>1. DisableOutcome(waiterStatus)
          \in {"WaiterInvalid", "WaiterDisabled", "uncancel", "AsyncCompletion", "lock"}
    BY DEF DisableOutcome
  <2> QED
    BY <2>1 DEF DisableWaiter
<1>7. CASE CallComplete(t, stack[t], loc[t].con, TRUE, TRUE)
  <2>1. Goto(t, "complete") /\ stack' = stack
    BY <1>1, <1>7 DEF CallComplete, ThreadTypeOK
  <2>2. loc'[t].deliver /\ \A u \in Threads : u # t => loc'[u] = loc[u]
    BY <1>1, <1>7 DEF CallComplete, ThreadTypeOK, Locals
  <2>3. Moved(t) /\ pc'[t] = "complete"
    BY <1>1, <1>2, <2>1, <2>2, GotoMoved DEF LockedPcs
  <2>4. StackMeets(t)' /\ pc'[t] \notin PutPcs
    BY <2>2, <2>3 DEF StackMeets, PutPcs
  <2> QED
    BY <1>2, <1>3, <1>4, <1>5, <2>3, <2>4, LookStep
<1>8. CASE Goto(t, "uncancelCB") /\ UNCHANGED <<stack, loc>>
  <2>1. "uncancelCB" \in QuietPcs
    BY DEF QuietPcs, FreePcs, LockedPcs, PutPcs
  <2>2. Moved(t) /\ pc'[t] = "uncancelCB"
    BY <1>1, <1>2, <1>8, GotoMoved DEF LockedPcs
  <2> QED
    BY <1>2, <1>3, <1>4, <1>5, <2>1, <2>2, QuietMeets, LookStep
<1>9. CASE Return(t)
  <2>1. Moved(t) /\ StackMeets(t)' /\ pc'[t] \notin PutPcs
    BY <1>1, <1>2, <1>9, ReturnMoved, ReturnMeets
  <2> QED
    BY <1>2, <1>3, <1>4, <1>5, <2>1, LookStep
<1> QED
  BY <1>6, <1>7, <1>8, <1>9

-----------------------------------------------------------------------------
(* The messages in the queue *)

(* A put with a node of its own goes on.                                   *)
LEMMA FillStep ==
  ASSUME Inv, Inv', RestInv, NEW t \in Threads, pc[t] \in {"enqueue", "count", "addExpiry"},
         NEW l \in FillPcs, Goto(t, l), NodeInv', Ready' => Ready,
         UNCHANGED <<waiterStatus, session, stack, cb, loc>>
  PROVE  RestInv'
<1>1. ThreadTypeOK /\ ThreadTypeOK'
  BY StepTypes
<1>2. Moved(t) /\ pc'[t] = l
  BY <1>1, GotoMoved DEF FillPcs, LockedPcs
<1>3. pc'[t] \in PutPcs /\ pc'[t] # "empty" /\ pc[t] \notin MovePcs /\ pc[t] # "sessMark"
  BY <1>2 DEF PutPcs, FillPcs, MovePcs, LockedPcs, WakePcs
<1>4. SessionQuiet /\ StatusQuiet(t)
  BY SameQuiet
<1>5. ControlInv'
  BY <1>2, <1>3, <1>4, FreeMeets, PlainControl DEF RestInv
<1>6. WaiterOpen' => WaiterOpen
  BY <1>2, <1>3, <1>4, OpenKept DEF Moved
<1>7. WakeInv'
  BY <1>2, <1>3, <1>4, <1>6, PlainWake DEF RestInv
<1>8. DiscardInv'
  BY <1>2 DEF DiscardInv, Discards
<1> QED
  BY <1>5, <1>7, <1>8 DEF RestInv

(* Going on, the others stay.                                              *)
LEMMA GotoAlone ==
  ASSUME ThreadTypeOK, ThreadTypeOK', NEW t \in Threads, NEW l, Goto(t, l),
         UNCHANGED <<stack, cb>>, \A u \in Threads : u # t => loc'[u] = loc[u]
  PROVE  Alone(t) /\ pc'[t] = l
BY DEF Goto, Alone, ThreadTypeOK

(* A put takes its node,                                                   *)
LEMMA EnqueueRest ==
  ASSUME Inv, Inv', RestInv, NEW t \in Threads, Enqueue(t)
  PROVE  RestInv'
<1>1. ThreadTypeOK /\ ThreadTypeOK' /\ QueueTypeOK
  BY StepTypes
<1>2. /\ pc[t] = "enqueue" /\ Goto(t, "count")
      /\ UNCHANGED <<waiterStatus, session, stack, cb, loc>>
  BY DEF Enqueue
<1>3. Alone(t)
  BY <1>1, <1>2, GotoAlone
<1>4. NodeInv' /\ (Ready' => Ready)
  BY <1>1, <1>3, EnqueueNodes DEF RestInv
<1> QED
  BY <1>2, <1>4, FillStep DEF FillPcs

(* ... counts its message,                                                 *)
LEMMA CountMessageRest ==
  ASSUME Inv, Inv', RestInv, NEW t \in Threads, CountMessage(t)
  PROVE  RestInv'
<1>1. ThreadTypeOK /\ ThreadTypeOK' /\ QueueTypeOK
  BY StepTypes
<1>2. /\ pc[t] = "count" /\ UNCHANGED <<nodes, waiterStatus, session, stack, cb, loc>>
  BY DEF CountMessage
<1>3. PICK l \in FillPcs : Goto(t, l)
  BY DEF CountMessage, FillPcs
<1>4. Alone(t)
  BY <1>1, <1>2, <1>3, GotoAlone
<1>5. NodeInv'
  BY <1>1, <1>4, CountNodes DEF RestInv
<1>6. Ready' <=> Ready
  BY <1>2 DEF Ready, HeadReady, SkipRemoved
<1> QED
  BY <1>2, <1>3, <1>5, <1>6, FillStep

(* ... and tells the reaper when it expires.                               *)
LEMMA AddMessageExpiryDataRest ==
  ASSUME Inv, Inv', RestInv, NEW t \in Threads, AddMessageExpiryData(t)
  PROVE  RestInv'
<1>1. ThreadTypeOK /\ ThreadTypeOK' /\ QueueTypeOK
  BY StepTypes
<1>2. /\ pc[t] = "addExpiry" /\ Goto(t, "store")
      /\ UNCHANGED <<nodes, waiterStatus, session, stack, cb, loc>>
  BY DEF AddMessageExpiryData
<1>3. Alone(t)
  BY <1>1, <1>2, GotoAlone
<1>4. NodeInv'
  BY <1>1, <1>3, AddExpiryNodes DEF RestInv
<1>5. Ready' <=> Ready
  BY <1>2 DEF Ready, HeadReady, SkipRemoved
<1> QED
  BY <1>2, <1>4, <1>5, FillStep DEF FillPcs

(* Who stores a message looks for a consumer, and then at the limit.       *)
LEMMA StoreMessageRest ==
  ASSUME Inv, Inv', RestInv, NEW t \in Threads, StoreMessage(t)
  PROVE  RestInv'
<1>1. ThreadTypeOK /\ ThreadTypeOK' /\ QueueTypeOK /\ QueueTypeOK'
  BY StepTypes
<1> DEFINE f == FrameAt(t, "postput")
<1>2. /\ pc[t] = "store" /\ Goto(t, "check") /\ stack' = [stack EXCEPT ![t] = <<f>> \o @]
      /\ UNCHANGED <<waiterStatus, session, cb, loc>>
  BY DEF StoreMessage, Call, Push
<1>3. f \in Frame /\ f.pc = "postput" /\ f.pc \notin LockedPcs
  BY <1>1, FrameAtType DEF FrameAt, ReturnPcs, LockedPcs
<1> HIDE DEF f
<1>4. /\ Moved(t) /\ pc'[t] = "check"
      /\ \A P : Rest(t, P)' <=> f.pc \in P \/ Rest(t, P)
  BY <1>1, <1>2, <1>3, PushMoved, LookPcs
<1>5. StackMeets(t)'
  BY <1>4, QuietMeets, LookPcs
<1>6. SessionQuiet /\ pc[t] # "sessMark"
  BY <1>2, SameQuiet
<1>7. ControlInv'
  BY <1>4, <1>5, <1>6, PlainControl DEF RestInv
<1>8. NodeInv'
  BY <1>1, <1>4, StoreNodes DEF RestInv, Moved
<1>9. WakeInv'
  BY <1>4, LookPcs DEF WakeInv, Wakes, InCall
<1>10. InCall(t, {"postput", "postput2"})'
  <2>1. Rest(t, {"postput", "postput2"})'
    BY <1>3, <1>4
  <2> QED
    BY <2>1 DEF InCall, Rest, Has, HasBelow
<1>11. DiscardInv'
  BY <1>10 DEF DiscardInv, Discards
<1> QED
  BY <1>7, <1>8, <1>9, <1>11 DEF RestInv

(* The puts are not touched by a step of another kind.                     *)
LEMMA StayAlone ==
  ASSUME NEW t \in Threads, Alone(t), pc[t] \notin PutPcs, pc'[t] \notin PutPcs,
         \A m \in Msgs : fate'[m] = "unsent" => fate[m] = "unsent"
  PROVE  PutsStay
BY DEF PutsStay, Alone

(* The first message is taken, or the queue is found empty.                *)
LEMMA GetMessageRest ==
  ASSUME Inv, Inv', RestInv, NEW t \in Threads, GetMessage(t)
  PROVE  RestInv'
<1>1. ThreadTypeOK /\ ThreadTypeOK' /\ QueueTypeOK /\ bufferedMsgs \in Int /\ bufferedMsgs' \in Int
  BY StepTypes
<1>2. /\ pc[t] = "get" /\ UNCHANGED <<waiterStatus, session, stack, cb, fate>>
  BY DEF GetMessage, msgVars
<1>3. \A u \in Threads : u # t => loc'[u] = loc[u]
  BY <1>1 DEF GetMessage, ThreadTypeOK
<1>4. PICK l \in {"got", "empty"} : Goto(t, l)
  BY DEF GetMessage
<1>5. Moved(t) /\ pc'[t] = l
  BY <1>1, <1>2, <1>3, <1>4, GotoMoved DEF LockedPcs
<1>6. /\ pc[t] \notin PutPcs /\ pc'[t] \notin PutPcs /\ pc[t] # "sessMark" /\ pc[t] \notin DiscardPcs
      /\ pc'[t] \in QuietPcs \cup {"empty"} /\ pc'[t] \in LockPcs
  BY <1>2, <1>5 DEF PutPcs, DiscardPcs, FillPcs, QuietPcs, LockPcs, LockedPcs
<1>7. SessionQuiet
  BY <1>2, SameQuiet
<1>8. ControlInv'
  BY <1>5, <1>6, <1>7, FreeMeets, PlainControl DEF RestInv
<1>9. PutsStay
  BY <1>2, <1>5, <1>6, StayAlone DEF Moved
<1>10. CASE TakeHead /\ Goto(t, "got")
  <2>1. NodeInv' /\ bufferedMsgs' = bufferedMsgs - 1
    BY <1>1, <1>9, <1>10, TakeHeadNodes DEF RestInv
  <2>2. pc'[t] = "got"
    BY <1>1, <1>10 DEF Goto, ThreadTypeOK
  <2>3. ~WaiterOpen'
    BY <1>6, <2>2, OwnerNotOpen DEF Owner
  <2>4. WakeInv'
    BY <2>3 DEF WakeInv
  <2>5. bufferedMsgs' <= bufferedMsgs
    BY <1>1, <2>1
  <2>6. DiscardInv'
    BY <1>1, <1>2, <1>5, <1>6, <2>5, PlainDiscard DEF RestInv
  <2> QED
    BY <1>8, <2>1, <2>4, <2>6 DEF RestInv
<1>11. CASE /\ ~HeadReady(SkipRemoved(nodes)) /\ nodes' = SkipRemoved(nodes)
            /\ UNCHANGED <<bufferedMsgs, expiryData>>
  <2>1. NodeInv' /\ (Ready' => Ready)
    BY <1>1, <1>9, <1>11, SkipNodes DEF RestInv
  <2>2. ~Ready
    BY <1>11 DEF Ready
  <2>3. WakeInv'
    BY <2>1, <2>2 DEF WakeInv
  <2>4. bufferedMsgs' <= bufferedMsgs
    BY <1>1, <1>11
  <2>5. DiscardInv'
    BY <1>1, <1>2, <1>5, <1>6, <2>4, PlainDiscard DEF RestInv
  <2> QED
    BY <1>8, <2>1, <2>3, <2>5 DEF RestInv
<1> QED
  BY <1>10, <1>11 DEF GetMessage

-----------------------------------------------------------------------------
(* Discarding messages, and expiring them *)

(* What a discard leaves is within the limit.                              *)
LEMMA TargetWithin ==
  ASSUME MaxMsgCount > 0
  PROVE  ReclaimTarget \in Int /\ ReclaimTarget <= MaxMsgCount
<1>1. MaxMsgCount \in Nat
  BY ConstantsAssumption
<1> QED
  BY <1>1 DEF ReclaimTarget

(* A step at a point at which a discard is expected.                       *)
LEMMA DueStep ==
  ASSUME Inv, Inv', RestInv, NEW t \in Threads, Moved(t), StackMeets(t)', SessionQuiet,
         pc[t] \notin MovePcs, pc[t] \notin FillPcs, pc'[t] \notin PutPcs,
         UNCHANGED <<nodes, bufferedMsgs, expiryData, fate>>,
         WaiterOpen' => WaiterOpen, DiscardInv'
  PROVE  RestInv'
<1>1. pc[t] # "sessMark"
  BY DEF MovePcs
<1>2. ControlInv' /\ NodeInv' /\ (Ready' <=> Ready)
  BY <1>1, StillParts
<1>3. WakeInv'
  BY <1>2, PlainWake DEF RestInv
<1> QED
  BY <1>2, <1>3 DEF RestInv

(* After the put: is the queue at its limit?                               *)
LEMMA PostPutRest ==
  ASSUME Inv, Inv', RestInv, NEW t \in Threads, PostPut(t)
  PROVE  RestInv'
<1>1. ThreadTypeOK /\ ThreadTypeOK' /\ bufferedMsgs \in Int
  BY StepTypes
<1>2. /\ pc[t] = "postput"
      /\ UNCHANGED <<nodes, bufferedMsgs, expiryData, waiterStatus, session, cb, fate>>
  BY DEF PostPut, queueVars, msgVars
<1>3. pc[t] \notin MovePcs /\ pc[t] \notin FillPcs
  BY <1>2 DEF MovePcs, LockedPcs, WakePcs, FillPcs
<1>4. SessionQuiet /\ StatusQuiet(t)
  BY <1>2, SameQuiet
<1>5. CASE bufferedMsgs < MaxMsgCount
  <2>1. Return(t)
    BY <1>5 DEF PostPut
  <2>2. Moved(t) /\ StackMeets(t)' /\ pc'[t] \notin PutPcs /\ pc'[t] # "empty"
    BY <1>1, <1>2, <2>1, ReturnMoved, ReturnMeets
  <2>3. WaiterOpen' => WaiterOpen
    BY <1>4, <2>2, OpenKept DEF Moved
  <2>4. ~(bufferedMsgs' > MaxMsgCount)
    BY <1>1, <1>2, <1>5, ConstantsAssumption
  <2>5. DiscardInv'
    BY <2>4 DEF DiscardInv
  <2> QED
    BY <1>2, <1>3, <1>4, <2>2, <2>3, <2>5, DueStep
<1>6. CASE ~(bufferedMsgs < MaxMsgCount) /\ ReapNeeded
  <2> DEFINE f == FrameAt(t, "postput2")
  <2>1. /\ Goto(t, "reapLock") /\ stack' = [stack EXCEPT ![t] = <<f>> \o @]
        /\ loc' = [loc EXCEPT ![t].deliver = TRUE]
    BY <1>6 DEF PostPut, Call, Push
  <2>2. f \in Frame /\ f.pc = "postput2" /\ f.pc \notin LockedPcs
    BY <1>1, FrameAtType DEF FrameAt, ReturnPcs, LockedPcs
  <2> HIDE DEF f
  <2>3. \A u \in Threads : u # t => loc'[u] = loc[u]
    BY <1>1, <2>1 DEF ThreadTypeOK
  <2>4. "reapLock" \in QuietPcs /\ "reapLock" \notin LockedPcs
    BY DEF QuietPcs, FreePcs, LockedPcs, PutPcs
  <2>5. /\ Moved(t) /\ pc'[t] = "reapLock"
        /\ \A P : Rest(t, P)' <=> f.pc \in P \/ Rest(t, P)
    BY <1>1, <1>2, <2>1, <2>2, <2>3, <2>4, PushMoved
  <2>6. StackMeets(t)' /\ pc'[t] \notin PutPcs /\ pc'[t] # "empty"
    BY <2>4, <2>5, QuietMeets
  <2>7. WaiterOpen' => WaiterOpen
    BY <1>4, <2>5, <2>6, OpenKept DEF Moved
  <2>8. Rest(t, {"postput", "postput2"})'
    BY <2>2, <2>5
  <2>9. DiscardInv'
    BY <2>8 DEF DiscardInv, Discards, InCall, Rest, Has, HasBelow
  <2> QED
    BY <1>2, <1>3, <1>4, <2>5, <2>6, <2>7, <2>9, DueStep
<1>7. CASE ~(bufferedMsgs < MaxMsgCount) /\ ~ReapNeeded
  <2>1. Goto(t, "postput2") /\ UNCHANGED <<stack, loc>>
    BY <1>7 DEF PostPut
  <2>2. "postput2" \in QuietPcs /\ "postput2" \notin LockedPcs
    BY DEF QuietPcs, FreePcs, LockedPcs, PutPcs
  <2>3. Moved(t) /\ pc'[t] = "postput2"
    BY <1>1, <1>2, <2>1, <2>2, GotoMoved
  <2>4. StackMeets(t)' /\ pc'[t] \notin PutPcs /\ pc'[t] # "empty"
    BY <2>2, <2>3, QuietMeets
  <2>5. WaiterOpen' => WaiterOpen
    BY <1>4, <2>3, <2>4, OpenKept DEF Moved
  <2>6. DiscardInv'
    BY <2>3 DEF DiscardInv, Discards, InCall
  <2> QED
    BY <1>2, <1>3, <1>4, <2>3, <2>4, <2>5, <2>6, DueStep
<1> QED
  BY <1>5, <1>6, <1>7

(* ... and over it?                                                        *)
LEMMA PostPutDiscardRest ==
  ASSUME Inv, Inv', RestInv, NEW t \in Threads, PostPutDiscard(t)
  PROVE  RestInv'
<1>1. ThreadTypeOK /\ ThreadTypeOK'
  BY StepTypes
<1>2. /\ pc[t] = "postput2"
      /\ UNCHANGED <<nodes, bufferedMsgs, expiryData, waiterStatus, session, cb, fate>>
  BY DEF PostPutDiscard, queueVars, msgVars
<1>3. pc[t] \notin MovePcs /\ pc[t] \notin FillPcs
  BY <1>2 DEF MovePcs, LockedPcs, WakePcs, FillPcs
<1>4. SessionQuiet /\ StatusQuiet(t)
  BY <1>2, SameQuiet
<1>5. CASE MaxMsgBehavior = "DiscardOldMessages" /\ bufferedMsgs > MaxMsgCount
  <2>1. Goto(t, "reclaimLock") /\ UNCHANGED <<stack, loc>>
    BY <1>5 DEF PostPutDiscard
  <2>2. "reclaimLock" \in QuietPcs /\ "reclaimLock" \notin LockedPcs
    BY DEF QuietPcs, FreePcs, LockedPcs, PutPcs
  <2>3. Moved(t) /\ pc'[t] = "reclaimLock"
    BY <1>1, <1>2, <2>1, <2>2, GotoMoved
  <2>4. StackMeets(t)' /\ pc'[t] \notin PutPcs /\ pc'[t] # "empty"
    BY <2>2, <2>3, QuietMeets
  <2>5. WaiterOpen' => WaiterOpen
    BY <1>4, <2>3, <2>4, OpenKept DEF Moved
  <2>6. DiscardInv'
    BY <2>3 DEF DiscardInv, Discards
  <2> QED
    BY <1>2, <1>3, <1>4, <2>3, <2>4, <2>5, <2>6, DueStep
<1>6. CASE ~(MaxMsgBehavior = "DiscardOldMessages" /\ bufferedMsgs > MaxMsgCount)
  <2>1. Return(t)
    BY <1>6 DEF PostPutDiscard
  <2>2. Moved(t) /\ StackMeets(t)' /\ pc'[t] \notin PutPcs /\ pc'[t] # "empty"
    BY <1>1, <1>2, <2>1, ReturnMoved, ReturnMeets
  <2>3. WaiterOpen' => WaiterOpen
    BY <1>4, <2>2, OpenKept DEF Moved
  <2>4. DiscardInv'
    BY <1>2, <1>6 DEF DiscardInv
  <2> QED
    BY <1>2, <1>3, <1>4, <2>2, <2>3, <2>4, DueStep
<1> QED
  BY <1>5, <1>6

(* The lock is taken to discard, or its owner is told.                     *)
LEMMA LockForReclaimRest ==
  ASSUME Inv, Inv', RestInv, NEW t \in Threads, LockForReclaim(t)
  PROVE  RestInv'
<1>1. ThreadTypeOK /\ ThreadTypeOK' /\ waiterStatus \in Status
  BY StepTypes
<1>2. /\ pc[t] = "reclaimLock" /\ waiterStatus' = ReclaimTo(waiterStatus)
      /\ UNCHANGED <<nodes, bufferedMsgs, expiryData, session, cb, fate>>
  BY DEF LockForReclaim, msgVars
<1>3. pc[t] \notin MovePcs /\ pc[t] \notin FillPcs
  BY <1>2 DEF MovePcs, LockedPcs, WakePcs, FillPcs
<1>4. SessionQuiet
  BY <1>2, SameQuiet
<1>5. CASE IsLocked(waiterStatus)
  <2>1. Return(t)
    BY <1>5 DEF LockForReclaim
  <2>2. Moved(t) /\ StackMeets(t)' /\ pc'[t] \notin PutPcs
    BY <1>1, <1>2, <2>1, ReturnMoved, ReturnMeets
  <2>3. waiterStatus \notin {WS_ENABLED, WS_DISABLED, WS_DISCONNECTED}
    BY <1>1, <1>5, LockedCases
  <2>4. waiterStatus' = AddPendFlag(waiterStatus, RECLAIMSPACE_PEND)
    BY <1>2, <2>3 DEF ReclaimTo
  <2>5. RECLAIMSPACE_PEND \in PENDING
    BY DEF PENDING
  <2>6. RECLAIMSPACE_PEND \in waiterStatus' /\ waiterStatus' \notin {WS_ENABLED, WS_GETTING}
    BY <2>4, <2>5, AddKeepsFlag
  <2>7. DiscardInv' /\ ~WaiterOpen'
    BY <2>6 DEF DiscardInv, WaiterOpen
  <2> QED
    BY <1>2, <1>3, <1>4, <2>2, <2>7, DueStep
<1>6. CASE ~IsLocked(waiterStatus)
  <2>1. /\ Goto(t, "reclaim") /\ UNCHANGED stack
        /\ loc' = [loc EXCEPT ![t].old = waiterStatus, ![t].after = "unlock",
                              ![t].con = pConsumer]
    BY <1>6 DEF LockForReclaim
  <2>2. loc'[t].after = "unlock" /\ \A u \in Threads : u # t => loc'[u] = loc[u]
    BY <1>1, <2>1 DEF ThreadTypeOK, Locals
  <2>3. Moved(t) /\ pc'[t] = "reclaim"
    BY <1>1, <1>2, <2>1, <2>2, GotoMoved DEF LockedPcs
  <2>4. StackMeets(t)' /\ pc'[t] \notin PutPcs /\ pc'[t] \in LockPcs
    BY <2>2, <2>3 DEF StackMeets, MayUnlock, PutPcs, LockPcs
  <2>5. ~WaiterOpen'
    BY <2>3, <2>4, OwnerNotOpen DEF Owner
  <2>6. DiscardInv'
    BY <2>3 DEF DiscardInv, Discards
  <2> QED
    BY <1>2, <1>3, <1>4, <2>3, <2>4, <2>5, <2>6, DueStep
<1> QED
  BY <1>5, <1>6

(* The owner finds what was left for it.                                   *)
LEMMA CompleteWaiterActionsRest ==
  ASSUME Inv, Inv', RestInv, NEW t \in Threads, CompleteWaiterActions(t)
  PROVE  RestInv'
<1>1. ThreadTypeOK /\ ThreadTypeOK'
  BY StepTypes
<1>2. /\ pc[t] = "complete"
      /\ UNCHANGED <<nodes, bufferedMsgs, expiryData, session, stack, cb, fate>>
  BY DEF CompleteWaiterActions, msgVars
<1>3. pc[t] \notin MovePcs /\ pc[t] \notin FillPcs /\ pc[t] \notin DiscardPcs
  BY <1>2 DEF MovePcs, LockedPcs, WakePcs, FillPcs, DiscardPcs
<1>4. SessionQuiet
  BY <1>2, SameQuiet
<1>5. ~loc[t].deliver => Has(stack[t], WakePcs)
  BY <1>2 DEF RestInv, ControlInv, StackMeets, MayUnlock
<1>6. PICK a : loc' = [loc EXCEPT ![t].after = a]
  BY DEF CompleteWaiterActions
<1>7. loc'[t].deliver = loc[t].deliver /\ \A u \in Threads : u # t => loc'[u] = loc[u]
  BY <1>1, <1>6 DEF ThreadTypeOK, Locals
<1>8. PICK l \in {"reclaim", "waiterDisabledCB", "disabling", "disconnect"} : Goto(t, l)
  BY DEF CompleteWaiterActions
<1>9. Moved(t) /\ pc'[t] = l
  BY <1>1, <1>2, <1>7, <1>8, GotoMoved DEF LockedPcs
<1>10. StackMeets(t)'
  BY <1>2, <1>5, <1>7, <1>9 DEF StackMeets
<1>11. pc'[t] \notin PutPcs /\ pc'[t] \notin FillPcs /\ pc'[t] # "empty" /\ pc'[t] \in LockPcs
  BY <1>9 DEF PutPcs, FillPcs, LockPcs
<1>12. CASE waiterStatus = {RECLAIMSPACE_PEND}
  <2>1. Goto(t, "reclaim")
    BY <1>12 DEF CompleteWaiterActions
  <2>2. pc'[t] = "reclaim"
    BY <1>1, <2>1 DEF Goto, ThreadTypeOK
  <2>3. ~WaiterOpen'
    BY <1>11, OwnerNotOpen DEF Owner
  <2>4. DiscardInv'
    BY <2>2 DEF DiscardInv, Discards
  <2> QED
    BY <1>2, <1>3, <1>4, <1>9, <1>10, <1>11, <2>3, <2>4, DueStep
<1>13. CASE waiterStatus # {RECLAIMSPACE_PEND}
  <2>1. UNCHANGED waiterStatus
    BY <1>13 DEF CompleteWaiterActions
  <2>2. StatusQuiet(t)
    BY <2>1, SameQuiet
  <2> QED
    BY <1>2, <1>3, <1>4, <1>9, <1>10, <1>11, <2>2, PlainStep
<1> QED
  BY <1>12, <1>13

(* A discard that was asked for is served before the lock is given up.     *)
LEMMA ClearReclaimRest ==
  ASSUME Inv, Inv', RestInv, NEW t \in Threads, ClearReclaim(t)
  PROVE  RestInv'
<1>1. ThreadTypeOK /\ ThreadTypeOK'
  BY StepTypes
<1>2. /\ pc[t] \in {"disabling", "disconnecting"} /\ Goto(t, "reclaim")
      /\ loc' = [loc EXCEPT ![t].after = pc[t]]
      /\ UNCHANGED <<nodes, bufferedMsgs, expiryData, session, stack, cb, fate>>
  BY DEF ClearReclaim, msgVars
<1>3. pc[t] \notin MovePcs /\ pc[t] \notin FillPcs
  BY <1>2 DEF MovePcs, LockedPcs, WakePcs, FillPcs
<1>4. SessionQuiet
  BY <1>2, SameQuiet
<1>5. pc[t] = "disabling" /\ ~loc[t].deliver => Has(stack[t], WakePcs)
  BY <1>2 DEF RestInv, ControlInv, StackMeets, MayUnlock
<1>6. /\ loc'[t].deliver = loc[t].deliver /\ loc'[t].after = pc[t]
      /\ \A u \in Threads : u # t => loc'[u] = loc[u]
  BY <1>1, <1>2 DEF ThreadTypeOK, Locals
<1>7. Moved(t) /\ pc'[t] = "reclaim"
  BY <1>1, <1>2, <1>6, GotoMoved DEF LockedPcs
<1>8. StackMeets(t)'
  BY <1>2, <1>5, <1>6, <1>7 DEF StackMeets, MayUnlock
<1>9. pc'[t] \notin PutPcs /\ pc'[t] # "empty" /\ pc'[t] \in LockPcs
  BY <1>7 DEF PutPcs, LockPcs
<1>10. ~WaiterOpen'
  BY <1>9, OwnerNotOpen DEF Owner
<1>11. DiscardInv'
  BY <1>7 DEF DiscardInv, Discards
<1> QED
  BY <1>2, <1>3, <1>4, <1>7, <1>8, <1>9, <1>10, <1>11, DueStep

(* Messages are discarded until the target is met or none is there to take. *)
LEMMA ReclaimSpaceRest ==
  ASSUME Inv, Inv', RestInv, NEW t \in Threads, ReclaimSpace(t)
  PROVE  RestInv'
<1>1. ThreadTypeOK /\ ThreadTypeOK' /\ QueueTypeOK /\ MsgTypeOK /\ bufferedMsgs \in Int
  BY StepTypes
<1>2. pc[t] = "reclaim" /\ UNCHANGED <<waiterStatus, session, stack, cb, loc>>
  BY DEF ReclaimSpace
<1>3. /\ pc[t] \notin MovePcs /\ pc[t] \notin FillPcs /\ pc[t] # "sessMark" /\ pc[t] \notin PutPcs
  BY <1>2 DEF MovePcs, LockedPcs, WakePcs, FillPcs, PutPcs
<1>4. SessionQuiet
  BY <1>2, SameQuiet
<1>5. StackMeets(t) /\ loc[t].after \in {"unlock", "completeUnlock", "disabling", "disconnecting"}
  BY <1>2 DEF RestInv, ControlInv, Inv, LockInv, ThreadInv, LocalsMeet
<1>6. CASE /\ TakeHead /\ UNCHANGED pc
           /\ fate' = [fate EXCEPT ![Head(SkipRemoved(nodes)).msg] = "discarded"]
  <2>1. Goto(t, "reclaim") /\ "reclaim" \notin LockedPcs
    BY <1>1, <1>2, <1>6 DEF Goto, ThreadTypeOK, LockedPcs
  <2>2. Moved(t) /\ pc'[t] = "reclaim"
    BY <1>1, <1>2, <2>1, GotoMoved
  <2>3. StackMeets(t)'
    BY <1>2, <1>5, <2>2 DEF StackMeets, MayUnlock
  <2>4. ControlInv'
    BY <1>3, <1>4, <2>2, <2>3, PlainControl DEF RestInv
  <2>5. \A m \in Msgs : fate'[m] = "unsent" => fate[m] = "unsent"
    BY <1>1, <1>6 DEF MsgTypeOK
  <2>6. pc'[t] \notin PutPcs /\ pc'[t] # "empty" /\ pc'[t] \in LockPcs
    BY <2>2 DEF PutPcs, LockPcs
  <2>7. PutsStay
    BY <1>3, <2>2, <2>5, <2>6, StayAlone DEF Moved
  <2>8. NodeInv'
    BY <1>1, <1>6, <2>7, TakeHeadNodes DEF RestInv
  <2>9. ~WaiterOpen'
    BY <2>6, OwnerNotOpen DEF Owner
  <2>10. WakeInv' /\ DiscardInv'
    BY <2>2, <2>9 DEF WakeInv, DiscardInv, Discards
  <2> QED
    BY <2>4, <2>8, <2>10 DEF RestInv
<1>7. CASE /\ bufferedMsgs <= ReclaimTarget \/ ~HeadReady(SkipRemoved(nodes))
           /\ Goto(t, loc[t].after) /\ UNCHANGED <<nodes, bufferedMsgs, expiryData, fate>>
  <2> DEFINE l == loc[t].after
  <2>1. l \notin LockedPcs /\ l \notin PutPcs /\ l # "empty" /\ l \in LockPcs /\ l \notin FillPcs
    BY <1>5 DEF LockedPcs, PutPcs, LockPcs, FillPcs
  <2>2. Goto(t, l)
    BY <1>7
  <2> HIDE DEF l
  <2>3. Moved(t) /\ pc'[t] = l
    BY <1>1, <1>2, <2>1, <2>2, GotoMoved
  <2>4. StackMeets(t)'
    BY <1>2, <1>5, <2>3 DEF StackMeets, MayUnlock, l
  <2>5. ~WaiterOpen'
    BY <2>1, <2>3, OwnerNotOpen DEF Owner
  <2>6. DiscardInv'
    <3>1. SUFFICES ASSUME MaxMsgCount > 0, bufferedMsgs > MaxMsgCount
                   PROVE  \E u \in Threads : Discards(u)'
      BY <1>7 DEF DiscardInv
    <3>2. bufferedMsgs > 0 /\ ~(bufferedMsgs <= ReclaimTarget)
      BY <1>1, <3>1, TargetWithin, ConstantsAssumption
    <3>3. ~Ready
      BY <1>7, <3>2 DEF Ready
    <3>4. PICK u \in Threads : pc[u] \in FillPcs
      BY <1>1, <3>2, <3>3, CountedReady DEF RestInv
    <3>5. u # t
      BY <1>3, <3>4
    <3>6. Discards(u)'
      BY <2>3, <3>4, <3>5, OthersDiscard DEF Moved, Discards
    <3> QED
      BY <3>6
  <2> QED
    BY <1>3, <1>4, <1>7, <2>1, <2>3, <2>4, <2>5, <2>6, DueStep
<1> QED
  BY <1>6, <1>7 DEF ReclaimSpace

(* The messages past their expiry go.                                      *)
LEMMA ReapWorkRest ==
  ASSUME Inv, Inv', RestInv, NEW t \in Threads, ReapWork(t)
  PROVE  RestInv'
<1>1. /\ ThreadTypeOK /\ ThreadTypeOK' /\ QueueTypeOK /\ MsgTypeOK
      /\ bufferedMsgs \in Int /\ bufferedMsgs' \in Int
  BY StepTypes
<1>2. pc[t] = "reapWork" /\ UNCHANGED <<waiterStatus, session, stack, cb, loc>>
  BY DEF ReapWork
<1>3. /\ pc[t] \notin MovePcs /\ pc[t] \notin DiscardPcs /\ pc[t] # "sessMark" /\ pc[t] \notin PutPcs
  BY <1>2 DEF MovePcs, LockedPcs, WakePcs, DiscardPcs, FillPcs, PutPcs
<1>4. SessionQuiet /\ StatusQuiet(t)
  BY <1>2, SameQuiet
<1>5. \/ Goto(t, "crash") /\ UNCHANGED <<nodes, bufferedMsgs, expiryData, fate>>
      \/ /\ Goto(t, "unlock")
         /\ \E due : fate' = [m \in Msgs |-> IF \E i \in due : nodes[i].msg = m
                                              THEN "expired" ELSE fate[m]]
  BY DEF ReapWork
<1>6. CASE Goto(t, "crash") /\ UNCHANGED <<nodes, bufferedMsgs, expiryData, fate>>
  <2>1. "crash" \in QuietPcs
    BY DEF QuietPcs, LockPcs, LockedPcs, PutPcs
  <2>2. Quiet(t)
    BY <1>3, <1>4, <1>6 DEF Quiet
  <2> QED
    BY <1>2, <1>6, <2>1, <2>2, PlainGoto
<1>7. CASE /\ Goto(t, "unlock")
           /\ \E due : fate' = [m \in Msgs |-> IF \E i \in due : nodes[i].msg = m
                                                THEN "expired" ELSE fate[m]]
  <2>1. "unlock" \in QuietPcs /\ "unlock" \in LockPcs
    BY DEF QuietPcs, LockPcs, LockedPcs, PutPcs
  <2>2. Moved(t) /\ pc'[t] = "unlock"
    BY <1>1, <1>2, <1>7, GotoMoved DEF LockedPcs
  <2>3. StackMeets(t)' /\ pc'[t] \notin PutPcs /\ pc'[t] # "empty"
    BY <2>1, <2>2, QuietMeets
  <2>4. ControlInv'
    BY <1>3, <1>4, <2>2, <2>3, PlainControl DEF RestInv
  <2>5. \A m \in Msgs : fate'[m] = "unsent" => fate[m] = "unsent"
    BY <1>7
  <2>6. PutsStay
    BY <1>3, <2>2, <2>3, <2>5, StayAlone DEF Moved
  <2>7. NodeInv' /\ bufferedMsgs' <= bufferedMsgs
    BY <1>1, <2>2, <2>6, ReapNodes DEF RestInv
  <2>8. ~WaiterOpen'
    BY <2>1, <2>2, <2>3, OwnerNotOpen DEF Owner
  <2>9. WakeInv'
    BY <2>8 DEF WakeInv
  <2>10. DiscardInv'
    BY <1>1, <1>2, <1>3, <2>2, <2>7, PlainDiscard DEF RestInv
  <2> QED
    BY <2>4, <2>7, <2>9, <2>10 DEF RestInv
<1> QED
  BY <1>5, <1>6, <1>7

-----------------------------------------------------------------------------
(* The session *)

(* A thread with no callers under the session lock has none.               *)
LEMMA NoneSolo ==
  ASSUME NEW s, NEW P, ~Has(s, P)
  PROVE  Single(s, P)
BY DEF Has, Single

(* While the session lock is free nobody is in code that it protects ...   *)
LEMMA NobodyLocked ==
  ASSUME ControlInv, LockFree, NEW u \in Threads
  PROVE  ~InCall(u, LockedPcs) /\ ~Rest(u, LockedPcs) /\ ~InCall(u, {"startNext"})
         /\ ~Rest(u, {"startNext"})
<1>1. ~InCall(u, LockedPcs)
  BY ConstantsAssumption DEF ControlInv, HoldsSession, LockFree
<1>2. InCall(u, {"startNext"}) => InCall(u, LockedPcs)
  BY LockedAreReturns DEF InCall
<1> QED
  BY <1>1, <1>2, InCallRest

(* ... and while one thread is, no other thread is.                        *)
LEMMA OnlyMine ==
  ASSUME ControlInv, NEW t \in Threads, InCall(t, LockedPcs), NEW u \in Threads, u # t
  PROVE  ~InCall(u, LockedPcs)
BY DEF ControlInv, HoldsSession

(* A step under the session lock, or one that takes it.                    *)
LEMMA SessionControl ==
  ASSUME ControlInv, NEW t \in Threads, Alone(t),
         \A u \in Threads : u # t => ~InCall(u, LockedPcs),
         Solo(t)', InCall(t, LockedPcs)' => session'.lock = t, StackMeets(t)', Starting(t)'
  PROVE  ControlInv'
<1>1. HoldsSession(t)'
  BY HoldsPartsNext
<1>2. ASSUME NEW u \in Threads, u # t
      PROVE  HoldsSession(u)' /\ StackMeets(u)' /\ Starting(u)'
  <2>1. HoldsSession(u) /\ StackMeets(u) /\ Starting(u)
    BY DEF ControlInv
  <2>2. /\ Solo(u)' /\ StackMeets(u)'
        /\ \A P : (InCall(u, P)' <=> InCall(u, P)) /\ (Rest(u, P)' <=> Rest(u, P))
    BY <1>2, <2>1, OthersControl
  <2>3. InCall(u, {"startNext"}) => InCall(u, LockedPcs)
    BY LockedAreReturns DEF InCall
  <2>4. ~InCall(u, LockedPcs)' /\ ~InCall(u, {"startNext"})' /\ ~Rest(u, {"startNext"})'
    BY <1>2, <2>2, <2>3, InCallRest
  <2> QED
    BY <2>2, <2>4, HoldsPartsNext, StartingParts
<1> QED
  BY <1>1, <1>2 DEF ControlInv

(* A thread without callers under the lock goes on, ...                    *)
LEMMA LooseGoto ==
  ASSUME ThreadTypeOK, ThreadTypeOK', NEW t \in Threads, ~Rest(t, LockedPcs), NEW l, Goto(t, l),
         UNCHANGED <<stack, cb>>, \A u \in Threads : u # t => loc'[u] = loc[u]
  PROVE  /\ Alone(t) /\ pc'[t] = l /\ Solo(t)'
         /\ \A P : (Rest(t, P)' <=> Rest(t, P)) /\ (InCall(t, P)' <=> l \in P \/ Rest(t, P))
<1>1. Alone(t) /\ pc'[t] = l
  BY GotoAlone
<1>2. \A P : Rest(t, P)' <=> Rest(t, P)
  BY DEF Rest, Has, HasBelow
<1>3. \A P : InCall(t, P)' <=> pc'[t] \in P \/ Rest(t, P)'
  BY DEF InCall, Rest, Has, HasBelow
<1>4. ~Has(stack'[t], LockedPcs) /\ ~HasBelow(t, LockedPcs)'
  BY DEF Rest, Has, HasBelow
<1>5. Solo(t)'
  BY <1>4, NoneSolo DEF Solo, HasBelow
<1> QED
  BY <1>1, <1>2, <1>3, <1>5

(* ... or makes a call.                                                    *)
LEMMA LoosePush ==
  ASSUME ThreadTypeOK, ThreadTypeOK', NEW t \in Threads, ~Rest(t, LockedPcs), NEW l, Goto(t, l),
         NEW f \in Frame, f.pc \in LockedPcs => l \notin LockedPcs,
         stack' = [stack EXCEPT ![t] = <<f>> \o @],
         UNCHANGED cb, \A u \in Threads : u # t => loc'[u] = loc[u]
  PROVE  /\ Alone(t) /\ pc'[t] = l /\ Solo(t)'
         /\ \A P : /\ Rest(t, P)' <=> f.pc \in P \/ Rest(t, P)
                   /\ InCall(t, P)' <=> l \in P \/ f.pc \in P \/ Rest(t, P)
                   /\ f.pc \in P => Has(stack'[t], P)
<1>1. pc'[t] = l /\ stack'[t] = <<f>> \o stack[t] /\ stack[t] \in Seq(Frame)
  BY DEF Goto, ThreadTypeOK
<1>2. Alone(t)
  BY DEF Goto, Alone, ThreadTypeOK
<1>3. \A P : /\ Has(stack'[t], P) <=> f.pc \in P \/ Has(stack[t], P)
             /\ Single(stack[t], P) /\ (f.pc \in P => ~Has(stack[t], P)) => Single(stack'[t], P)
  BY <1>1, PushHas
<1>4. \A P : HasBelow(t, P)' <=> HasBelow(t, P)
  BY DEF HasBelow, Has
<1>5. \A P : InCall(t, P)' <=> pc'[t] \in P \/ Rest(t, P)'
  BY DEF InCall, Rest, Has, HasBelow
<1>6. ~Has(stack[t], LockedPcs) /\ ~HasBelow(t, LockedPcs)
  BY DEF Rest
<1>7. ~HasBelow(t, LockedPcs)'
  BY <1>4, <1>6
<1>8. Single(stack'[t], LockedPcs)
  BY <1>3, <1>6, NoneSolo
<1>9. pc'[t] \in LockedPcs => ~Has(stack'[t], LockedPcs)
  BY <1>1, <1>3, <1>6
<1>10. cb'[t] # NoCb => Single(cb'[t].stack, LockedPcs)
  BY <1>7, NoneSolo DEF HasBelow
<1>11. Solo(t)'
  BY <1>7, <1>8, <1>9, <1>10 DEF Solo
<1>12. \A P : Rest(t, P)' <=> f.pc \in P \/ Rest(t, P)
  BY <1>3, <1>4 DEF Rest
<1> QED
  BY <1>1, <1>2, <1>3, <1>5, <1>11, <1>12

(* The queue is not touched.                                               *)
LEMMA SessionStep ==
  ASSUME Inv, Inv', RestInv, NEW t \in Threads, Alone(t),
         \A P : Rest(t, P) => InCall(t, P)', pc[t] \notin DiscardPcs, pc'[t] \notin PutPcs,
         pc'[t] # "empty", UNCHANGED <<queueVars, msgVars>>, ControlInv',
         WaiterOpen /\ Ready => \E u \in Threads : Wakes(u)'
  PROVE  RestInv'
<1>1. UNCHANGED <<waiterStatus, nodes, bufferedMsgs, expiryData, fate>>
  BY DEF queueVars, msgVars
<1>2. pc'[t] \notin FillPcs /\ pc[t] \notin FillPcs
  BY DEF FillPcs, PutPcs, DiscardPcs
<1>3. NodeInv'
  BY <1>1, <1>2, InvTypes, NodesStill DEF RestInv
<1>4. Ready' <=> Ready
  BY <1>1 DEF Ready, HeadReady, SkipRemoved
<1>5. WaiterOpen' => WaiterOpen
  BY <1>1 DEF WaiterOpen, Alone
<1>6. WakeInv'
  BY <1>4, <1>5 DEF WakeInv
<1>7. Discards(t) => Discards(t)'
  BY InCallRest DEF Discards, DiscardPcs
<1>8. \A u \in Threads : Discards(u) => Discards(u)'
  BY <1>7, OthersDiscard
<1>9. DiscardInv'
  BY <1>1, <1>8 DEF RestInv, DiscardInv
<1> QED
  BY <1>3, <1>6, <1>9 DEF RestInv

(* Who looks at the queue anyway does so whatever becomes of the session.  *)
LEMMA KeepsLooking ==
  ASSUME NEW t \in Threads, Alone(t), \A P : Rest(t, P) => InCall(t, P)',
         pc[t] \notin WakePcs, pc[t] # "disable",
         NEW u \in Threads, InCall(u, WakePcs) \/ pc[u] = "disable"
  PROVE  Wakes(u)'
<1>1. CASE u = t
  <2>1. InCall(t, WakePcs)'
    BY <1>1, InCallRest
  <2> QED
    BY <1>1, <2>1 DEF Wakes
<1>2. CASE u # t
  BY <1>2 DEF Alone, Wakes, InCall
<1> QED
  BY <1>1, <1>2

(* A step after which the actor sees to every consumer that there is.      *)
LEMMA ActorSees ==
  ASSUME RestInv, NEW t \in Threads, Alone(t), \A P : Rest(t, P) => InCall(t, P)',
         pc[t] \notin WakePcs, pc[t] # "disable", session.list # << >> => Wakes(t)'
  PROVE  WaiterOpen /\ Ready => \E u \in Threads : Wakes(u)'
<1>1. SUFFICES ASSUME NEW u \in Threads, Wakes(u)
               PROVE  \E v \in Threads : Wakes(v)'
  BY DEF RestInv, WakeInv
<1>2. CASE session.list # << >>
  BY <1>2
<1>3. CASE session.list = << >>
  <2>1. InCall(u, WakePcs) \/ pc[u] = "disable"
    BY <1>1, <1>3 DEF Wakes
  <2> QED
    BY <2>1, KeepsLooking
<1> QED
  BY <1>2, <1>3

(* The session goes on delivering if it did.                               *)
SessionKeeps ==
  /\ session.list # << >> => session'.list # << >>
  /\ session'.destroyed = session.destroyed
  /\ session.started /\ ~session.stopping => session'.started /\ ~session'.stopping

(* Then a thread that does not move still sees to its consumers ...        *)
LEMMA OthersSee ==
  ASSUME NEW t \in Threads, Alone(t), SessionKeeps, NEW u \in Threads, u # t, Wakes(u)
  PROVE  Wakes(u)'
<1>1. pc'[u] = pc[u] /\ stack'[u] = stack[u] /\ cb'[u] = cb[u] /\ loc'[u] = loc[u]
  BY DEF Alone
<1>2. \A P : InCall(u, P)' <=> InCall(u, P)
  BY <1>1 DEF InCall
<1> QED
  BY <1>1, <1>2 DEF Wakes, SessionKeeps

(* ... and if the actor does so too, a wakeup is not lost,                 *)
LEMMA StillSeen ==
  ASSUME RestInv, NEW t \in Threads, Alone(t), SessionKeeps, Wakes(t) => Wakes(t)'
  PROVE  WaiterOpen /\ Ready => \E u \in Threads : Wakes(u)'
BY OthersSee DEF RestInv, WakeInv

(* ... as it does if it is at no point where something is expected.        *)
LEMMA OwnSee ==
  ASSUME NEW t \in Threads, \A P : Rest(t, P) => InCall(t, P)', SessionKeeps,
         pc[t] \notin MovePcs, Wakes(t)
  PROVE  Wakes(t)'
<1>1. \A P : InCall(t, P) /\ pc[t] \notin P => InCall(t, P)'
  BY InCallRest
<1>2. pc[t] \notin WakePcs /\ pc[t] \notin {"startNext"}
  BY DEF MovePcs, LockedPcs
<1> QED
  BY <1>1, <1>2 DEF Wakes, SessionKeeps, MovePcs, LockedPcs

(* The head of the list.                                                   *)
LEMMA FirstConsumer ==
  ASSUME SessionTypeOK
  PROVE  /\ session.list # << >> => NextConsumer(NoConsumer) # NoConsumer
         /\ \A c : NextConsumer(c) # NoConsumer => session.list # << >>
<1>1. session.list \in Seq(Consumers)
  BY DEF SessionTypeOK, SessionRecord
<1>2. Len(session.list) \in Nat /\ DOMAIN session.list = 1 .. Len(session.list)
  BY <1>1, LenProperties
<1>3. \A i \in DOMAIN session.list : session.list[i] \in Consumers
  BY <1>1, <1>2, ElementOfSeq
<1>4. \A i \in DOMAIN session.list : session.list[i] # NoConsumer
  BY <1>3, ConstantsAssumption
<1>5. {i \in DOMAIN session.list : session.list[i] = NoConsumer} = {}
  BY <1>4
<1>6. session.list # << >> => 1 \in DOMAIN session.list
  BY <1>1, <1>2, EmptySeq
<1>7. session.list # << >> => NextConsumer(NoConsumer) = session.list[1]
  BY <1>5, <1>6 DEF NextConsumer
<1>8. session.list = << >> => DOMAIN session.list = {}
  BY <1>2, LenProperties, EmptySeq
<1>9. \A c : DOMAIN session.list = {} => NextConsumer(c) = NoConsumer
  BY DEF NextConsumer
<1> QED
  BY <1>4, <1>6, <1>7, <1>8, <1>9

-----------------------------------------------------------------------------
(* The session operations, one by one *)

(* Points of the session operations.                                       *)
LEMMA SessionPcs ==
  /\ LockedPcs \cap DiscardPcs = {} /\ LockedPcs \cap PutPcs = {} /\ "empty" \notin LockedPcs
  /\ \A l \in {"idle", "startDeliver", "createLink", "stopDisable", "sessMark", "sessNack",
               "sessNext", "acquire", "disable", "stopDone", "createDone", "check"} :
       l \notin DiscardPcs /\ l \notin PutPcs /\ l # "empty" /\ l \notin LockedPcs
  /\ {"startNext", "stopNext"} \cap WakePcs = {}
  /\ {"startNext", "stopNext", "resumeCheck", "createUnlock"} = LockedPcs
  /\ {"resumeCheck", "createUnlock"} \subseteq WakePcs
BY DEF LockedPcs, DiscardPcs, FillPcs, PutPcs, WakePcs

(* Delivery starts, under the session lock.                                *)
LEMMA StartMessageDeliveryRest ==
  ASSUME Inv, Inv', RestInv, NEW t \in Threads, StartMessageDelivery(t)
  PROVE  RestInv'
<1>1. ThreadTypeOK /\ ThreadTypeOK' /\ session \in SessionRecord
  BY StepTypes
<1>2. /\ pc[t] = "idle" /\ Goto(t, "startNext") /\ UNCHANGED <<queueVars, msgVars, stack, cb, loc>>
      /\ LockFree /\ ~session.destroyed /\ ~session.stopping
  BY DEF StartMessageDelivery, Begin
<1>3. /\ session'.lock = t /\ session'.started /\ ~session'.stopping /\ ~session'.destroyed
      /\ session'.list = session.list /\ session'.destroyed = session.destroyed
  BY <1>1, <1>2 DEF StartMessageDelivery, SessionRecord
<1>4. \A u \in Threads : ~InCall(u, LockedPcs) /\ ~Rest(u, LockedPcs) /\ ~Rest(u, {"startNext"})
  BY <1>2, NobodyLocked DEF RestInv
<1>5. /\ Alone(t) /\ pc'[t] = "startNext" /\ Solo(t)'
      /\ \A P : (Rest(t, P)' <=> Rest(t, P))
                  /\ (InCall(t, P)' <=> "startNext" \in P \/ Rest(t, P))
  BY <1>1, <1>2, <1>4, LooseGoto
<1>6. StackMeets(t)' /\ pc'[t] \notin PutPcs /\ pc'[t] # "empty"
  BY <1>5 DEF StackMeets, MayUnlock, PutPcs
<1>7. Starting(t)'
  BY <1>3, <1>4, <1>5, StartingParts
<1>8. ControlInv'
  BY <1>3, <1>4, <1>5, <1>6, <1>7, SessionControl DEF RestInv
<1>9. pc[t] \notin MovePcs /\ pc[t] \notin DiscardPcs
  BY <1>2 DEF MovePcs, LockedPcs, WakePcs, DiscardPcs, FillPcs
<1>10. SessionKeeps
  BY <1>2, <1>3 DEF SessionKeeps
<1>11. WaiterOpen /\ Ready => \E u \in Threads : Wakes(u)'
  BY <1>5, <1>9, <1>10, OwnSee, StillSeen
<1> QED
  BY <1>2, <1>5, <1>6, <1>8, <1>9, <1>11, SessionStep

(* The next consumer is enabled, or the lock is given up to deliver.       *)
LEMMA StartNextRest ==
  ASSUME Inv, Inv', RestInv, NEW t \in Threads, StartNext(t)
  PROVE  RestInv'
<1>1. ThreadTypeOK /\ ThreadTypeOK' /\ session \in SessionRecord
  BY StepTypes
<1>2. pc[t] = "startNext" /\ UNCHANGED <<queueVars, msgVars, cb>>
  BY DEF StartNext
<1>3. InCall(t, LockedPcs) /\ InCall(t, {"startNext"})
  BY <1>2, LockedAreReturns DEF InCall
<1>4. \A u \in Threads : u # t => ~InCall(u, LockedPcs)
  BY <1>3, OnlyMine DEF RestInv
<1>5. HoldsSession(t) /\ Starting(t)
  BY DEF RestInv, ControlInv
<1>6. session.lock = t /\ ~Rest(t, LockedPcs)
  BY <1>2, <1>3, <1>5, LockedAreReturns DEF HoldsSession, Rest
<1>7. /\ session.started /\ ~session.stopping
      /\ session.destroyed => \E u \in Threads : pc[u] = "sessMark"
  BY <1>3, <1>5, StartingParts
<1>8. ~Rest(t, {"startNext"})
  BY <1>6, LockedAreReturns DEF Rest, Has, HasBelow
<1>9. pc[t] \notin DiscardPcs
  BY <1>2, LockedAreReturns, SessionPcs
<1> DEFINE c == NextConsumer(loc[t].con)
<1>10. c \in Consumers \cup {NoConsumer} /\ (c # NoConsumer => session.list # << >>)
  BY NextConsumerType, FirstConsumer DEF Inv, TypeOK
<1>11. CASE c # NoConsumer
  <2> DEFINE f == [FrameAt(t, "startNext") EXCEPT !.con = c]
  <2>1. /\ loc' = [loc EXCEPT ![t].con = c] /\ stack' = [stack EXCEPT ![t] = <<f>> \o @]
        /\ Goto(t, "acquire") /\ UNCHANGED session
    BY <1>11 DEF StartNext
  <2> HIDE DEF c
  <2>2. f \in Frame /\ f.pc = "startNext"
    BY <1>10 DEF FrameAt, Frame, ReturnPcs
  <2> HIDE DEF f
  <2>3. \A u \in Threads : u # t => loc'[u] = loc[u]
    BY <1>1, <2>1 DEF ThreadTypeOK
  <2>4. /\ Alone(t) /\ pc'[t] = "acquire" /\ Solo(t)'
        /\ \A P : /\ Rest(t, P)' <=> f.pc \in P \/ Rest(t, P)
                  /\ InCall(t, P)' <=> "acquire" \in P \/ f.pc \in P \/ Rest(t, P)
                  /\ f.pc \in P => Has(stack'[t], P)
    BY <1>1, <1>2, <1>6, <2>1, <2>2, <2>3, LoosePush, SessionPcs
  <2>5. Has(stack'[t], WakePcs \cup {"startNext"})
    BY <2>2, <2>4
  <2>6. StackMeets(t)' /\ pc'[t] \notin PutPcs /\ pc'[t] # "empty"
    BY <2>4, <2>5 DEF StackMeets, MayUnlock, PutPcs
  <2>7. session'.destroyed => \E u \in Threads : pc'[u] = "sessMark"
    BY <1>2, <1>7, <2>1, <2>4 DEF Alone
  <2>8. Starting(t)'
    BY <1>7, <1>10, <1>11, <2>1, <2>7, StartingParts
  <2>9. ControlInv'
    BY <1>4, <1>6, <2>1, <2>4, <2>6, <2>8, SessionControl DEF RestInv
  <2>10. SessionKeeps
    BY <2>1 DEF SessionKeeps
  <2>11. Wakes(t) => Wakes(t)'
    <3>1. InCall(t, {"startNext"})'
      BY <2>2, <2>4
    <3>2. InCall(t, WakePcs) => InCall(t, WakePcs)'
      BY <1>2, <2>4, InCallRest, SessionPcs
    <3> QED
      BY <1>2, <2>1, <3>1, <3>2 DEF Wakes
  <2>12. WaiterOpen /\ Ready => \E u \in Threads : Wakes(u)'
    BY <2>4, <2>10, <2>11, StillSeen
  <2> QED
    BY <1>2, <1>9, <2>4, <2>6, <2>9, <2>12, SessionStep
<1>12. CASE c = NoConsumer
  <2>1. /\ session' = [session EXCEPT !.lock = NoThread] /\ loc' = [loc EXCEPT ![t].con = NoConsumer]
        /\ Goto(t, "startDeliver") /\ UNCHANGED stack
    BY <1>12 DEF StartNext
  <2>2. loc'[t].con = NoConsumer /\ \A u \in Threads : u # t => loc'[u] = loc[u]
    BY <1>1, <2>1 DEF ThreadTypeOK, Locals
  <2>3. /\ session'.list = session.list /\ session'.started = session.started
        /\ session'.stopping = session.stopping /\ session'.destroyed = session.destroyed
    BY <1>1, <2>1 DEF SessionRecord
  <2>4. /\ Alone(t) /\ pc'[t] = "startDeliver" /\ Solo(t)'
        /\ \A P : (Rest(t, P)' <=> Rest(t, P))
                    /\ (InCall(t, P)' <=> "startDeliver" \in P \/ Rest(t, P))
    BY <1>1, <1>2, <1>6, <2>1, <2>2, LooseGoto
  <2>5. StackMeets(t)' /\ pc'[t] \notin PutPcs /\ pc'[t] # "empty"
    BY <2>4 DEF StackMeets, MayUnlock, PutPcs
  <2>6. ~InCall(t, LockedPcs)' /\ ~InCall(t, {"startNext"})' /\ ~Rest(t, {"startNext"})'
    BY <1>6, <1>8, <2>4, SessionPcs
  <2>7. Starting(t)'
    BY <2>6, StartingParts
  <2>8. ControlInv'
    BY <1>4, <2>4, <2>5, <2>6, <2>7, SessionControl DEF RestInv
  <2>9. SessionKeeps
    BY <2>3 DEF SessionKeeps
  <2>10. Wakes(t) => Wakes(t)'
    <3>1. InCall(t, WakePcs) => InCall(t, WakePcs)'
      BY <1>2, <2>4, InCallRest, SessionPcs
    <3> QED
      BY <1>2, <1>7, <2>2, <2>3, <2>4, <3>1 DEF Wakes
  <2>11. WaiterOpen /\ Ready => \E u \in Threads : Wakes(u)'
    BY <2>4, <2>9, <2>10, StillSeen
  <2> QED
    BY <1>2, <1>9, <2>4, <2>5, <2>8, <2>11, SessionStep
<1> QED
  BY <1>11, <1>12

(* With a reference to the next consumer, look at its queue.               *)
LEMMA StartDeliverRest ==
  ASSUME Inv, Inv', RestInv, NEW t \in Threads, StartDeliver(t)
  PROVE  RestInv'
<1>1. ThreadTypeOK /\ ThreadTypeOK' /\ SessionTypeOK
  BY StepTypes DEF SessionTypeOK
<1>2. /\ pc[t] = "startDeliver"
      /\ UNCHANGED <<nodes, bufferedMsgs, expiryData, waiterStatus, session, cb, fate>>
  BY DEF StartDeliver, queueVars, msgVars
<1>3. pc[t] # "sessMark" /\ pc[t] \notin DiscardPcs
  BY <1>2, SessionPcs
<1>4. SessionQuiet
  BY <1>2, SameQuiet
<1> DEFINE c == NextConsumer(loc[t].con)
<1>5. CASE session.destroyed \/ session.stopping \/ ~session.started \/ c = NoConsumer
  <2>1. Return(t)
    BY <1>5 DEF StartDeliver
  <2>2. Moved(t) /\ StackMeets(t)' /\ pc'[t] \notin PutPcs
    BY <1>1, <1>2, <2>1, ReturnMoved, ReturnMeets
  <2>3. ~(/\ session.list # << >> /\ loc[t].con = NoConsumer
          /\ session.started /\ ~session.stopping /\ ~session.destroyed)
    BY <1>1, <1>5, FirstConsumer
  <2>4. Wakes(t) => Wakes(t)'
    <3>1. \A P : InCall(t, P) /\ pc[t] \notin P => InCall(t, P)'
      BY <2>2, InCallRest DEF Moved
    <3>2. pc[t] \notin WakePcs /\ pc[t] \notin {"startNext"}
      BY <1>2 DEF WakePcs
    <3> QED
      BY <1>2, <2>3, <3>1, <3>2 DEF Wakes
  <2>5. SessionKeeps
    BY <1>2 DEF SessionKeeps
  <2>6. WaiterOpen /\ Ready => \E u \in Threads : Wakes(u)'
    BY <2>2, <2>4, <2>5, StillSeen DEF Moved
  <2>7. WaiterOpen' => WaiterOpen
    BY <1>2, <2>1, <2>2, <1>1, SameQuiet, OpenKept, ReturnMeets DEF Moved
  <2> QED
    BY <1>2, <1>3, <1>4, <2>2, <2>6, <2>7, LookStep
<1>6. CASE ~(session.destroyed \/ session.stopping \/ ~session.started \/ c = NoConsumer)
  <2> DEFINE f == [FrameAt(t, "startRelease") EXCEPT !.con = c]
  <2>1. /\ loc' = [loc EXCEPT ![t].con = c] /\ stack' = [stack EXCEPT ![t] = <<f>> \o @]
        /\ Goto(t, "check")
    BY <1>6 DEF StartDeliver
  <2>2. c \in Consumers \cup {NoConsumer}
    BY <1>1, NextConsumerType
  <2> HIDE DEF c
  <2>3. f \in Frame /\ f.pc \notin LockedPcs
    BY <2>2 DEF FrameAt, Frame, ReturnPcs, LockedPcs
  <2> HIDE DEF f
  <2>4. \A u \in Threads : u # t => loc'[u] = loc[u]
    BY <1>1, <2>1 DEF ThreadTypeOK
  <2>5. Moved(t) /\ pc'[t] = "check"
    BY <1>1, <1>2, <2>1, <2>3, <2>4, PushMoved, LookPcs
  <2>6. StackMeets(t)' /\ pc'[t] \notin PutPcs
    BY <2>5, QuietMeets, LookPcs
  <2>7. \E u \in Threads : Wakes(u)'
    BY <2>5, LookPcs DEF Wakes, InCall
  <2> QED
    BY <1>2, <1>3, <1>4, <2>5, <2>6, <2>7, LookStep
<1> QED
  BY <1>5, <1>6

(* A paused consumer goes on.                                              *)
LEMMA ResumeMessageDeliveryRest ==
  ASSUME Inv, Inv', RestInv, NEW t \in Threads, NEW c \in Consumers, ResumeMessageDelivery(t, c)
  PROVE  RestInv'
<1>1. ThreadTypeOK /\ ThreadTypeOK' /\ session \in SessionRecord
  BY StepTypes
<1> DEFINE f == [FrameAt(t, "resumeCheck") EXCEPT !.con = c]
<1>2. /\ pc[t] = "idle" /\ Goto(t, "acquire") /\ UNCHANGED <<queueVars, msgVars, cb>>
      /\ stack' = [stack EXCEPT ![t] = <<f>> \o @] /\ loc' = [loc EXCEPT ![t].con = c]
      /\ LockFree /\ session' = [session EXCEPT !.lock = t]
  BY DEF ResumeMessageDelivery, Begin
<1>3. f \in Frame /\ f.pc = "resumeCheck"
  BY <1>1 DEF FrameAt, Frame, ReturnPcs
<1> HIDE DEF f
<1>4. session'.lock = t /\ \A u \in Threads : u # t => loc'[u] = loc[u]
  BY <1>1, <1>2 DEF SessionRecord, ThreadTypeOK
<1>5. \A u \in Threads : ~InCall(u, LockedPcs) /\ ~Rest(u, LockedPcs) /\ ~Rest(u, {"startNext"})
  BY <1>2, NobodyLocked DEF RestInv
<1>6. /\ Alone(t) /\ pc'[t] = "acquire" /\ Solo(t)'
      /\ \A P : /\ Rest(t, P)' <=> f.pc \in P \/ Rest(t, P)
                /\ InCall(t, P)' <=> "acquire" \in P \/ f.pc \in P \/ Rest(t, P)
                /\ f.pc \in P => Has(stack'[t], P)
  BY <1>1, <1>2, <1>3, <1>4, <1>5, LoosePush, SessionPcs
<1>7. Has(stack'[t], WakePcs \cup {"startNext"}) /\ InCall(t, WakePcs)'
  BY <1>3, <1>6, SessionPcs
<1>8. StackMeets(t)' /\ pc'[t] \notin PutPcs /\ pc'[t] # "empty"
  BY <1>6, <1>7 DEF StackMeets, MayUnlock, PutPcs
<1>9. ~InCall(t, {"startNext"})' /\ ~Rest(t, {"startNext"})'
  BY <1>3, <1>5, <1>6
<1>10. Starting(t)'
  BY <1>9, StartingParts
<1>11. ControlInv'
  BY <1>4, <1>5, <1>6, <1>8, <1>10, SessionControl DEF RestInv
<1>12. \E u \in Threads : Wakes(u)'
  BY <1>7, ComesToLook
<1>13. pc[t] \notin DiscardPcs
  BY <1>2, SessionPcs
<1> QED
  BY <1>2, <1>6, <1>8, <1>11, <1>12, <1>13, SessionStep

(* The session lock is given up to look at the queue.                      *)
LEMMA UnlockToLook ==
  ASSUME Inv, Inv', RestInv, NEW t \in Threads, pc[t] \in {"resumeCheck", "createUnlock"},
         session' = [session EXCEPT !.lock = NoThread], Goto(t, "check"),
         NEW f \in Frame, f.pc \notin LockedPcs, stack' = [stack EXCEPT ![t] = <<f>> \o @],
         UNCHANGED <<queueVars, msgVars, cb, loc>>
  PROVE  RestInv'
<1>1. ThreadTypeOK /\ ThreadTypeOK'
  BY StepTypes
<1>2. pc[t] \in LockedPcs /\ pc[t] \notin DiscardPcs
  BY SessionPcs
<1>3. InCall(t, LockedPcs)
  BY <1>2 DEF InCall
<1>4. \A u \in Threads : u # t => ~InCall(u, LockedPcs)
  BY <1>3, OnlyMine DEF RestInv
<1>5. ~Rest(t, LockedPcs)
  BY <1>2 DEF RestInv, ControlInv, HoldsSession, Rest
<1>6. /\ Alone(t) /\ pc'[t] = "check" /\ Solo(t)'
      /\ \A P : /\ Rest(t, P)' <=> f.pc \in P \/ Rest(t, P)
                /\ InCall(t, P)' <=> "check" \in P \/ f.pc \in P \/ Rest(t, P)
                /\ f.pc \in P => Has(stack'[t], P)
  BY <1>1, <1>5, LoosePush
<1>7. StackMeets(t)' /\ pc'[t] \notin PutPcs /\ pc'[t] # "empty"
  BY <1>6, QuietMeets, LookPcs
<1>8. ~InCall(t, LockedPcs)'
  BY <1>5, <1>6, LookPcs
<1>9. ~InCall(t, {"startNext"})' /\ ~Rest(t, {"startNext"})'
  BY <1>8, LockedAreReturns DEF InCall, Rest, Has, HasBelow
<1>10. Starting(t)'
  BY <1>9, StartingParts
<1>11. ControlInv'
  BY <1>4, <1>6, <1>7, <1>8, <1>10, SessionControl DEF RestInv
<1>12. \E u \in Threads : Wakes(u)'
  BY <1>6, LookPcs DEF Wakes
<1> QED
  BY <1>2, <1>6, <1>7, <1>11, <1>12, SessionStep

(* The end of a resume ...                                                 *)
LEMMA ResumeCheckRest ==
  ASSUME Inv, Inv', RestInv, NEW t \in Threads, ResumeCheck(t)
  PROVE  RestInv'
<1> DEFINE f == FrameAt(t, "release")
<1>1. f \in Frame /\ f.pc \notin LockedPcs
  BY StepTypes, FrameAtType DEF FrameAt, ReturnPcs, LockedPcs
<1>2. /\ pc[t] = "resumeCheck" /\ session' = [session EXCEPT !.lock = NoThread]
      /\ Goto(t, "check") /\ stack' = [stack EXCEPT ![t] = <<f>> \o @]
      /\ UNCHANGED <<queueVars, msgVars, cb, loc>>
  BY DEF ResumeCheck, Call, Push
<1> HIDE DEF f
<1> QED
  BY <1>1, <1>2, UnlockToLook

(* ... and of the creation of a consumer.                                  *)
LEMMA CreateUnlockRest ==
  ASSUME Inv, Inv', RestInv, NEW t \in Threads, CreateUnlock(t)
  PROVE  RestInv'
<1> DEFINE f == FrameAt(t, "createDone")
<1>1. f \in Frame /\ f.pc \notin LockedPcs
  BY StepTypes, FrameAtType DEF FrameAt, ReturnPcs, LockedPcs
<1>2. /\ pc[t] = "createUnlock" /\ session' = [session EXCEPT !.lock = NoThread]
      /\ Goto(t, "check") /\ stack' = [stack EXCEPT ![t] = <<f>> \o @]
      /\ UNCHANGED <<queueVars, msgVars, cb, loc>>
  BY DEF CreateUnlock, Call, Push
<1> HIDE DEF f
<1> QED
  BY <1>1, <1>2, UnlockToLook

(* Delivery is to stop: who stops it visits all consumers.                 *)
LEMMA StopMessageDeliveryRest ==
  ASSUME Inv, Inv', RestInv, NEW t \in Threads, StopMessageDelivery(t)
  PROVE  RestInv'
<1>1. ThreadTypeOK /\ ThreadTypeOK' /\ session \in SessionRecord
  BY StepTypes
<1>2. /\ pc[t] = "idle" /\ Goto(t, "stopDisable") /\ LockFree
      /\ UNCHANGED <<queueVars, msgVars, stack, cb, loc>>
      /\ session' = [session EXCEPT !.started = FALSE, !.stopping = TRUE]
  BY DEF StopMessageDelivery, Begin
<1>3. session'.list = session.list
  BY <1>1, <1>2 DEF SessionRecord
<1>4. \A u \in Threads : ~InCall(u, LockedPcs) /\ ~Rest(u, LockedPcs) /\ ~Rest(u, {"startNext"})
  BY <1>2, NobodyLocked DEF RestInv
<1>5. /\ Alone(t) /\ pc'[t] = "stopDisable" /\ Solo(t)'
      /\ \A P : (Rest(t, P)' <=> Rest(t, P))
                  /\ (InCall(t, P)' <=> "stopDisable" \in P \/ Rest(t, P))
  BY <1>1, <1>2, <1>4, LooseGoto
<1>6. loc[t].con = NoConsumer
  BY <1>2 DEF RestInv, ControlInv, StackMeets
<1>7. StackMeets(t)' /\ pc'[t] \notin PutPcs /\ pc'[t] # "empty"
  BY <1>2, <1>5, <1>6 DEF StackMeets, MayUnlock, PutPcs
<1>8. ~InCall(t, LockedPcs)' /\ ~InCall(t, {"startNext"})' /\ ~Rest(t, {"startNext"})'
  BY <1>4, <1>5, SessionPcs
<1>9. Starting(t)'
  BY <1>8, StartingParts
<1>10. ControlInv'
  BY <1>4, <1>5, <1>7, <1>8, <1>9, SessionControl DEF RestInv
<1>11. pc[t] \notin DiscardPcs /\ pc[t] \notin WakePcs /\ pc[t] # "disable"
  BY <1>2, SessionPcs DEF WakePcs
<1>12. session.list # << >> => Wakes(t)'
  BY <1>3, <1>5 DEF Wakes
<1>13. WaiterOpen /\ Ready => \E u \in Threads : Wakes(u)'
  BY <1>5, <1>11, <1>12, ActorSees
<1> QED
  BY <1>2, <1>5, <1>7, <1>10, <1>11, <1>13, SessionStep

(* Who stops delivery takes the session lock.                              *)
LEMMA StopDisableRest ==
  ASSUME Inv, Inv', RestInv, NEW t \in Threads, StopDisable(t)
  PROVE  RestInv'
<1>1. ThreadTypeOK /\ ThreadTypeOK' /\ session \in SessionRecord
  BY StepTypes
<1>2. /\ pc[t] = "stopDisable" /\ Goto(t, "stopNext") /\ LockFree
      /\ UNCHANGED <<queueVars, msgVars, stack, cb, loc>>
      /\ session' = [session EXCEPT !.lock = t]
  BY DEF StopDisable
<1>3. session'.list = session.list /\ session'.lock = t
  BY <1>1, <1>2 DEF SessionRecord
<1>4. \A u \in Threads : ~InCall(u, LockedPcs) /\ ~Rest(u, LockedPcs) /\ ~Rest(u, {"startNext"})
  BY <1>2, NobodyLocked DEF RestInv
<1>5. /\ Alone(t) /\ pc'[t] = "stopNext" /\ Solo(t)'
      /\ \A P : (Rest(t, P)' <=> Rest(t, P))
                  /\ (InCall(t, P)' <=> "stopNext" \in P \/ Rest(t, P))
  BY <1>1, <1>2, <1>4, LooseGoto
<1>6. loc[t].con = NoConsumer
  BY <1>2 DEF RestInv, ControlInv, StackMeets
<1>7. StackMeets(t)' /\ pc'[t] \notin PutPcs /\ pc'[t] # "empty"
  BY <1>5 DEF StackMeets, MayUnlock, PutPcs
<1>8. ~InCall(t, {"startNext"})' /\ ~Rest(t, {"startNext"})'
  BY <1>4, <1>5
<1>9. Starting(t)'
  BY <1>8, StartingParts
<1>10. ControlInv'
  BY <1>3, <1>4, <1>5, <1>7, <1>9, SessionControl DEF RestInv
<1>11. pc[t] \notin DiscardPcs /\ pc[t] \notin WakePcs /\ pc[t] # "disable"
  BY <1>2, SessionPcs DEF WakePcs
<1>12. session.list # << >> => Wakes(t)'
  BY <1>2, <1>3, <1>5, <1>6 DEF Wakes
<1>13. WaiterOpen /\ Ready => \E u \in Threads : Wakes(u)'
  BY <1>5, <1>11, <1>12, ActorSees
<1> QED
  BY <1>2, <1>5, <1>7, <1>10, <1>11, <1>13, SessionStep

(* The next consumer is disabled, or the lock is given up.                 *)
LEMMA StopNextRest ==
  ASSUME Inv, Inv', RestInv, NEW t \in Threads, StopNext(t)
  PROVE  RestInv'
<1>1. ThreadTypeOK /\ ThreadTypeOK' /\ session \in SessionRecord /\ SessionTypeOK
  BY StepTypes DEF SessionTypeOK
<1>2. pc[t] = "stopNext" /\ UNCHANGED <<queueVars, msgVars, cb>>
  BY DEF StopNext
<1>3. InCall(t, LockedPcs) /\ pc[t] \in LockedPcs
  BY <1>2, SessionPcs DEF InCall
<1>4. \A u \in Threads : u # t => ~InCall(u, LockedPcs)
  BY <1>3, OnlyMine DEF RestInv
<1>5. session.lock = t /\ ~Rest(t, LockedPcs)
  BY <1>3 DEF RestInv, ControlInv, HoldsSession, Rest
<1>6. ~Rest(t, {"startNext"})
  BY <1>5, LockedAreReturns DEF Rest, Has, HasBelow
<1>7. pc[t] \notin DiscardPcs
  BY <1>3, SessionPcs
<1> DEFINE c == NextConsumer(loc[t].con)
<1>8. CASE c # NoConsumer
  <2> DEFINE f == [FrameAt(t, "stopNext") EXCEPT !.con = c]
  <2>1. /\ loc' = [loc EXCEPT ![t].con = c] /\ stack' = [stack EXCEPT ![t] = <<f>> \o @]
        /\ Goto(t, "disable") /\ UNCHANGED session
    BY <1>8 DEF StopNext
  <2>2. c \in Consumers \cup {NoConsumer}
    BY <1>1, NextConsumerType
  <2> HIDE DEF c
  <2>3. f \in Frame /\ f.pc = "stopNext"
    BY <2>2 DEF FrameAt, Frame, ReturnPcs
  <2> HIDE DEF f
  <2>4. \A u \in Threads : u # t => loc'[u] = loc[u]
    BY <1>1, <2>1 DEF ThreadTypeOK
  <2>5. /\ Alone(t) /\ pc'[t] = "disable" /\ Solo(t)'
        /\ \A P : /\ Rest(t, P)' <=> f.pc \in P \/ Rest(t, P)
                  /\ InCall(t, P)' <=> "disable" \in P \/ f.pc \in P \/ Rest(t, P)
                  /\ f.pc \in P => Has(stack'[t], P)
    BY <1>1, <1>2, <1>5, <2>1, <2>3, <2>4, LoosePush, SessionPcs
  <2>6. StackMeets(t)' /\ pc'[t] \notin PutPcs /\ pc'[t] # "empty"
    BY <2>5 DEF StackMeets, MayUnlock, PutPcs
  <2>7. ~InCall(t, {"startNext"})' /\ ~Rest(t, {"startNext"})'
    BY <1>6, <2>3, <2>5
  <2>8. Starting(t)'
    BY <2>7, StartingParts
  <2>9. ControlInv'
    BY <1>4, <1>5, <2>1, <2>5, <2>6, <2>8, SessionControl DEF RestInv
  <2>10. \E u \in Threads : Wakes(u)'
    BY <2>5 DEF Wakes
  <2> QED
    BY <1>2, <1>7, <2>5, <2>6, <2>9, <2>10, SessionStep
<1>9. CASE c = NoConsumer
  <2>1. /\ session' = [session EXCEPT !.lock = NoThread]
        /\ Goto(t, "stopDone") /\ UNCHANGED <<stack, loc>>
    BY <1>9 DEF StopNext
  <2>2. /\ session'.list = session.list /\ session'.started = session.started
        /\ session'.stopping = session.stopping /\ session'.destroyed = session.destroyed
    BY <1>1, <2>1 DEF SessionRecord
  <2>3. /\ Alone(t) /\ pc'[t] = "stopDone" /\ Solo(t)'
        /\ \A P : (Rest(t, P)' <=> Rest(t, P))
                    /\ (InCall(t, P)' <=> "stopDone" \in P \/ Rest(t, P))
    BY <1>1, <1>2, <1>5, <2>1, LooseGoto
  <2>4. StackMeets(t)' /\ pc'[t] \notin PutPcs /\ pc'[t] # "empty"
    BY <2>3 DEF StackMeets, MayUnlock, PutPcs
  <2>5. ~InCall(t, LockedPcs)' /\ ~InCall(t, {"startNext"})' /\ ~Rest(t, {"startNext"})'
    BY <1>5, <1>6, <2>3, SessionPcs
  <2>6. Starting(t)'
    BY <2>5, StartingParts
  <2>7. ControlInv'
    BY <1>4, <2>3, <2>4, <2>5, <2>6, SessionControl DEF RestInv
  <2>8. SessionKeeps
    BY <2>2 DEF SessionKeeps
  <2>9. ~(session.list # << >> /\ loc[t].con = NoConsumer)
    BY <1>1, <1>9, FirstConsumer
  <2>10. Wakes(t) => Wakes(t)'
    <3>1. InCall(t, WakePcs) => InCall(t, WakePcs)'
      BY <1>2, <2>3, InCallRest, SessionPcs
    <3>2. ~InCall(t, {"startNext"})
      BY <1>2, <1>6, InCallRest
    <3> QED
      BY <1>2, <2>9, <3>1, <3>2 DEF Wakes
  <2>11. WaiterOpen /\ Ready => \E u \in Threads : Wakes(u)'
    BY <2>3, <2>8, <2>10, StillSeen
  <2> QED
    BY <1>2, <1>7, <2>3, <2>4, <2>7, <2>11, SessionStep
<1> QED
  BY <1>8, <1>9

(* A consumer joins the session.                                           *)
LEMMA CreateLinkRest ==
  ASSUME Inv, Inv', RestInv, NEW t \in Threads, NEW paused \in BOOLEAN, CreateLink(t, paused)
  PROVE  RestInv'
<1>1. ThreadTypeOK /\ ThreadTypeOK' /\ session \in SessionRecord
  BY StepTypes
<1>2. pc[t] = "createLink" /\ LockFree /\ UNCHANGED <<queueVars, msgVars, cb>>
  BY DEF CreateLink
<1>3. \A u \in Threads : ~InCall(u, LockedPcs) /\ ~Rest(u, LockedPcs) /\ ~Rest(u, {"startNext"})
  BY <1>2, NobodyLocked DEF RestInv
<1>4. pc[t] \notin DiscardPcs /\ pc[t] \notin MovePcs
  BY <1>2 DEF MovePcs, LockedPcs, WakePcs, DiscardPcs, FillPcs
<1>5. CASE session.destroyed
  <2>1. Return(t) /\ UNCHANGED session
    BY <1>5 DEF CreateLink
  <2>2. UNCHANGED <<nodes, bufferedMsgs, expiryData, waiterStatus, fate>>
    BY <1>2 DEF queueVars, msgVars
  <2>3. Quiet(t)
    BY <1>4, <2>1, <2>2, SameQuiet DEF Quiet
  <2> QED
    BY <1>2, <2>1, <2>3, PlainReturn
<1>6. CASE ~session.destroyed
  <2> DEFINE s == [session EXCEPT !.list = <<loc[t].con>> \o @, !.useCount = @ + 1,
                                  !.preNackAll = @ + 1]
  <2>1. /\ s.list = <<loc[t].con>> \o session.list /\ s.started = session.started
        /\ s.stopping = session.stopping /\ s.destroyed = session.destroyed
    BY <1>1 DEF SessionRecord
  <2>2. s.list # << >>
    <3>1. loc[t].con \in Consumers
      BY <1>2 DEF Inv, LockInv, ThreadInv, LocalsMeet
    <3>2. session.list \in Seq(Consumers)
      BY <1>1 DEF SessionRecord
    <3>3. <<loc[t].con>> \in Seq(Consumers) /\ Len(<<loc[t].con>>) = 1
      BY <3>1
    <3>4. Len(<<loc[t].con>> \o session.list) = 1 + Len(session.list) /\ Len(session.list) \in Nat
      BY <3>2, <3>3, ConcatProperties, LenProperties
    <3>5. Len(<< >>) = 0
      OBVIOUS
    <3>6. <<loc[t].con>> \o session.list # << >>
      BY <3>4, <3>5
    <3> QED
      BY <2>1, <3>6
  <2>3. CASE session.started /\ ~paused
    <3> DEFINE f == FrameAt(t, "createUnlock")
    <3>1. /\ session' = [s EXCEPT !.lock = t] /\ Goto(t, "acquire") /\ UNCHANGED loc
          /\ stack' = [stack EXCEPT ![t] = <<f>> \o @]
      BY <1>6, <2>3 DEF CreateLink, Call, Push
    <3>2. f \in Frame /\ f.pc = "createUnlock"
      BY <1>1, FrameAtType DEF FrameAt, ReturnPcs
    <3> HIDE DEF f
    <3>3. session'.lock = t
      BY <1>1, <3>1 DEF SessionRecord
    <3> HIDE DEF s
    <3>4. /\ Alone(t) /\ pc'[t] = "acquire" /\ Solo(t)'
          /\ \A P : /\ Rest(t, P)' <=> f.pc \in P \/ Rest(t, P)
                    /\ InCall(t, P)' <=> "acquire" \in P \/ f.pc \in P \/ Rest(t, P)
                    /\ f.pc \in P => Has(stack'[t], P)
      BY <1>1, <1>2, <1>3, <3>1, <3>2, LoosePush, SessionPcs
    <3>5. Has(stack'[t], WakePcs \cup {"startNext"}) /\ InCall(t, WakePcs)'
      BY <3>2, <3>4, SessionPcs
    <3>6. StackMeets(t)' /\ pc'[t] \notin PutPcs /\ pc'[t] # "empty"
      BY <3>4, <3>5 DEF StackMeets, MayUnlock, PutPcs
    <3>7. ~InCall(t, {"startNext"})' /\ ~Rest(t, {"startNext"})'
      BY <1>3, <3>2, <3>4
    <3>8. Starting(t)'
      BY <3>7, StartingParts
    <3>9. ControlInv'
      BY <1>3, <3>3, <3>4, <3>6, <3>8, SessionControl DEF RestInv
    <3>10. \E u \in Threads : Wakes(u)'
      BY <3>5, ComesToLook
    <3> QED
      BY <1>2, <1>4, <3>4, <3>6, <3>9, <3>10, SessionStep
  <2>4. CASE ~(session.started /\ ~paused)
    <3>1. session' = s /\ Goto(t, "createDone") /\ UNCHANGED <<stack, loc>>
      BY <1>6, <2>4 DEF CreateLink
    <3>2. SessionKeeps
      BY <2>1, <2>2, <3>1 DEF SessionKeeps
    <3> HIDE DEF s
    <3>3. /\ Alone(t) /\ pc'[t] = "createDone" /\ Solo(t)'
          /\ \A P : (Rest(t, P)' <=> Rest(t, P))
                      /\ (InCall(t, P)' <=> "createDone" \in P \/ Rest(t, P))
      BY <1>1, <1>2, <1>3, <3>1, LooseGoto
    <3>4. StackMeets(t)' /\ pc'[t] \notin PutPcs /\ pc'[t] # "empty"
      BY <3>3 DEF StackMeets, MayUnlock, PutPcs
    <3>5. ~InCall(t, LockedPcs)' /\ ~InCall(t, {"startNext"})' /\ ~Rest(t, {"startNext"})'
      BY <1>3, <3>3, SessionPcs
    <3>6. Starting(t)'
      BY <3>5, StartingParts
    <3>7. ControlInv'
      BY <1>3, <3>3, <3>4, <3>5, <3>6, SessionControl DEF RestInv
    <3>8. WaiterOpen /\ Ready => \E u \in Threads : Wakes(u)'
      BY <1>4, <3>2, <3>3, OwnSee, StillSeen
    <3> QED
      BY <1>2, <1>4, <3>3, <3>4, <3>7, <3>8, SessionStep
  <2> QED
    BY <2>3, <2>4
<1> QED
  BY <1>5, <1>6

(* A consumer leaves the session, to be disabled.                          *)
LEMMA DestroyConsumerRest ==
  ASSUME Inv, Inv', RestInv, NEW t \in Threads, NEW c \in Consumers, DestroyConsumer(t, c)
  PROVE  RestInv'
<1>1. ThreadTypeOK /\ ThreadTypeOK'
  BY StepTypes
<1> DEFINE f == [FrameAt(t, "release") EXCEPT !.con = c]
<1>2. /\ pc[t] = "idle" /\ Goto(t, "disable") /\ UNCHANGED <<queueVars, msgVars, cb>>
      /\ stack' = [stack EXCEPT ![t] = <<f>> \o @] /\ loc' = [loc EXCEPT ![t].con = c]
      /\ LockFree
  BY DEF DestroyConsumer, Begin
<1>3. f \in Frame /\ f.pc = "release" /\ f.pc \notin LockedPcs
  BY <1>1 DEF FrameAt, Frame, ReturnPcs, LockedPcs
<1> HIDE DEF f
<1>4. \A u \in Threads : u # t => loc'[u] = loc[u]
  BY <1>1, <1>2 DEF ThreadTypeOK
<1>5. \A u \in Threads : ~InCall(u, LockedPcs) /\ ~Rest(u, LockedPcs) /\ ~Rest(u, {"startNext"})
  BY <1>2, NobodyLocked DEF RestInv
<1>6. /\ Alone(t) /\ pc'[t] = "disable" /\ Solo(t)'
      /\ \A P : /\ Rest(t, P)' <=> f.pc \in P \/ Rest(t, P)
                /\ InCall(t, P)' <=> "disable" \in P \/ f.pc \in P \/ Rest(t, P)
                /\ f.pc \in P => Has(stack'[t], P)
  BY <1>1, <1>2, <1>3, <1>4, <1>5, LoosePush
<1>7. StackMeets(t)' /\ pc'[t] \notin PutPcs /\ pc'[t] # "empty"
  BY <1>6 DEF StackMeets, MayUnlock, PutPcs
<1>8. ~InCall(t, LockedPcs)' /\ ~InCall(t, {"startNext"})' /\ ~Rest(t, {"startNext"})'
  BY <1>3, <1>5, <1>6, SessionPcs
<1>9. Starting(t)'
  BY <1>8, StartingParts
<1>10. ControlInv'
  BY <1>5, <1>6, <1>7, <1>8, <1>9, SessionControl DEF RestInv
<1>11. \E u \in Threads : Wakes(u)'
  BY <1>6 DEF Wakes
<1>12. pc[t] \notin DiscardPcs
  BY <1>2, SessionPcs
<1> QED
  BY <1>2, <1>6, <1>7, <1>10, <1>11, <1>12, SessionStep

(* The session is destroyed: who does so visits all consumers, and until   *)
(* it has the session lock a start may go on.                              *)
LEMMA DestroySessionRest ==
  ASSUME Inv, Inv', RestInv, NEW t \in Threads, DestroySession(t)
  PROVE  RestInv'
<1>1. ThreadTypeOK /\ ThreadTypeOK' /\ session \in SessionRecord
  BY StepTypes
<1> DEFINE f == FrameAt(t, "sessRelease")
<1>2. /\ pc[t] = "idle" /\ Goto(t, "sessMark") /\ stack' = [stack EXCEPT ![t] = <<f>> \o @]
      /\ session' = [session EXCEPT !.destroyed = TRUE]
      /\ UNCHANGED <<queueVars, msgVars, cb, loc>>
  BY DEF DestroySession, Begin, Call, Push
<1>3. f \in Frame /\ f.pc \notin LockedPcs
  BY <1>1, FrameAtType DEF FrameAt, ReturnPcs, LockedPcs
<1> HIDE DEF f
<1>4. /\ session'.list = session.list /\ session'.lock = session.lock
      /\ session'.started = session.started /\ session'.stopping = session.stopping
  BY <1>1, <1>2 DEF SessionRecord
<1>5. Moved(t) /\ pc'[t] = "sessMark"
  BY <1>1, <1>2, <1>3, PushMoved, SessionPcs
<1>6. loc[t].con = NoConsumer
  BY <1>2 DEF RestInv, ControlInv, StackMeets
<1>7. StackMeets(t)' /\ pc'[t] \notin PutPcs /\ pc'[t] # "empty"
  BY <1>2, <1>5, <1>6 DEF StackMeets, MayUnlock, PutPcs
<1>8. \E u \in Threads : pc'[u] = "sessMark"
  BY <1>5
<1>9. ASSUME NEW u \in Threads
      PROVE  HoldsSession(u)' /\ StackMeets(u)' /\ Starting(u)'
  <2>1. HoldsSession(u) /\ StackMeets(u) /\ Starting(u)
    BY DEF RestInv, ControlInv
  <2>2. CASE u = t
    <3>1. Solo(t)' /\ (InCall(t, LockedPcs)' => session'.lock = t)
      BY <1>4, <1>5, <2>1, <2>2, HoldsParts DEF Moved
    <3>2. Starting(t)'
      BY <1>4, <1>5, <1>8, <2>1, <2>2, StartingParts DEF Moved
    <3> QED
      BY <1>7, <2>2, <3>1, <3>2, HoldsPartsNext
  <2>3. CASE u # t
    <3>1. /\ Solo(u)' /\ StackMeets(u)'
          /\ \A P : (InCall(u, P)' <=> InCall(u, P)) /\ (Rest(u, P)' <=> Rest(u, P))
      BY <1>5, <2>1, <2>3, OthersControl DEF Moved
    <3>2. InCall(u, LockedPcs)' => session'.lock = u
      BY <1>4, <2>1, <3>1 DEF HoldsSession
    <3>3. Starting(u)'
      BY <1>4, <1>8, <2>1, <3>1, StartingParts
    <3> QED
      BY <3>1, <3>2, <3>3, HoldsPartsNext
  <2> QED
    BY <2>2, <2>3
<1>10. ControlInv'
  BY <1>9 DEF ControlInv
<1>11. pc[t] \notin DiscardPcs /\ pc[t] \notin WakePcs /\ pc[t] # "disable"
  BY <1>2, SessionPcs DEF WakePcs
<1>12. session.list # << >> => Wakes(t)'
  BY <1>4, <1>5 DEF Wakes
<1>13. WaiterOpen /\ Ready => \E u \in Threads : Wakes(u)'
  BY <1>5, <1>11, <1>12, ActorSees DEF Moved
<1> QED
  BY <1>2, <1>5, <1>7, <1>10, <1>11, <1>13, SessionStep DEF Moved

(* Delivery ends, when no start is under way.                              *)
LEMMA SessionMarkDestroyedRest ==
  ASSUME Inv, Inv', RestInv, NEW t \in Threads, SessionMarkDestroyed(t)
  PROVE  RestInv'
<1>1. ThreadTypeOK /\ ThreadTypeOK' /\ session \in SessionRecord
  BY StepTypes
<1> DEFINE f == FrameAt(t, "stopDone")
<1>2. /\ pc[t] = "sessMark" /\ Goto(t, "sessNack") /\ LockFree
      /\ UNCHANGED <<queueVars, msgVars, cb, loc>>
      /\ session' = [session EXCEPT !.started = FALSE, !.stopping = @ \/ session.started]
      /\ stack' = [stack EXCEPT ![t] = <<f>> \o @] \/ UNCHANGED stack
  BY DEF SessionMarkDestroyed, Push
<1>3. session'.list = session.list
  BY <1>1, <1>2 DEF SessionRecord
<1>4. \A u \in Threads : ~InCall(u, LockedPcs) /\ ~Rest(u, LockedPcs) /\ ~Rest(u, {"startNext"})
  BY <1>2, NobodyLocked DEF RestInv
<1>5. f \in Frame /\ f.pc = "stopDone" /\ f.pc \notin LockedPcs
  BY <1>1, FrameAtType DEF FrameAt, ReturnPcs, LockedPcs
<1> HIDE DEF f
<1>6. /\ Alone(t) /\ pc'[t] = "sessNack" /\ Solo(t)'
      /\ \A P : Rest(t, P) => InCall(t, P)'
      /\ ~InCall(t, LockedPcs)' /\ ~InCall(t, {"startNext"})' /\ ~Rest(t, {"startNext"})'
  <2>1. CASE stack' = [stack EXCEPT ![t] = <<f>> \o @]
    <3>1. /\ Alone(t) /\ pc'[t] = "sessNack" /\ Solo(t)'
          /\ \A P : /\ Rest(t, P)' <=> f.pc \in P \/ Rest(t, P)
                    /\ InCall(t, P)' <=> "sessNack" \in P \/ f.pc \in P \/ Rest(t, P)
                    /\ f.pc \in P => Has(stack'[t], P)
      BY <1>1, <1>2, <1>4, <1>5, <2>1, LoosePush
    <3> QED
      BY <1>4, <1>5, <3>1, SessionPcs
  <2>2. CASE UNCHANGED stack
    <3>1. /\ Alone(t) /\ pc'[t] = "sessNack" /\ Solo(t)'
          /\ \A P : (Rest(t, P)' <=> Rest(t, P))
                      /\ (InCall(t, P)' <=> "sessNack" \in P \/ Rest(t, P))
      BY <1>1, <1>2, <1>4, <2>2, LooseGoto
    <3> QED
      BY <1>4, <3>1, SessionPcs
  <2> QED
    BY <1>2, <2>1, <2>2
<1>7. loc[t].con = NoConsumer
  BY <1>2 DEF RestInv, ControlInv, StackMeets
<1>8. StackMeets(t)' /\ pc'[t] \notin PutPcs /\ pc'[t] # "empty"
  BY <1>2, <1>6, <1>7 DEF StackMeets, MayUnlock, PutPcs
<1>9. Starting(t)'
  BY <1>6, StartingParts
<1>10. ControlInv'
  BY <1>4, <1>6, <1>8, <1>9, SessionControl DEF RestInv
<1>11. pc[t] \notin DiscardPcs /\ pc[t] \notin WakePcs /\ pc[t] # "disable"
  BY <1>2, SessionPcs DEF WakePcs
<1>12. session.list # << >> => Wakes(t)'
  BY <1>3, <1>6 DEF Wakes
<1>13. WaiterOpen /\ Ready => \E u \in Threads : Wakes(u)'
  BY <1>6, <1>11, <1>12, ActorSees
<1> QED
  BY <1>2, <1>6, <1>8, <1>10, <1>11, <1>13, SessionStep

(* The count of what keeps the session from the nack of its messages.      *)
LEMMA SessionReducePreNackAllRest ==
  ASSUME Inv, Inv', RestInv, NEW t \in Threads, SessionReducePreNackAll(t)
  PROVE  RestInv'
<1>1. ThreadTypeOK /\ ThreadTypeOK' /\ session \in SessionRecord
  BY StepTypes
<1>2. /\ pc[t] = "sessNack" /\ Goto(t, "sessNext") /\ session' = ReducePreNackAll(session)
      /\ UNCHANGED <<queueVars, msgVars, stack, cb, loc>>
  BY DEF SessionReducePreNackAll
<1>3. SessionQuiet
  BY <1>1, <1>2, CountsQuiet
<1>4. Moved(t) /\ pc'[t] = "sessNext"
  BY <1>1, <1>2, GotoMoved, SessionPcs
<1>5. loc'[t].con = NoConsumer
  BY <1>2 DEF RestInv, ControlInv, StackMeets
<1>6. StackMeets(t)' /\ pc'[t] \notin PutPcs /\ pc'[t] # "empty"
  BY <1>4 DEF StackMeets, MayUnlock, PutPcs
<1>7. ControlInv'
  BY <1>2, <1>3, <1>4, <1>6, PlainControl DEF RestInv
<1>8. pc[t] \notin DiscardPcs /\ pc[t] \notin WakePcs /\ pc[t] # "disable"
  BY <1>2, SessionPcs DEF WakePcs
<1>9. session.list # << >> => Wakes(t)'
  BY <1>3, <1>4, <1>5 DEF Wakes, SessionQuiet
<1>10. WaiterOpen /\ Ready => \E u \in Threads : Wakes(u)'
  BY <1>4, <1>8, <1>9, ActorSees DEF Moved
<1> QED
  BY <1>2, <1>4, <1>6, <1>7, <1>8, <1>10, SessionStep DEF Moved

(* Going on with two new callers.                                          *)
LEMMA PushTwoMoved ==
  ASSUME ThreadTypeOK, ThreadTypeOK', NEW t \in Threads, NEW l, Goto(t, l), l \notin LockedPcs,
         NEW f \in Frame, f.pc \notin LockedPcs, NEW g \in Frame, g.pc \notin LockedPcs,
         stack' = [stack EXCEPT ![t] = <<f, g>> \o @],
         UNCHANGED cb, \A u \in Threads : u # t => loc'[u] = loc[u]
  PROVE  Moved(t) /\ pc'[t] = l
<1> DEFINE s == <<g>> \o stack[t]
<1>1. pc' = [pc EXCEPT ![t] = l] /\ pc'[t] = l
  BY DEF Goto, ThreadTypeOK
<1>2. stack[t] \in Seq(Frame) /\ stack'[t] = <<f, g>> \o stack[t]
  BY DEF ThreadTypeOK
<1>3. s \in Seq(Frame)
  BY <1>2
<1>4. stack'[t] = <<f>> \o s
  <2>1. <<f, g>> = <<f>> \o <<g>> /\ <<f>> \in Seq(Frame) /\ <<g>> \in Seq(Frame)
    OBVIOUS
  <2> QED
    BY <1>2, <2>1, ConcatAssociative
<1>5. Alone(t)
  BY <1>1 DEF Alone, ThreadTypeOK
<1>6. \A P : /\ Has(s, P) <=> g.pc \in P \/ Has(stack[t], P)
             /\ Single(stack[t], P) /\ (g.pc \in P => ~Has(stack[t], P)) => Single(s, P)
  BY <1>2, PushHas
<1> HIDE DEF s
<1>7. \A P : /\ Has(stack'[t], P) <=> f.pc \in P \/ Has(s, P)
             /\ Single(s, P) /\ (f.pc \in P => ~Has(s, P)) => Single(stack'[t], P)
  <2> DEFINE w == <<f>> \o s
  <2>1. \A P : /\ Has(w, P) <=> f.pc \in P \/ Has(s, P)
               /\ Single(s, P) /\ (f.pc \in P => ~Has(s, P)) => Single(w, P)
    BY <1>3, PushHas
  <2> HIDE DEF w
  <2>2. stack'[t] = w
    BY <1>4 DEF w
  <2> QED
    BY <2>1, <2>2
<1>8. \A P : Rest(t, P)' <=> f.pc \in P \/ g.pc \in P \/ Rest(t, P)
  BY <1>6, <1>7 DEF Rest, HasBelow
<1>9. \A P : InCall(t, P)' <=> pc'[t] \in P \/ Rest(t, P)'
  BY DEF InCall, Rest, Has, HasBelow
<1>10. \A P : Rest(t, P) => InCall(t, P)
  BY InCallRest
<1>11. Single(stack[t], LockedPcs) => Single(stack'[t], LockedPcs)
  BY <1>6, <1>7
<1>12. Has(stack'[t], LockedPcs) => Has(stack[t], LockedPcs)
  BY <1>6, <1>7
<1>13. Solo(t) => Solo(t)'
  BY <1>1, <1>11, <1>12 DEF Solo, HasBelow
<1>14. l \notin {"startNext"} /\ f.pc \notin {"startNext"} /\ g.pc \notin {"startNext"}
  BY LockedAreReturns
<1> QED
  BY <1>1, <1>5, <1>8, <1>9, <1>10, <1>13, <1>14 DEF Moved

(* The next consumer is disabled, or there is none left.                   *)
LEMMA SessionNextConsumerRest ==
  ASSUME Inv, Inv', RestInv, NEW t \in Threads, SessionNextConsumer(t)
  PROVE  RestInv'
<1>1. ThreadTypeOK /\ ThreadTypeOK' /\ SessionTypeOK
  BY StepTypes DEF SessionTypeOK
<1>2. /\ pc[t] = "sessNext"
      /\ UNCHANGED <<nodes, bufferedMsgs, expiryData, waiterStatus, session, cb, fate>>
  BY DEF SessionNextConsumer, queueVars, msgVars
<1>3. pc[t] # "sessMark" /\ pc[t] \notin DiscardPcs
  BY <1>2, SessionPcs
<1>4. SessionQuiet
  BY <1>2, SameQuiet
<1> DEFINE c == NextConsumer(loc[t].con)
<1>5. CASE c = NoConsumer
  <2>1. Return(t)
    BY <1>5 DEF SessionNextConsumer
  <2>2. Moved(t) /\ StackMeets(t)' /\ pc'[t] \notin PutPcs
    BY <1>1, <1>2, <2>1, ReturnMoved, ReturnMeets
  <2>3. ~(session.list # << >> /\ loc[t].con = NoConsumer)
    BY <1>1, <1>5, FirstConsumer
  <2>4. Wakes(t) => Wakes(t)'
    <3>1. \A P : InCall(t, P) /\ pc[t] \notin P => InCall(t, P)'
      BY <2>2, InCallRest DEF Moved
    <3>2. pc[t] \notin WakePcs /\ pc[t] \notin {"startNext"}
      BY <1>2 DEF WakePcs
    <3> QED
      BY <1>2, <2>3, <3>1, <3>2 DEF Wakes
  <2>5. SessionKeeps
    BY <1>2 DEF SessionKeeps
  <2>6. WaiterOpen /\ Ready => \E u \in Threads : Wakes(u)'
    BY <2>2, <2>4, <2>5, StillSeen DEF Moved
  <2>7. WaiterOpen' => WaiterOpen
    BY <1>2, <2>1, <2>2, <1>1, SameQuiet, OpenKept, ReturnMeets DEF Moved
  <2> QED
    BY <1>2, <1>3, <1>4, <2>2, <2>6, <2>7, LookStep
<1>6. CASE c # NoConsumer
  <2> DEFINE f == [FrameAt(t, "release") EXCEPT !.con = c]
             g == [FrameAt(t, "sessNext") EXCEPT !.con = c]
  <2>1. /\ loc' = [loc EXCEPT ![t].con = c] /\ stack' = [stack EXCEPT ![t] = <<f, g>> \o @]
        /\ Goto(t, "disable")
    BY <1>6 DEF SessionNextConsumer
  <2>2. c \in Consumers \cup {NoConsumer}
    BY <1>1, NextConsumerType
  <2> HIDE DEF c
  <2>3. f \in Frame /\ f.pc \notin LockedPcs /\ g \in Frame /\ g.pc \notin LockedPcs
    BY <2>2 DEF FrameAt, Frame, ReturnPcs, LockedPcs
  <2> HIDE DEF f, g
  <2>4. \A u \in Threads : u # t => loc'[u] = loc[u]
    BY <1>1, <2>1 DEF ThreadTypeOK
  <2>5. Moved(t) /\ pc'[t] = "disable"
    BY <1>1, <1>2, <2>1, <2>3, <2>4, PushTwoMoved, SessionPcs
  <2>6. StackMeets(t)' /\ pc'[t] \notin PutPcs
    BY <2>5 DEF StackMeets, MayUnlock, PutPcs
  <2>7. \E u \in Threads : Wakes(u)'
    BY <2>5 DEF Wakes
  <2> QED
    BY <1>2, <1>3, <1>4, <2>5, <2>6, <2>7, LookStep
<1> QED
  BY <1>5, <1>6

-----------------------------------------------------------------------------
(* The invariant *)

(* A new queue has nothing on it, and its threads have not begun.          *)
LEMMA InitRest == Init => RestInv
<1> SUFFICES ASSUME Init PROVE RestInv
  OBVIOUS
<1>1. /\ \A t \in Threads : /\ pc[t] = "idle" /\ stack[t] = << >> /\ cb[t] = NoCb
                            /\ loc[t] = InitLoc
      /\ nodes = << >> /\ bufferedMsgs = 0 /\ expiryData = {}
      /\ waiterStatus = WS_DISCONNECTED
  BY DEF Init
<1>2. DOMAIN nodes = {}
  BY <1>1
<1>3. ControlInv
  <2>1. ASSUME NEW t \in Threads
        PROVE  HoldsSession(t) /\ StackMeets(t) /\ Starting(t)
    <3>1. \A P : ~Has(stack[t], P) /\ Single(stack[t], P) /\ ~HasBelow(t, P)
      BY <1>1, <2>1, EmptyHas DEF HasBelow
    <3>2. "idle" \notin LockedPcs
      BY DEF LockedPcs
    <3>3. ~InCall(t, LockedPcs)
      BY <1>1, <2>1, <3>1, <3>2, InCallRest DEF Rest
    <3>4. ~InCall(t, {"startNext"})
      BY <1>1, <2>1, <3>1, InCallRest DEF Rest
    <3>5. HoldsSession(t)
      BY <1>1, <2>1, <3>1, <3>2, <3>3 DEF HoldsSession
    <3>6. StackMeets(t)
      BY <1>1, <2>1 DEF StackMeets, MayUnlock, InitLoc
    <3> QED
      BY <3>1, <3>4, <3>5, <3>6 DEF Starting
  <2> QED
    BY <2>1 DEF ControlInv
<1>4. NodeInv
  <2>1. PutsApart /\ EmptyNodes
    BY <1>1, <1>2 DEF PutsApart, EmptyNodes, PutPcs, FillPcs
  <2>2. Counting = {} /\ Live = {}
    BY <1>1, <1>2 DEF Counting, Live
  <2>3. CountExact
    BY <1>1, <2>2, FS_EmptySet DEF CountExact
  <2>4. ExpiryExact
    BY <1>1, <2>2 DEF ExpiryExact
  <2> QED
    BY <2>1, <2>3, <2>4 DEF NodeInv
<1>5. ~Ready
  <2>1. \A i \in 1 .. Len(nodes) : FALSE
    BY <1>1
  <2>2. nodes \in Seq(NodeRecord)
    BY <1>1
  <2> QED
    BY <2>1, <2>2, ReadyIs DEF Ready
<1>6. DiscardInv
  BY <1>1, ConstantsAssumption DEF DiscardInv
<1> QED
  BY <1>3, <1>4, <1>5, <1>6 DEF RestInv, WakeInv

(* A step of a thread inside the engine.                                   *)
LEMMA StepRest ==
  ASSUME Inv, Inv', RestInv, NEW t \in Threads, Step(t)
  PROVE  RestInv'
<1>1. CASE PutSteps(t)
  BY <1>1, PutTryRest, PutToWaitingGetterRest, EnqueueRest, CountMessageRest,
     AddMessageExpiryDataRest, StoreMessageRest, PostPutRest, PostPutDiscardRest, PutDoneRest
     DEF PutSteps
<1>2. CASE GetSteps(t)
  BY <1>2, CheckWaitersRest, CheckLockRest, GetMessageRest, StateToDeliveringRest,
     DeliverMessageRest, ReenableWaiterRest, PendDisableRest, QueueEmptyRest DEF GetSteps
<1>3. CASE CallbackSteps(t)
  BY <1>3, CallbackReturnsTrueRest, CallbackReturnsFalseRest, SuspendMessageDeliveryRest,
     SuspendedCallbackReturnsRest DEF CallbackSteps
<1>4. CASE CompleteSteps(t)
  BY <1>4, CompleteWaiterActionsRest, CompleteUnlockRest, WaiterDisabledCallbackRest,
     WaiterDisabledEndStopRest, ClearReclaimRest, DisablingRest, DisconnectConsumerRest,
     DisconnectingRest, WaiterRemovedCallbackRest, ReducePreDeleteCountRest DEF CompleteSteps
<1>5. CASE QOperationSteps(t)
  BY <1>5, LockForReclaimRest, ReclaimSpaceRest, UnlockAfterQOperationRest, LockForReapRest,
     ReapWorkRest, ReapLockBusyRest, ReapDoneRest DEF QOperationSteps
<1>6. CASE WaiterSteps(t)
  BY <1>6, AcquireForEnableRest, EnableWaiterRest, EnableUndoRest, DisableWaiterRest,
     UncancelCallbackRest, UncancelEndStopRest, ReleaseConsumerReferenceRest,
     FinishDestroyConsumerRest, TermWaiterRest DEF WaiterSteps
<1>7. CASE SessionSteps(t)
  BY <1>7, StartNextRest, StartDeliverRest, StartReleaseRest, ResumeCheckRest, StopDisableRest,
     StopNextRest, StopDoneRest, StopFinishRest, ConnectConsumerRest, CreateLinkRest,
     CreateUnlockRest, CreateDoneRest, SessionMarkDestroyedRest, SessionReducePreNackAllRest,
     SessionNextConsumerRest, SessionReleaseRest DEF SessionSteps
<1> QED
  BY <1>1, <1>2, <1>3, <1>4, <1>5, <1>6, <1>7 DEF Step

(* A thread enters the engine.                                             *)
LEMMA RequestRest ==
  ASSUME Inv, Inv', RestInv, NEW t \in Threads, Request(t)
  PROVE  RestInv'
BY PutMessageRest, ReapExpiredMessagesRest, StartMessageDeliveryRest, StopMessageDeliveryRest,
   ResumeMessageDeliveryRest, CreateConsumerRest, DestroyConsumerRest, DestroySessionRest,
   DeleteQRest DEF Request

(* With the invariant of the lock, what is left to do is inductive.        *)
LEMMA NextRest == Inv /\ RestInv /\ [Next]_vars => Inv' /\ RestInv'
<1> SUFFICES ASSUME Inv, RestInv, [Next]_vars PROVE Inv' /\ RestInv'
  OBVIOUS
<1>1. Inv'
  BY NextInv
<1>2. CASE \E t \in Threads : Step(t) \/ Request(t)
  BY <1>1, <1>2, StepRest, RequestRest
<1>3. CASE \E m \in Msgs : ExpiryTimePasses(m)
  BY <1>1, <1>3, ExpiryTimePassesRest
<1>4. CASE Idle
  BY <1>1, <1>4, StutterRest DEF Idle
<1>5. CASE UNCHANGED vars
  BY <1>1, <1>5, StutterRest
<1> QED
  BY <1>2, <1>3, <1>4, <1>5 DEF Next

(* When all threads have left nobody is on the way to anything, and nobody *)
(* has the lock or has left a flag for its owner.                          *)
LEMMA AtRest ==
  ASSUME Inv, RestInv, Quiescent
  PROVE  /\ ~IsLocked(waiterStatus) /\ RECLAIMSPACE_PEND \notin waiterStatus
         /\ \A t \in Threads : ~Wakes(t) /\ ~Discards(t)
<1>1. ~IsLocked(waiterStatus)
  BY DEF Inv, LockInv, LockExclusion, Owner, Quiescent, LockPcs
<1>2. RECLAIMSPACE_PEND \notin waiterStatus
  BY <1>1 DEF IsLocked, LOCKED, PENDING
<1>3. ASSUME NEW t \in Threads PROVE ~Wakes(t) /\ ~Discards(t)
  <2>1. pc[t] = "idle" /\ cb[t] = NoCb
    BY DEF Quiescent
  <2>2. stack[t] = << >>
    BY <2>1 DEF RestInv, ControlInv, StackMeets
  <2>3. \A P : ~Rest(t, P)
    BY <2>1, <2>2, EmptyHas DEF Rest, HasBelow
  <2>4. \A P : InCall(t, P) <=> "idle" \in P
    BY <2>1, <2>3, InCallRest
  <2>5. ~Wakes(t)
    BY <2>1, <2>4 DEF Wakes, WakePcs
  <2>6. ~Discards(t)
    BY <2>1, <2>4 DEF Discards, FillPcs
  <2> QED
    BY <2>5, <2>6
<1> QED
  BY <1>1, <1>2, <1>3

(* No message waits for a consumer that could have it.                     *)
LEMMA RestWakeup == Inv /\ RestInv => NoLostWakeup
<1> SUFFICES ASSUME Inv, RestInv, Quiescent
             PROVE  /\ ~IsLocked(waiterStatus)
                    /\ waiterStatus = WS_ENABLED => ~HeadReady(SkipRemoved(nodes))
  BY DEF NoLostWakeup
<1>1. ~IsLocked(waiterStatus) /\ \A t \in Threads : ~Wakes(t)
  BY AtRest
<1> QED
  BY <1>1 DEF RestInv, WakeInv, WaiterOpen, Ready

(* Every node in the queue holds a message of its own.                     *)
LEMMA RestCount == Inv /\ RestInv => BufferedCount
<1> SUFFICES ASSUME Inv, RestInv PROVE BufferedCount
  OBVIOUS
<1> DEFINE D == {i \in DOMAIN nodes : nodes[i].state # "removed"}
<1>1. nodes \in Seq(NodeRecord) /\ PutsApart /\ CountExact
  BY InvTypes DEF RestInv, NodeInv
<1>2. DOMAIN nodes = 1 .. Len(nodes)
  BY <1>1, NodeFacts
<1>3. \A i \in 1 .. Len(nodes) : i \in D <=> nodes[i].msg \in Live
  BY <1>1, <1>2 DEF Live, PutsApart
<1>4. Cardinality(Live) = Cardinality(D)
  BY <1>1, <1>2, <1>3, MarkCount
<1> QED
  BY <1>1, <1>4 DEF CountExact, Counting, BufferedCount

(* No discard is due.                                                      *)
LEMMA RestDiscard ==
  ASSUME Inv, RestInv, MaxMsgBehavior = "DiscardOldMessages" => MaxMsgCount > 0
  PROVE  DiscardKeepsLimit
<1> SUFFICES ASSUME Quiescent, MaxMsgBehavior = "DiscardOldMessages"
             PROVE  bufferedMsgs <= MaxMsgCount
  BY DEF DiscardKeepsLimit
<1>1. RECLAIMSPACE_PEND \notin waiterStatus /\ \A t \in Threads : ~Discards(t)
  BY AtRest
<1>2. ~(bufferedMsgs > MaxMsgCount)
  BY <1>1 DEF RestInv, DiscardInv
<1> QED
  BY <1>2, InvTypes, ConstantsAssumption

(* Every message that expires is known to the reaper.                      *)
LEMMA RestExpiry == RestInv => ExpiryRecorded
<1> SUFFICES ASSUME RestInv, Quiescent
             PROVE  expiryData = {m \in Expiring : \E i \in DOMAIN nodes :
                                    nodes[i].msg = m /\ nodes[i].state # "removed"}
  BY DEF ExpiryRecorded
<1>1. \A t \in Threads : pc[t] \notin {"count", "addExpiry"}
  BY DEF Quiescent
<1>2. expiryData = Expiring \cap Live
  BY <1>1 DEF RestInv, NodeInv, ExpiryExact
<1> QED
  BY <1>2 DEF Live

-----------------------------------------------------------------------------
(* No lost wakeup: when all threads have left, the waiter is not locked    *)
(* and no flag is left pending on it, and a consumer that is enabled is    *)
(* not asleep while simpQ.c has a stored message for it at the head,       *)
(* however puts, checkWaiters, starts, stops, resumes, suspends and the    *)
(* destruction of consumers and sessions have overlapped.                  *)
THEOREM NoWakeupLost == Spec => []NoLostWakeup
<1>1. Init => Inv /\ RestInv
  BY InitInv, InitRest
<1> QED
  BY <1>1, NextRest, RestWakeup, PTL DEF Spec

(* Nothing is left undone: also bufferedMsgs is the number of messages in  *)
(* the queue, a discard of old messages that a put has left to the owner   *)
(* of the lock has been done, and iesq_reapExpiredMessages knows of every  *)
(* message that will expire.  A limit of 0, which the code takes for a     *)
(* limit when it discards, is excepted.                                    *)
THEOREM NothingLeftUndone ==
  ASSUME MaxMsgBehavior = "DiscardOldMessages" => MaxMsgCount > 0
  PROVE  Spec => []NothingUndone
<1>1. Init => Inv /\ RestInv
  BY InitInv, InitRest
<1>2. Inv /\ RestInv => NothingUndone
  BY RestWakeup, RestCount, RestDiscard, RestExpiry DEF NothingUndone
<1> QED
  BY <1>1, <1>2, NextRest, PTL DEF Spec
=============================================================================
