----------------------- MODULE ConsumerDeliveryLemmas -----------------------
(***************************************************************************)
(* The inductive invariant behind the theorems about ConsumerDelivery, and *)
(* the lemmas their proof is made of: what the helpers of the model return *)
(* and what a step of one thread leaves alone.  Nothing is assumed of the  *)
(* numbers of threads, consumers, messages and calls.                      *)
(***************************************************************************)
EXTENDS ConsumerDelivery, SequenceTheorems, FiniteSetTheorems, WellFoundedInduction, TLAPS

-----------------------------------------------------------------------------
(* What the transitions of the waiter status word do and leave alone,      *)
(* whatever thread makes them: each lemma is about a status s and the      *)
(* status a transition of WaiterStatus makes of it.                        *)

(* The statuses the owner of the lock meets at its various points.         *)
GetShape        == {WS_GETTING} \cup PendingStatus
DeliverShape    == {WS_DELIVERING} \cup PendingStatus
DisableShape    == {s \in PendingStatus : DISABLE_PEND \in s}
DisconnectShape == {{DISCONNECT_PEND}, {DISCONNECT_PEND, RECLAIMSPACE_PEND}}

CancelHasDisable(s) == CANCEL_DISABLE_PEND \in s => DISABLE_PEND \in s

(* What a thread that does not own the lock may make of the status: the    *)
(* lock stays as it is, and the owner's expectations go on being met.      *)
Keeps(s, r) ==
  /\ IsLocked(r) <=> IsLocked(s)
  /\ CancelHasDisable(s) => CancelHasDisable(r)
  /\ s \in GetShape => r \in GetShape
  /\ s \in DeliverShape => r \in DeliverShape
  /\ s \in PendingStatus => r \in PendingStatus
  /\ s \in DisableShape => r \in DisableShape
  /\ s \in DisconnectShape => r \in DisconnectShape
  /\ s = WS_DISABLED_LOCKEDWAIT => r = WS_DISABLED_LOCKEDWAIT

(* The statuses that do not consist of flags.                              *)
LEMMA StatusCases ==
  ASSUME NEW s \in Status
  PROVE  \/ s = WS_DISCONNECTED \/ s = WS_DISABLED \/ s = WS_ENABLED \/ s = WS_GETTING
         \/ s = WS_DELIVERING \/ s = WS_DISABLED_LOCKEDWAIT \/ s \in PendingStatus
BY DEF Status

(* The bits of each status.                                                *)
LEMMA StatusBits ==
  /\ ~IsLocked(WS_DISCONNECTED) /\ ~IsLocked(WS_DISABLED) /\ ~IsLocked(WS_ENABLED)
  /\ IsLocked(WS_GETTING) /\ IsLocked(WS_DELIVERING) /\ IsLocked(WS_DISABLED_LOCKEDWAIT)
  /\ ~HasPending(WS_DISCONNECTED) /\ ~HasPending(WS_DISABLED) /\ ~HasPending(WS_ENABLED)
  /\ ~HasPending(WS_GETTING) /\ ~HasPending(WS_DELIVERING)
  /\ ~HasPending(WS_DISABLED_LOCKEDWAIT)
  /\ \A s \in PendingStatus : IsLocked(s) /\ HasPending(s)
BY DEF IsLocked, HasPending, LOCKED, PENDING, PendingStatus, WS_DISCONNECTED, WS_DISABLED,
       WS_ENABLED, WS_GETTING, WS_DELIVERING, WS_DISABLED_LOCKEDWAIT, DISABLE_PEND,
       CANCEL_DISABLE_PEND, DISCONNECT_PEND, RECLAIMSPACE_PEND

(* A lock that is held is neither DISCONNECTED, DISABLED nor ENABLED.      *)
LEMMA LockedCases ==
  ASSUME NEW s \in Status
  PROVE  IsLocked(s) <=> s \notin {WS_DISCONNECTED, WS_DISABLED, WS_ENABLED}
BY StatusCases, StatusBits DEF PendingStatus, PENDING

-----------------------------------------------------------------------------
(* Transitions of threads that do not own the lock *)

(* ieq_enableWaiter, when it does not wait, never touches the lock.        *)
LEMMA EnableKeeps ==
  ASSUME NEW s \in Status, ~EnableWaits(s)
  PROVE  Keeps(s, EnableTo(s)) /\ EnableTo(s) \in Status
<1> USE DEF EnableTo, EnableRc, EnableWaits, Keeps, CancelHasDisable, GetShape, DeliverShape,
           DisableShape, DisconnectShape, IsLocked, LOCKED, PENDING, PendingStatus, ACTIVE, Status,
           WS_DISCONNECTED, WS_DISABLED, WS_ENABLED, WS_GETTING, WS_DELIVERING,
           WS_DISABLED_LOCKEDWAIT, DISABLE_PEND, CANCEL_DISABLE_PEND, DISCONNECT_PEND,
           RECLAIMSPACE_PEND
<1>1. CASE EnableRc(s) = "OK"
  BY <1>1
<1>2. CASE EnableRc(s) = "DisableWaiterCancel"
  BY <1>2
<1>3. CASE EnableRc(s) \in {"WaiterEnabled", "WaiterInvalid"}
  BY <1>3
<1> QED
  BY <1>1, <1>2, <1>3

(* ieq_disableWaiter takes the lock, or leaves it with its owner.          *)
LEMMA DisableKeeps ==
  ASSUME NEW s \in Status, ~DisableWaits(s)
  PROVE  /\ DisableTo(s) \in Status
         /\ DisableOutcome(s) # "lock" /\ CancelHasDisable(s) => Keeps(s, DisableTo(s))
         /\ DisableOutcome(s) = "lock" => ~IsLocked(s) /\ DisableTo(s) = {DISABLE_PEND}
<1> USE DEF DisableTo, DisableOutcome, DisableWaits, HasPending, Keeps, CancelHasDisable, GetShape, DeliverShape,
           DisableShape, DisconnectShape, IsLocked, LOCKED, PENDING, PendingStatus, ACTIVE, Status,
           WS_DISCONNECTED, WS_DISABLED, WS_ENABLED, WS_GETTING, WS_DELIVERING,
           WS_DISABLED_LOCKEDWAIT, DISABLE_PEND, CANCEL_DISABLE_PEND, DISCONNECT_PEND,
           RECLAIMSPACE_PEND
<1>1. CASE DisableOutcome(s) \in {"WaiterInvalid", "WaiterDisabled"}
  BY <1>1
<1>2. CASE DisableOutcome(s) = "uncancel"
  BY <1>2
<1>3. CASE DisableOutcome(s) = "AsyncCompletion"
  BY <1>3
<1>4. CASE DisableOutcome(s) = "lock"
  BY <1>4
<1> QED
  BY <1>1, <1>2, <1>3, <1>4

(* iews_tryLockForReclaimSpace takes a free lock and otherwise adds a flag *)
(* that no owner minds.                                                    *)
LEMMA ReclaimKeeps ==
  ASSUME NEW s \in Status, ~ReclaimWaits(s)
  PROVE  /\ ReclaimTo(s) \in Status
         /\ IsLocked(s) => Keeps(s, ReclaimTo(s))
         /\ ~IsLocked(s) => ReclaimTo(s) = IF s = WS_ENABLED THEN WS_DELIVERING
                                                            ELSE WS_DISABLED_LOCKEDWAIT
<1> USE DEF ReclaimTo, AddPendFlag, ReclaimWaits, Keeps, CancelHasDisable, GetShape, DeliverShape,
           DisableShape, DisconnectShape, IsLocked, LOCKED, PENDING, PendingStatus, ACTIVE, Status,
           WS_DISCONNECTED, WS_DISABLED, WS_ENABLED, WS_GETTING, WS_DELIVERING,
           WS_DISABLED_LOCKEDWAIT, DISABLE_PEND, CANCEL_DISABLE_PEND, DISCONNECT_PEND,
           RECLAIMSPACE_PEND
<1>1. CASE s \in {WS_ENABLED, WS_DISABLED, WS_DISCONNECTED}
  BY <1>1
<1>2. CASE s \notin {WS_ENABLED, WS_DISABLED, WS_DISCONNECTED}
  BY <1>2
<1> QED
  BY <1>1, <1>2

(* iews_tryLockForQOperation takes a free lock or does nothing.            *)
LEMMA QOpKeeps ==
  ASSUME NEW s \in Status, NEW d \in BOOLEAN
  PROVE  /\ QOpTo(s, d) \in Status
         /\ QOpTo(s, d) # s => /\ ~IsLocked(s)
                               /\ QOpTo(s, d) = IF s = WS_ENABLED THEN WS_DELIVERING
                                                 ELSE WS_DISABLED_LOCKEDWAIT
BY DEF QOpTo, Keeps, CancelHasDisable, GetShape, DeliverShape,
           DisableShape, DisconnectShape, IsLocked, LOCKED, PENDING, PendingStatus, ACTIVE, Status,
           WS_DISCONNECTED, WS_DISABLED, WS_ENABLED, WS_GETTING, WS_DELIVERING,
           WS_DISABLED_LOCKEDWAIT, DISABLE_PEND, CANCEL_DISABLE_PEND, DISCONNECT_PEND,
           RECLAIMSPACE_PEND

(* iesq_termWaiter takes a free lock or leaves the flag with the owner.    *)
LEMMA TermKeeps ==
  ASSUME NEW s \in Status, ~TermWaits(s)
  PROVE  /\ TermTo(s) \in Status
         /\ ~TermLocks(s) => Keeps(s, TermTo(s))
         /\ TermLocks(s) => ~IsLocked(s) /\ TermTo(s) = {DISCONNECT_PEND}
<1> USE DEF TermTo, TermInvalid, TermWaits, TermLocks, HasPending, Keeps, CancelHasDisable, GetShape, DeliverShape,
           DisableShape, DisconnectShape, IsLocked, LOCKED, PENDING, PendingStatus, ACTIVE, Status,
           WS_DISCONNECTED, WS_DISABLED, WS_ENABLED, WS_GETTING, WS_DELIVERING,
           WS_DISABLED_LOCKEDWAIT, DISABLE_PEND, CANCEL_DISABLE_PEND, DISCONNECT_PEND,
           RECLAIMSPACE_PEND
<1>1. CASE TermInvalid(s)
  BY <1>1
<1>2. CASE ~TermInvalid(s)
  BY <1>2
<1> QED
  BY <1>1, <1>2

(* iesq_initWaiter does not lock.                                          *)
LEMMA InitKeeps ==
  ASSUME NEW s \in Status
  PROVE  Keeps(s, InitTo(s)) /\ InitTo(s) \in Status
BY DEF InitTo, Keeps, CancelHasDisable, GetShape, DeliverShape,
           DisableShape, DisconnectShape, IsLocked, LOCKED, PENDING, PendingStatus, ACTIVE, Status,
           WS_DISCONNECTED, WS_DISABLED, WS_ENABLED, WS_GETTING, WS_DELIVERING,
           WS_DISABLED_LOCKEDWAIT, DISABLE_PEND, CANCEL_DISABLE_PEND, DISCONNECT_PEND,
           RECLAIMSPACE_PEND

(* A step that leaves the status alone keeps it.                           *)
LEMMA KeepsReflexive == \A s : Keeps(s, s)
BY DEF Keeps

-----------------------------------------------------------------------------
(* Transitions of the owner *)

(* iews_addPendFlagWhileLocked                                             *)
LEMMA AddDisable ==
  ASSUME NEW s \in DeliverShape
  PROVE  AddPendFlag(s, DISABLE_PEND) \in DisableShape
BY DEF AddPendFlag, Keeps, CancelHasDisable, GetShape, DeliverShape,
           DisableShape, DisconnectShape, IsLocked, LOCKED, PENDING, PendingStatus, ACTIVE, Status,
           WS_DISCONNECTED, WS_DISABLED, WS_ENABLED, WS_GETTING, WS_DELIVERING,
           WS_DISABLED_LOCKEDWAIT, DISABLE_PEND, CANCEL_DISABLE_PEND, DISCONNECT_PEND,
           RECLAIMSPACE_PEND

(* Clearing the reclaim flag leaves the flag the owner is working on.      *)
LEMMA ClearReclaimKeeps ==
  ASSUME NEW s
  PROVE  /\ s \in DisableShape =>
              s \ {RECLAIMSPACE_PEND} \in DisableShape
         /\ s \in DisconnectShape => s \ {RECLAIMSPACE_PEND} \in DisconnectShape
         /\ CancelHasDisable(s) => CancelHasDisable(s \ {RECLAIMSPACE_PEND})
BY DEF Keeps, CancelHasDisable, GetShape, DeliverShape,
           DisableShape, DisconnectShape, IsLocked, LOCKED, PENDING, PendingStatus, ACTIVE, Status,
           WS_DISCONNECTED, WS_DISABLED, WS_ENABLED, WS_GETTING, WS_DELIVERING,
           WS_DISABLED_LOCKEDWAIT, DISABLE_PEND, CANCEL_DISABLE_PEND, DISCONNECT_PEND,
           RECLAIMSPACE_PEND

(* With no disable among the flags, and more than a reclaim, the request   *)
(* is a disconnect.                                                        *)
LEMMA DisconnectIsLeft ==
  ASSUME NEW s \in PendingStatus, CancelHasDisable(s), DISABLE_PEND \notin s,
         s # {RECLAIMSPACE_PEND}
  PROVE  s \in DisconnectShape
BY DEF Keeps, CancelHasDisable, GetShape, DeliverShape,
           DisableShape, DisconnectShape, IsLocked, LOCKED, PENDING, PendingStatus, ACTIVE, Status,
           WS_DISCONNECTED, WS_DISABLED, WS_ENABLED, WS_GETTING, WS_DELIVERING,
           WS_DISABLED_LOCKEDWAIT, DISABLE_PEND, CANCEL_DISABLE_PEND, DISCONNECT_PEND,
           RECLAIMSPACE_PEND

(* The shapes are statuses in which the lock is held.                      *)
LEMMA ShapesAreLocked ==
  /\ \A s \in GetShape \cup DeliverShape \cup PendingStatus \cup DisableShape
             \cup DisconnectShape \cup {WS_DISABLED_LOCKEDWAIT} : IsLocked(s) /\ s \in Status
  /\ DisableShape \subseteq PendingStatus
  /\ DisconnectShape \subseteq PendingStatus
BY DEF Keeps, CancelHasDisable, GetShape, DeliverShape,
           DisableShape, DisconnectShape, IsLocked, LOCKED, PENDING, PendingStatus, ACTIVE, Status,
           WS_DISCONNECTED, WS_DISABLED, WS_ENABLED, WS_GETTING, WS_DELIVERING,
           WS_DISABLED_LOCKEDWAIT, DISABLE_PEND, CANCEL_DISABLE_PEND, DISCONNECT_PEND,
           RECLAIMSPACE_PEND

-----------------------------------------------------------------------------
(* The inductive invariant.                                                *)

(* What the local variables of a thread hold where they are used.          *)
LocalsMeet(t) ==
  /\ pc[t] \in {"putTry", "putToWaitingGetter", "enqueue", "count", "addExpiry"} =>
       loc[t].cur \in Msgs
  /\ pc[t] \in {"createConnect", "createLink"} => loc[t].con \in Consumers
  /\ pc[t] \in {"deliver", "reenable", "pend"} => loc[t].after \in {"check", "checkLock"}
  /\ pc[t] \in {"waiterDisabledCB", "endStop"} => loc[t].after \in {"disabling", "disconnect"}
  /\ pc[t] = "reclaim" =>
       loc[t].after \in {"unlock", "completeUnlock", "disabling", "disconnecting"}
  /\ \/ pc[t] \in {"reapWork", "unlock"}
     \/ pc[t] = "reclaim" /\ loc[t].after = "unlock"
     => loc[t].old \in {WS_DISCONNECTED, WS_DISABLED, WS_ENABLED}

(* What a queue operation finds in the status it locked.                   *)
QOpShape(old) == IF old = WS_ENABLED THEN DeliverShape ELSE {WS_DISABLED_LOCKEDWAIT}

(* What the owner of the lock finds in the waiter status, one step further *)
(* back than OwnerStatus: the flags a step will act on are there while the *)
(* owner is still in the callback or the discard that comes before it.     *)
StatusMeets(t) ==
  /\ pc[t] \in {"get", "got", "empty"} => waiterStatus \in GetShape
  /\ pc[t] \in {"deliver", "reenable", "pend", "completeUnlock"} => waiterStatus \in DeliverShape
  /\ pc[t] = "complete" => waiterStatus \in PendingStatus
  /\ pc[t] \in {"disabling", "suspended"} => waiterStatus \in DisableShape
  /\ pc[t] \in {"disconnect", "disconnecting"} => waiterStatus \in DisconnectShape
  /\ pc[t] \in {"reapWork", "unlock"} => waiterStatus \in QOpShape(loc[t].old)
  /\ pc[t] \in {"waiterDisabledCB", "endStop"} =>
       waiterStatus \in IF loc[t].after = "disabling" THEN DisableShape ELSE DisconnectShape
  /\ pc[t] = "reclaim" =>
       /\ loc[t].after = "unlock" => waiterStatus \in QOpShape(loc[t].old)
       /\ loc[t].after = "completeUnlock" => waiterStatus \in DeliverShape
       /\ loc[t].after = "disabling" => waiterStatus \in DisableShape
       /\ loc[t].after = "disconnecting" => waiterStatus \in DisconnectShape
  /\ cb[t] # NoCb => waiterStatus \in DeliverShape

ThreadInv(t) ==
  /\ pc[t] \in LockPcs => cb[t] = NoCb
  /\ pc[t] = "suspended" => cb[t] # NoCb
  /\ pc[t] # "ffdc"
  /\ LocalsMeet(t)
  /\ StatusMeets(t)

(* The inductive invariant.                                                *)
LockInv ==
  /\ LockExclusion
  /\ CancelHasDisable(waiterStatus)
  /\ \A t \in Threads : ThreadInv(t)

Inv == TypeOK /\ LockInv

----------------------------------------------------------------------------
(* The stack of a thread *)

(* A frame is pushed on a stack.                                           *)
LEMMA PushType ==
  ASSUME NEW S, NEW f \in S, NEW s \in Seq(S)
  PROVE  <<f>> \o s \in Seq(S)
BY ConcatProperties

(* The frame of a call returns to a point that makes calls.                *)
LEMMA FrameAtType ==
  ASSUME ThreadTypeOK, NEW t \in Threads, NEW r \in ReturnPcs
  PROVE  FrameAt(t, r) \in Frame
BY DEF ThreadTypeOK, FrameAt, Frame, Locals

(* The locals of one thread are replaced.                                  *)
LEMMA LocalsUpdate ==
  ASSUME loc \in [Threads -> Locals], NEW t \in Threads, NEW r \in Locals,
         loc' = [loc EXCEPT ![t] = r]
  PROVE  /\ loc' \in [Threads -> Locals]
         /\ loc'[t] = r
         /\ \A u \in Threads : u # t => loc'[u] = loc[u]
OBVIOUS

(* A function returns to its caller, or out of the engine.                 *)
LEMMA ReturnType ==
  ASSUME ThreadTypeOK, NEW t \in Threads, Return(t)
  PROVE  /\ pc' \in [Threads -> LockPcs \cup FreePcs]
         /\ pc' = [pc EXCEPT ![t] = pc'[t]]
         /\ pc'[t] \in ReturnPcs \cup {"idle"}
         /\ stack' \in [Threads -> Seq(Frame)]
         /\ loc' \in [Threads -> Locals]
<1>1. CASE stack[t] = <<>>
  <2>1. InitLoc \in Locals
    BY DEF InitLoc, Locals, FreePcs, Status
  <2>2. "idle" \in FreePcs
    BY DEF FreePcs
  <2>3. pc' = [pc EXCEPT ![t] = "idle"] /\ loc' = [loc EXCEPT ![t] = InitLoc] /\ stack' = stack
    BY <1>1 DEF Return, Goto
  <2> QED
    BY <2>1, <2>2, <2>3 DEF ThreadTypeOK
<1>2. CASE stack[t] # <<>>
  <2> DEFINE f == Head(stack[t])
  <2>1. f \in Frame /\ Tail(stack[t]) \in Seq(Frame)
    BY <1>2, HeadTailProperties DEF ThreadTypeOK
  <2>2. f.pc \in ReturnPcs /\ f.con \in Consumers \cup {NoConsumer} /\ f.cur \in Msgs \cup {NoMsg}
    BY <2>1 DEF Frame
  <2>3. loc' = [loc EXCEPT ![t].con = f.con, ![t].cur = f.cur]
    BY <1>2 DEF Return
  <2>4. loc' \in [Threads -> Locals]
    <3> HIDE DEF f
    <3> DEFINE r == [loc[t] EXCEPT !.con = f.con, !.cur = f.cur]
    <3>1. loc \in [Threads -> Locals]
      BY DEF ThreadTypeOK
    <3>2. r \in Locals
      BY <2>2, <3>1 DEF Locals
    <3>3. loc' = [loc EXCEPT ![t] = r]
      BY <2>3, <3>1
    <3> HIDE DEF r
    <3> QED
      BY <3>1, <3>2, <3>3, LocalsUpdate
  <2>5. pc' = [pc EXCEPT ![t] = f.pc] /\ stack' = [stack EXCEPT ![t] = Tail(@)]
    BY <1>2 DEF Return, Goto
  <2> QED
    BY <2>1, <2>2, <2>4, <2>5 DEF ThreadTypeOK, FreePcs, ReturnPcs
<1> QED
  BY <1>1, <1>2

(* A frame on top of a thread's stack.                                     *)
LEMMA StackType ==
  ASSUME ThreadTypeOK, NEW t \in Threads, NEW f \in Frame,
         stack' = [stack EXCEPT ![t] = <<f>> \o @]
  PROVE  stack' \in [Threads -> Seq(Frame)]
<1>1. <<f>> \o stack[t] \in Seq(Frame)
  BY PushType DEF ThreadTypeOK
<1> QED
  BY <1>1 DEF ThreadTypeOK

(* A call of another function.                                             *)
LEMMA CallType ==
  ASSUME ThreadTypeOK, NEW t \in Threads, NEW l \in FreePcs, NEW r \in ReturnPcs, Call(t, l, r)
  PROVE  /\ pc' \in [Threads -> LockPcs \cup FreePcs]
         /\ pc' = [pc EXCEPT ![t] = l]
         /\ stack' \in [Threads -> Seq(Frame)]
<1>1. FrameAt(t, r) \in Frame
  BY FrameAtType
<1>2. stack' = [stack EXCEPT ![t] = <<FrameAt(t, r)>> \o @]
  BY DEF Call, Push
<1>3. stack' \in [Threads -> Seq(Frame)]
  BY <1>1, <1>2, StackType
<1> QED
  BY <1>3 DEF Call, Goto, ThreadTypeOK

(* A call of completeWaiterActions that returns to the frames given.       *)
LEMMA CallCompleteType ==
  ASSUME ThreadTypeOK, NEW t \in Threads, NEW fs \in Seq(Frame),
         NEW c \in Consumers \cup {NoConsumer}, NEW w, NEW d, w \in BOOLEAN, d \in BOOLEAN,
         CallComplete(t, fs, c, w, d)
  PROVE  /\ pc' \in [Threads -> LockPcs \cup FreePcs]
         /\ pc' = [pc EXCEPT ![t] = "complete"]
         /\ stack' \in [Threads -> Seq(Frame)]
         /\ loc' \in [Threads -> Locals]
<1>1. loc' = [loc EXCEPT ![t].con = c, ![t].wasEnabled = w, ![t].deliver = d]
  BY DEF CallComplete
<1>2. loc' \in [Threads -> Locals]
  <2>1. loc \in [Threads -> Locals]
    BY DEF ThreadTypeOK
  <2> DEFINE r == [loc[t] EXCEPT !.con = c, !.wasEnabled = w, !.deliver = d]
  <2>2. r \in Locals
    BY <2>1 DEF Locals
  <2>3. loc' = [loc EXCEPT ![t] = r]
    BY <1>1, <2>1
  <2> HIDE DEF r
  <2> QED
    BY <2>1, <2>2, <2>3, LocalsUpdate
<1>3. pc' = [pc EXCEPT ![t] = "complete"] /\ stack' = [stack EXCEPT ![t] = fs]
  BY DEF CallComplete, Goto
<1>4. "complete" \in LockPcs
  BY DEF LockPcs
<1> QED
  BY <1>2, <1>3, <1>4 DEF ThreadTypeOK

----------------------------------------------------------------------------
(* The nodes of the queue and the consumers of the session *)

(* A suffix of a sequence.                                                 *)
LEMMA SuffixType ==
  ASSUME NEW S, NEW s \in Seq(S), NEW i \in DOMAIN s
  PROVE  SubSeq(s, i, Len(s)) \in Seq(S)
<1>1. i \in 1 .. Len(s) /\ Len(s) \in Nat
  BY LenProperties
<1>2. i \in Int /\ Len(s) \in Int
  BY <1>1
<1>3. \A j \in i .. Len(s) : s[j] \in S
  BY <1>1, ElementOfSeq
<1> QED
  BY <1>2, <1>3, SubSeqProperties

(* A set of natural numbers that is not empty has a least element.         *)
LEMMA LeastElement ==
  ASSUME NEW K, K \subseteq Nat, K # {}
  PROVE  \E i \in K : \A j \in K : i <= j
<1> DEFINE R == OpToRel(<, Nat)
<1>1. \E x \in K : \A y \in K : ~(<<y, x>> \in R)
  <2>1. IsWellFoundedOn(R, Nat)
    BY NatLessThanWellFounded
  <2> HIDE DEF R
  <2> QED
    BY <2>1, WFMin
<1>2. PICK x \in K : \A y \in K : ~(<<y, x>> \in R)
  BY <1>1
<1>3. \A y \in K : ~(y < x)
  BY <1>2 DEF OpToRel
<1> QED
  BY <1>3

(* iesq_scanGetCursor leaves a suffix of the queue.                        *)
LEMMA SkipRemovedType ==
  ASSUME NEW ns \in Seq(NodeRecord)
  PROVE  SkipRemoved(ns) \in Seq(NodeRecord)
<1> DEFINE kept == {i \in DOMAIN ns : ns[i].state # "removed"}
<1>1. CASE kept = {}
  BY <1>1, EmptySeq DEF SkipRemoved
<1>2. CASE kept # {}
  <2> DEFINE k == CHOOSE i \in kept : \A j \in kept : i <= j
  <2>1. kept \subseteq Nat /\ kept \subseteq DOMAIN ns
    BY LenProperties
  <2>2. \E i \in kept : \A j \in kept : i <= j
    BY <1>2, <2>1, LeastElement
  <2>3. k \in DOMAIN ns
    BY <2>1, <2>2
  <2> HIDE DEF k
  <2>4. SubSeq(ns, k, Len(ns)) \in Seq(NodeRecord)
    BY <2>3, SuffixType
  <2> QED
    BY <1>2, <2>4 DEF SkipRemoved, k
<1> QED
  BY <1>1, <1>2

(* The walk along the consumers of the session.                            *)
LEMMA NextConsumerType ==
  ASSUME SessionTypeOK, NEW c
  PROVE  NextConsumer(c) \in Consumers \cup {NoConsumer}
<1>1. session.list \in Seq(Consumers)
  BY DEF SessionTypeOK, SessionRecord
<1>2. \A i \in DOMAIN session.list : session.list[i] \in Consumers
  BY <1>1, LenProperties, ElementOfSeq
<1> QED
  BY <1>2 DEF NextConsumer

(* Unlinking a consumer from the list.                                     *)
LEMMA WithoutType ==
  ASSUME NEW list \in Seq(Consumers), NEW c
  PROVE  Without(list, c) \in Seq(Consumers)
<1> DEFINE at == {i \in DOMAIN list : list[i] = c}
           k  == CHOOSE i \in at : TRUE
<1>1. CASE at = {}
  BY <1>1 DEF Without
<1>2. CASE at # {}
  <2>1. k \in DOMAIN list
    BY <1>2
  <2>2. Len(list) \in Nat /\ DOMAIN list = 1 .. Len(list)
    BY LenProperties
  <2> HIDE DEF k
  <2>3. k \in 1 .. Len(list)
    BY <2>1, <2>2
  <2>4. \A j \in 1 .. Len(list) : list[j] \in Consumers
    BY ElementOfSeq
  <2>5. SubSeq(list, 1, k - 1) \in Seq(Consumers)
    BY <2>2, <2>3, <2>4, SubSeqProperties
  <2>6. SubSeq(list, k + 1, Len(list)) \in Seq(Consumers)
    BY <2>2, <2>3, <2>4, SubSeqProperties
  <2>7. SubSeq(list, 1, k - 1) \o SubSeq(list, k + 1, Len(list)) \in Seq(Consumers)
    BY <2>5, <2>6, ConcatProperties
  <2> QED
    BY <1>2, <2>7 DEF Without, k
<1> QED
  BY <1>1, <1>2

(* Taking the first message.                                               *)
LEMMA TakeHeadType ==
  ASSUME QueueTypeOK, HeadReady(SkipRemoved(nodes))
  PROVE  /\ Tail(SkipRemoved(nodes)) \in Seq(NodeRecord)
         /\ Head(SkipRemoved(nodes)).msg \in Msgs
<1>1. SkipRemoved(nodes) \in Seq(NodeRecord)
  BY SkipRemovedType DEF QueueTypeOK
<1>2. Head(SkipRemoved(nodes)) \in NodeRecord /\ Tail(SkipRemoved(nodes)) \in Seq(NodeRecord)
  BY <1>1, HeadTailProperties DEF HeadReady
<1> QED
  BY <1>2 DEF NodeRecord

(* Changing the states of some nodes.                                      *)
LEMMA MapNodesType ==
  ASSUME NEW ns \in Seq(NodeRecord), NEW S, NEW st \in {"empty", "full", "removed"}
  PROVE  [i \in DOMAIN ns |-> IF ns[i].msg \in S THEN [ns[i] EXCEPT !.state = st] ELSE ns[i]]
           \in Seq(NodeRecord)
<1> DEFINE f == [i \in DOMAIN ns |-> IF ns[i].msg \in S THEN [ns[i] EXCEPT !.state = st] ELSE ns[i]]
<1>1. Len(ns) \in Nat /\ DOMAIN ns = 1 .. Len(ns)
  BY LenProperties
<1>2. \A i \in 1 .. Len(ns) : ns[i] \in NodeRecord
  BY ElementOfSeq
<1>3. f \in [1 .. Len(ns) -> NodeRecord]
  BY <1>1, <1>2 DEF NodeRecord
<1> HIDE DEF f
<1>4. f \in Seq(NodeRecord)
  BY <1>1, <1>3, SeqDef
<1> QED
  BY <1>4 DEF f

(* A use count goes up or down by one.                                     *)
LEMMA CountType ==
  ASSUME NEW S, NEW f \in [S -> Int], NEW c
  PROVE  [f EXCEPT ![c] = @ + 1] \in [S -> Int] /\ [f EXCEPT ![c] = @ - 1] \in [S -> Int]
<1>1. CASE c \in S
  BY <1>1
<1>2. CASE c \notin S
  BY <1>2
<1> QED
  BY <1>1, <1>2

(* The updates of several fields of the session at once.                   *)
LEMMA SessionUpdates ==
  ASSUME NEW s \in SessionRecord, NEW t \in Threads
  PROVE  /\ [s EXCEPT !.stopping = FALSE, !.useCount = @ - 1] \in SessionRecord
         /\ [s EXCEPT !.started = FALSE, !.stopping = TRUE] \in SessionRecord
         /\ ReducePreNackAll(s) \in SessionRecord
         /\ [s EXCEPT !.lock = t, !.started = TRUE, !.useCount = @ + 1, !.activeCallbacks = @ + 1]
              \in SessionRecord
         /\ [s EXCEPT !.lock = t] \in SessionRecord
         /\ [s EXCEPT !.lock = NoThread] \in SessionRecord
<1>1. s.useCount \in Int /\ s.activeCallbacks \in Int /\ s.preNackAll \in Int
  BY DEF SessionRecord
<1>2. s.useCount - 1 \in Int /\ s.preNackAll - 1 \in Int /\ s.useCount + 1 \in Int /\ s.activeCallbacks + 1 \in Int
  BY <1>1
<1>3. [s EXCEPT !.stopping = FALSE, !.useCount = @ - 1] \in SessionRecord
  BY <1>2 DEF SessionRecord
<1>4. [s EXCEPT !.started = FALSE, !.stopping = TRUE] \in SessionRecord
  BY DEF SessionRecord
<1>5. ReducePreNackAll(s) \in SessionRecord
  BY <1>1, <1>2 DEF SessionRecord, ReducePreNackAll
<1>6. [s EXCEPT !.lock = t, !.started = TRUE, !.useCount = @ + 1, !.activeCallbacks = @ + 1]
              \in SessionRecord
  BY <1>2 DEF SessionRecord
<1>7. [s EXCEPT !.lock = t] \in SessionRecord /\ [s EXCEPT !.lock = NoThread] \in SessionRecord
  BY DEF SessionRecord
<1> QED
  BY <1>3, <1>4, <1>5, <1>6, <1>7

(* The statuses the code writes itself.                                    *)
LEMMA StatusFacts ==
  /\ {WS_DISCONNECTED, WS_DISABLED, WS_ENABLED, WS_GETTING, WS_DELIVERING} \subseteq Status
  /\ {DISCONNECT_PEND} \in Status
  /\ \A s \in Status : /\ AddPendFlag(s, DISABLE_PEND) \in Status
                       /\ s \ {RECLAIMSPACE_PEND} \in Status
<1> USE DEF Status, PendingStatus, PENDING, WS_DISCONNECTED, WS_DISABLED, WS_ENABLED,
       WS_GETTING, WS_DELIVERING, WS_DISABLED_LOCKEDWAIT, DISABLE_PEND, CANCEL_DISABLE_PEND,
       DISCONNECT_PEND, RECLAIMSPACE_PEND
<1>1. {WS_DISCONNECTED, WS_DISABLED, WS_ENABLED, WS_GETTING, WS_DELIVERING} \subseteq Status
  OBVIOUS
<1>2. {DISCONNECT_PEND} \in Status
  OBVIOUS
<1>3. \A s \in Status : AddPendFlag(s, DISABLE_PEND) \in Status
  BY DEF AddPendFlag
<1>4. \A s \in Status : s \ {RECLAIMSPACE_PEND} \in Status
  OBVIOUS
<1> QED
  BY <1>1, <1>2, <1>3, <1>4

(* A call enters the engine.                                               *)
LEMMA BeginType ==
  ASSUME NEW t, NEW op \in Ops, budget \in [Ops -> Nat], Begin(t, op)
  PROVE  budget' \in [Ops -> Nat]
BY DEF Begin

----------------------------------------------------------------------------
(* Steps of one thread *)

(* A step of a thread leaves the other threads where they are.             *)
OthersStay(t) ==
  \A u \in Threads : u # t => pc'[u] = pc[u] /\ cb'[u] = cb[u] /\ loc'[u] = loc[u]

(* Points outside the lock at which nothing is expected of the locals.     *)
PlainPcs ==
  FreePcs \ {"suspended", "putTry", "putToWaitingGetter", "enqueue", "count", "addExpiry",
             "createConnect", "createLink"}

(* A step to a point outside the code that the lock protects.              *)
FreeMove(t) ==
  /\ ThreadTypeOK'
  /\ OthersStay(t)
  /\ cb'[t] = cb[t]
  /\ pc'[t] \in FreePcs \ {"suspended"}
  /\ LocalsMeet(t)'

(* The points inside the lock are none of those outside.                   *)
LEMMA PcsDisjoint ==
  /\ LockPcs \cap FreePcs = {}
  /\ ReturnPcs \subseteq PlainPcs
  /\ PlainPcs \subseteq FreePcs
BY DEF LockPcs, FreePcs, ReturnPcs, PlainPcs

(* A thread that stays where it is keeps its invariant when another adds   *)
(* flags to the status or takes them away again.                           *)
LEMMA StatusMeetsKept ==
  ASSUME NEW u \in Threads, StatusMeets(u), Keeps(waiterStatus, waiterStatus'),
         pc'[u] = pc[u], cb'[u] = cb[u], loc'[u] = loc[u]
  PROVE  StatusMeets(u)'
<1>1. \A old : waiterStatus \in QOpShape(old) => waiterStatus' \in QOpShape(old)
  BY DEF Keeps, QOpShape
<1> QED
  BY <1>1 DEF StatusMeets, Keeps

(* A step outside the lock that makes a harmless change to the status.     *)
(* (The thread may own the lock all the same: it may be in a call that the *)
(* message callback has made.)                                             *)
LEMMA FreeStep ==
  ASSUME Inv, NEW t \in Threads, pc[t] \in FreePcs \ {"suspended"}, FreeMove(t),
         Keeps(waiterStatus, waiterStatus')
  PROVE  LockInv'
<1>1. ASSUME NEW u \in Threads, u # t
      PROVE  ThreadInv(u)'
  <2>1. ThreadInv(u) /\ pc'[u] = pc[u] /\ cb'[u] = cb[u] /\ loc'[u] = loc[u]
    BY <1>1 DEF Inv, LockInv, FreeMove, OthersStay
  <2>2. StatusMeets(u)'
    BY <2>1, StatusMeetsKept DEF ThreadInv
  <2>3. LocalsMeet(u)'
    BY <2>1 DEF ThreadInv, LocalsMeet
  <2> QED
    BY <2>1, <2>2, <2>3 DEF ThreadInv
<1>2. ThreadInv(t)'
  <2>1. pc'[t] \in FreePcs \ {"suspended"} /\ LocalsMeet(t)' /\ cb'[t] = cb[t]
    BY DEF FreeMove
  <2>2. cb[t] # NoCb => waiterStatus \in DeliverShape
    BY DEF Inv, LockInv, ThreadInv, StatusMeets
  <2>3. cb'[t] # NoCb => waiterStatus' \in DeliverShape
    BY <2>1, <2>2 DEF Keeps
  <2>4. StatusMeets(t)'
    BY <2>1, <2>3 DEF StatusMeets, FreePcs
  <2> QED
    BY <2>1, <2>4 DEF ThreadInv, FreePcs, LockPcs
<1>3. \A u \in Threads : Owner(u)' <=> Owner(u)
  BY PcsDisjoint DEF Owner, FreeMove, OthersStay
<1>4. LockExclusion'
  BY <1>3 DEF LockExclusion, Inv, LockInv, Keeps
<1>5. CancelHasDisable(waiterStatus')
  BY DEF Inv, LockInv, Keeps
<1> QED
  BY <1>1, <1>2, <1>4, <1>5 DEF LockInv

(* A step that takes the lock, or is made by the thread that has it.       *)
LEMMA OwnerStep ==
  ASSUME Inv, NEW t \in Threads, OthersStay(t),
         Owner(t) \/ ~IsLocked(waiterStatus),
         IsLocked(waiterStatus') <=> Owner(t)',
         CancelHasDisable(waiterStatus'),
         ThreadInv(t)'
  PROVE  LockInv'
<1>1. \A u \in Threads : u # t => ~Owner(u)
  BY DEF Inv, LockInv, LockExclusion
<1>2. \A u \in Threads : u # t => ~Owner(u)'
  BY <1>1 DEF Owner, OthersStay
<1>3. LockExclusion'
  BY <1>2 DEF LockExclusion
<1>4. ASSUME NEW u \in Threads, u # t
      PROVE  ThreadInv(u)'
  <2>1. ThreadInv(u) /\ pc'[u] = pc[u] /\ cb'[u] = cb[u] /\ loc'[u] = loc[u]
    BY <1>4 DEF Inv, LockInv, OthersStay
  <2>2. pc[u] \notin LockPcs \cup {"suspended"} /\ cb[u] = NoCb
    BY <1>1, <1>4, <2>1 DEF Owner, ThreadInv
  <2>3. StatusMeets(u)'
    BY <2>1, <2>2 DEF StatusMeets, LockPcs
  <2>4. LocalsMeet(u)'
    BY <2>1 DEF ThreadInv, LocalsMeet
  <2> QED
    BY <2>1, <2>2, <2>3, <2>4 DEF ThreadInv
<1> QED
  BY <1>3, <1>4 DEF LockInv

----------------------------------------------------------------------------
(* The ways to make a step outside the lock *)

(* Going on to a plain point.                                              *)
LEMMA GotoMove ==
  ASSUME ThreadTypeOK, NEW t \in Threads,
         NEW l \in PlainPcs, Goto(t, l), UNCHANGED <<stack, cb, loc>>
  PROVE  FreeMove(t)
<1>1. pc' = [pc EXCEPT ![t] = l] /\ l \in FreePcs \ {"suspended"}
  BY PcsDisjoint DEF Goto, PlainPcs
<1>2. ThreadTypeOK' /\ OthersStay(t) /\ pc'[t] = l
  BY <1>1 DEF ThreadTypeOK, OthersStay
<1>3. LocalsMeet(t)'
  BY <1>2 DEF LocalsMeet, PlainPcs, FreePcs
<1> QED
  BY <1>1, <1>2, <1>3 DEF FreeMove

(* Going on with the message being put or the consumer being created.     *)
LEMMA CarryMove ==
  ASSUME ThreadTypeOK, NEW t \in Threads,
         NEW l \in FreePcs \ {"suspended"}, Goto(t, l), UNCHANGED <<stack, cb, loc>>,
         l \in {"putToWaitingGetter", "enqueue", "count", "addExpiry"} => loc[t].cur \in Msgs,
         l = "createLink" => loc[t].con \in Consumers,
         l \notin {"putTry", "createConnect"}
  PROVE  FreeMove(t)
<1>1. pc' = [pc EXCEPT ![t] = l]
  BY DEF Goto
<1>2. ThreadTypeOK' /\ OthersStay(t) /\ pc'[t] = l
  BY <1>1 DEF ThreadTypeOK, OthersStay
<1>3. LocalsMeet(t)'
  BY <1>2 DEF LocalsMeet, FreePcs
<1> QED
  BY <1>1, <1>2, <1>3 DEF FreeMove

(* Returning to the caller.                                                *)
LEMMA ReturnMove ==
  ASSUME ThreadTypeOK, NEW t \in Threads,
         Return(t), UNCHANGED cb
  PROVE  FreeMove(t)
<1>1. /\ pc' \in [Threads -> LockPcs \cup FreePcs]
      /\ pc' = [pc EXCEPT ![t] = pc'[t]]
      /\ pc'[t] \in ReturnPcs \cup {"idle"}
      /\ stack' \in [Threads -> Seq(Frame)]
      /\ loc' \in [Threads -> Locals]
  BY ReturnType
<1>2. ThreadTypeOK'
  BY <1>1 DEF ThreadTypeOK
<1>3. \A u \in Threads : u # t => loc'[u] = loc[u]
  BY DEF Return, ThreadTypeOK
<1>4. OthersStay(t)
  BY <1>1, <1>3 DEF OthersStay, ThreadTypeOK
<1>5. pc'[t] \in PlainPcs /\ pc'[t] \in FreePcs \ {"suspended"}
  BY <1>1 DEF PlainPcs, FreePcs, ReturnPcs
<1>6. LocalsMeet(t)'
  BY <1>5 DEF LocalsMeet, PlainPcs, FreePcs
<1> QED
  BY <1>2, <1>4, <1>5, <1>6 DEF FreeMove

(* Calling another function.                                               *)
LEMMA CallMove ==
  ASSUME ThreadTypeOK, NEW t \in Threads,
         NEW l \in PlainPcs, NEW r \in ReturnPcs, Call(t, l, r), UNCHANGED <<cb, loc>>
  PROVE  FreeMove(t)
<1>1. l \in FreePcs \ {"suspended"}
  BY DEF PlainPcs
<1>2. /\ pc' \in [Threads -> LockPcs \cup FreePcs]
      /\ pc' = [pc EXCEPT ![t] = l]
      /\ stack' \in [Threads -> Seq(Frame)]
  BY <1>1, CallType
<1>3. ThreadTypeOK' /\ OthersStay(t) /\ pc'[t] = l
  BY <1>2 DEF ThreadTypeOK, OthersStay
<1>4. LocalsMeet(t)'
  BY <1>3 DEF LocalsMeet, PlainPcs, FreePcs
<1> QED
  BY <1>1, <1>3, <1>4 DEF FreeMove

(* Going on with a consumer in hand and a frame for it on the stack.       *)
LEMMA WalkMove ==
  ASSUME ThreadTypeOK, NEW t \in Threads,
         NEW l \in PlainPcs, Goto(t, l),
         NEW c \in Consumers \cup {NoConsumer}, loc' = [loc EXCEPT ![t].con = c],
         NEW s \in Seq(Frame), stack' = [stack EXCEPT ![t] = s], UNCHANGED cb
  PROVE  FreeMove(t)
<1>1. pc' = [pc EXCEPT ![t] = l] /\ l \in FreePcs \ {"suspended"}
  BY PcsDisjoint DEF Goto, PlainPcs
<1>2. loc' \in [Threads -> Locals] /\ \A u \in Threads : u # t => loc'[u] = loc[u]
  <2>1. loc \in [Threads -> Locals]
    BY DEF ThreadTypeOK
  <2> QED
    BY <2>1 DEF Locals
<1>3. ThreadTypeOK' /\ OthersStay(t) /\ pc'[t] = l
  BY <1>1, <1>2 DEF ThreadTypeOK, OthersStay
<1>4. LocalsMeet(t)'
  BY <1>3 DEF LocalsMeet, PlainPcs, FreePcs
<1> QED
  BY <1>1, <1>3, <1>4 DEF FreeMove

(* A frame for a given consumer on top of the stack.                       *)
LEMMA WalkStack ==
  ASSUME ThreadTypeOK, NEW t \in Threads, NEW r \in ReturnPcs,
         NEW c \in Consumers \cup {NoConsumer}
  PROVE  <<[FrameAt(t, r) EXCEPT !.con = c]>> \o stack[t] \in Seq(Frame)
<1>1. [FrameAt(t, r) EXCEPT !.con = c] \in Frame
  BY FrameAtType DEF Frame
<1>2. stack[t] \in Seq(Frame)
  BY DEF ThreadTypeOK
<1> QED
  BY <1>1, <1>2, PushType

(* The invariant after a step outside the lock.                            *)
LEMMA FreeInv ==
  ASSUME Inv, NEW t \in Threads, pc[t] \in FreePcs \ {"suspended"}, FreeMove(t),
         Keeps(waiterStatus, waiterStatus'),
         QueueTypeOK', ConsumerTypeOK', SessionTypeOK', MsgTypeOK'
  PROVE  Inv'
BY FreeStep DEF FreeMove, Inv, TypeOK

----------------------------------------------------------------------------
(* The ways to make a step inside the lock *)

(* A step to a point inside the lock, outside the message callback.        *)
HoldMove(t, l) ==
  ThreadTypeOK' /\ OthersStay(t) /\ pc'[t] = l /\ cb'[t] = NoCb

(* What the invariant says of the thread that makes a step.                *)
LEMMA ThreadFacts ==
  ASSUME Inv, NEW t \in Threads
  PROVE  /\ ThreadTypeOK /\ LocalsMeet(t) /\ StatusMeets(t)
         /\ waiterStatus \in Status /\ CancelHasDisable(waiterStatus)
         /\ pc[t] \in LockPcs => Owner(t) /\ cb[t] = NoCb
         /\ ~IsLocked(waiterStatus) => cb[t] = NoCb
         /\ Owner(t) => IsLocked(waiterStatus)
         /\ pc[t] = "suspended" => cb[t] # NoCb
BY DEF Inv, TypeOK, QueueTypeOK, LockInv, LockExclusion, ThreadInv, Owner

(* The owner goes on inside the lock.                                      *)
LEMMA GotoHold ==
  ASSUME ThreadTypeOK, NEW t \in Threads, NEW l \in LockPcs, Goto(t, l), UNCHANGED <<stack, cb>>,
         cb[t] = NoCb, loc' \in [Threads -> Locals],
         \A u \in Threads : u # t => loc'[u] = loc[u]
  PROVE  HoldMove(t, l)
BY DEF HoldMove, Goto, ThreadTypeOK, OthersStay

(* The invariant after a step to a point inside the lock.                  *)
LEMMA HoldInv ==
  ASSUME Inv, NEW t \in Threads, NEW l \in LockPcs \ {"ffdc"}, HoldMove(t, l),
         Owner(t) \/ ~IsLocked(waiterStatus),
         IsLocked(waiterStatus'), CancelHasDisable(waiterStatus'),
         LocalsMeet(t)', StatusMeets(t)',
         QueueTypeOK', ConsumerTypeOK', SessionTypeOK', MsgTypeOK'
  PROVE  Inv'
<1>1. ThreadInv(t)' /\ Owner(t)'
  BY DEF HoldMove, ThreadInv, Owner, LockPcs
<1>2. LockInv'
  BY <1>1, OwnerStep DEF HoldMove
<1> QED
  BY <1>2 DEF HoldMove, Inv, TypeOK

(* The invariant after the owner has unlocked.                             *)
LEMMA UnlockInv ==
  ASSUME Inv, NEW t \in Threads, pc[t] \in LockPcs, FreeMove(t),
         waiterStatus' \in {WS_DISCONNECTED, WS_DISABLED, WS_ENABLED},
         QueueTypeOK', ConsumerTypeOK', SessionTypeOK', MsgTypeOK'
  PROVE  Inv'
<1>1. ~IsLocked(waiterStatus') /\ CancelHasDisable(waiterStatus')
  BY StatusBits DEF CancelHasDisable, WS_DISCONNECTED, WS_DISABLED, WS_ENABLED,
     CANCEL_DISABLE_PEND
<1>2. Owner(t) /\ cb[t] = NoCb
  BY ThreadFacts
<1>3. pc'[t] \in FreePcs \ {"suspended"} /\ cb'[t] = NoCb /\ LocalsMeet(t)'
  BY <1>2 DEF FreeMove
<1>4. ~Owner(t)'
  BY <1>3, PcsDisjoint DEF Owner
<1>5. StatusMeets(t)'
  BY <1>3 DEF StatusMeets, FreePcs
<1>6. ThreadInv(t)'
  BY <1>3, <1>5 DEF ThreadInv, FreePcs, LockPcs
<1>7. LockInv'
  BY <1>1, <1>2, <1>4, <1>6, OwnerStep DEF FreeMove
<1> QED
  BY <1>7 DEF FreeMove, Inv, TypeOK

(* Handing the lock to completeWaiterActions.                              *)
LEMMA CompleteMove ==
  ASSUME ThreadTypeOK, NEW t \in Threads, NEW fs \in Seq(Frame),
         NEW c \in Consumers \cup {NoConsumer}, NEW w, NEW d, w \in BOOLEAN, d \in BOOLEAN,
         CallComplete(t, fs, c, w, d), UNCHANGED cb, cb[t] = NoCb
  PROVE  HoldMove(t, "complete")
<1>1. /\ pc' \in [Threads -> LockPcs \cup FreePcs]
      /\ pc' = [pc EXCEPT ![t] = "complete"]
      /\ stack' \in [Threads -> Seq(Frame)]
      /\ loc' \in [Threads -> Locals]
  BY CallCompleteType
<1>2. \A u \in Threads : u # t => loc'[u] = loc[u]
  BY DEF CallComplete, ThreadTypeOK
<1> QED
  BY <1>1, <1>2 DEF HoldMove, OthersStay, ThreadTypeOK

(* The invariant when completeWaiterActions starts.                        *)
LEMMA CompleteInv ==
  ASSUME Inv, NEW t \in Threads, HoldMove(t, "complete"),
         Owner(t) \/ ~IsLocked(waiterStatus),
         waiterStatus' \in PendingStatus, CancelHasDisable(waiterStatus'),
         QueueTypeOK', ConsumerTypeOK', SessionTypeOK', MsgTypeOK'
  PROVE  Inv'
<1>1. IsLocked(waiterStatus')
  BY StatusBits
<1>2. LocalsMeet(t)' /\ StatusMeets(t)'
  BY DEF HoldMove, LocalsMeet, StatusMeets
<1>3. "complete" \in LockPcs \ {"ffdc"}
  BY DEF LockPcs
<1> QED
  BY <1>1, <1>2, <1>3, HoldInv

(* The frame to which completeWaiterActions returns.                       *)
LEMMA FrameStack ==
  ASSUME ThreadTypeOK, NEW t \in Threads, NEW r \in ReturnPcs
  PROVE  <<FrameAt(t, r)>> \o stack[t] \in Seq(Frame)
<1>1. FrameAt(t, r) \in Frame /\ stack[t] \in Seq(Frame)
  BY FrameAtType DEF ThreadTypeOK
<1> QED
  BY <1>1, PushType
=============================================================================
