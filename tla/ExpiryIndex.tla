----------------------------- MODULE ExpiryIndex -----------------------------
(***************************************************************************)
(* The record a simple queue keeps of its messages with an expiry time     *)
(* (iemeQueueExpiryData_t in messageExpiry.[ch]): a count, and an array of *)
(* those that expire first, no longer than NUM_EARLIEST_MESSAGES; and the  *)
(* queue's membership of the list of queues that the reaper thread visits. *)
(*                                                                         *)
(* Three locks meet here: the lock of the reaper's list, the waiter status *)
(* of the queue (module WaiterStatus; here only who holds it and whether   *)
(* the waiter is enabled) and the mutex of the record.  Putters and        *)
(* getters take the list lock last, the reaper takes it first.             *)
(***************************************************************************)
EXTENDS Integers, Sequences, FiniteSets, SequencesExt

CONSTANTS
  Threads,               \* threads that put, get and reap for a put
  Reaper,                \* the reaper thread
  Msgs,                  \* messages; each is put at most once
  Expiry,                \* Header.Expiry of each message, 0 for none
  MaxTime,               \* bound on the clock
  NUM_EARLIEST_MESSAGES,
  RacingScan,            \* TRUE: a full scan may run while a put is storing
  RacingFree,            \* TRUE: the queue may be freed while the reaper is with it
  NoThread, NoMsg

Expiring == {m \in Msgs : Expiry[m] # 0}

ASSUME ExpiryAssumption ==
  /\ Expiry \in [Msgs -> Nat]
  /\ NUM_EARLIEST_MESSAGES \in Nat \ {0}
  /\ MaxTime \in Nat
  /\ {RacingScan, RacingFree} \subseteq BOOLEAN
  /\ Reaper \notin Threads
  /\ NoThread \notin Threads \cup {Reaper}
  /\ NoMsg \notin Msgs

VARIABLES
  nodes,              \* the queue: a sequence of nodes
  earliest,           \* earliestExpiryMessages[0 .. messagesInArray - 1]
  messagesWithExpiry,
  onReaperList,
  listLock, waiterLock, expiryLock,
  enabled,            \* the waiter is enabled when it is not locked
  now,
  pc, cur,            \* where each thread is, and the message it has in hand
  unsent,
  freed               \* the queue, with its record and its link of the list

locks == <<listLock, waiterLock, expiryLock>>
vars  == <<nodes, earliest, messagesWithExpiry, onReaperList, locks, enabled, now, pc, cur,
           unsent, freed>>

All == Threads \cup {Reaper}

Init ==
  /\ nodes = <<>> /\ earliest = <<>> /\ messagesWithExpiry = 0 /\ onReaperList = FALSE
  /\ listLock = NoThread /\ waiterLock = NoThread /\ expiryLock = NoThread
  /\ enabled = FALSE
  /\ now = 0
  /\ pc = [t \in All |-> "idle"]
  /\ cur = [t \in All |-> NoMsg]
  /\ unsent = Msgs
  /\ freed = FALSE

Goto(t, l) == pc' = [pc EXCEPT ![t] = l]

----------------------------------------------------------------------------
(* The array *)

(* ieme_addMessageExpiryDataInternal: insert before the first entry that   *)
(* expires later, pushing the last one out of a full array; a message that *)
(* expires last is appended only if the array held them all.               *)
AddToArray(a, count, m) ==
  LET later == {i \in DOMAIN a : Expiry[m] < Expiry[a[i]]}
      first == CHOOSE i \in later : \A j \in later : i <= j
      n     == IF Len(a) < NUM_EARLIEST_MESSAGES THEN Len(a) + 1 ELSE NUM_EARLIEST_MESSAGES
  IN  IF later # {} THEN SubSeq(InsertAt(a, first, m), 1, n)
      ELSE IF Len(a) < NUM_EARLIEST_MESSAGES /\ Len(a) = count THEN Append(a, m)
      ELSE a

(* ieme_removeMessageExpiryDataInternal *)
RemoveFromArray(a, m) == SelectSeq(a, LAMBDA x : x # m)

----------------------------------------------------------------------------
(* iesq_putMessage, from the moment it has a node.  The put of a message   *)
(* is over before the message expires.                                     *)
PutMessage(t, m) ==
  /\ pc[t] = "idle"
  /\ m \in unsent
  /\ Expiry[m] = 0 \/ now < Expiry[m]
  /\ unsent' = unsent \ {m}
  /\ nodes' = Append(nodes, [msg |-> m, state |-> "empty"])
  /\ cur' = [cur EXCEPT ![t] = m]
  /\ Goto(t, IF m \in Expiring THEN "add" ELSE "store")
  /\ UNCHANGED <<earliest, messagesWithExpiry, onReaperList, locks, enabled, now, freed>>

(* ieme_addMessageExpiryData: the first message puts the queue on the list *)
(* before it is counted.                                                   *)
AddMessageExpiryData(t) ==
  /\ pc[t] = "add"
  /\ expiryLock = NoThread
  /\ earliest' = AddToArray(earliest, messagesWithExpiry, cur[t])
  /\ IF messagesWithExpiry = 0
       THEN /\ expiryLock' = t
            /\ Goto(t, "addList")
            /\ UNCHANGED messagesWithExpiry
       ELSE /\ messagesWithExpiry' = messagesWithExpiry + 1
            /\ Goto(t, "store")
            /\ UNCHANGED expiryLock
  /\ UNCHANGED <<nodes, onReaperList, listLock, waiterLock, enabled, now, cur, unsent, freed>>

AddQueueToExpiryReaperList(t) ==
  /\ pc[t] = "addList"
  /\ listLock = NoThread
  /\ onReaperList' = TRUE
  /\ messagesWithExpiry' = messagesWithExpiry + 1
  /\ expiryLock' = NoThread
  /\ Goto(t, "store")
  /\ UNCHANGED <<nodes, earliest, listLock, waiterLock, enabled, now, cur, unsent, freed>>

StoreMessage(t) ==
  /\ pc[t] = "store"
  /\ nodes' = [i \in DOMAIN nodes |->
                 IF nodes[i].msg = cur[t] THEN [nodes[i] EXCEPT !.state = "full"] ELSE nodes[i]]
  /\ cur' = [cur EXCEPT ![t] = NoMsg]
  /\ Goto(t, "stored")
  /\ UNCHANGED <<earliest, messagesWithExpiry, onReaperList, locks, enabled, now, unsent, freed>>

----------------------------------------------------------------------------
(* iesq_getMessage, by a thread that has taken the enabled waiter.         *)
SkipRemoved(ns) ==
  LET kept == {i \in DOMAIN ns : ns[i].state # "removed"}
  IN  IF kept = {} THEN <<>>
      ELSE SubSeq(ns, CHOOSE i \in kept : \A j \in kept : i <= j, Len(ns))

GetMessage(t) ==
  LET rest == SkipRemoved(nodes)
  IN  /\ pc[t] = "idle"
      /\ enabled /\ waiterLock = NoThread
      /\ rest # <<>> /\ Head(rest).state = "full"
      /\ nodes' = Tail(rest)
      /\ IF Head(rest).msg \in Expiring
           THEN /\ waiterLock' = t
                /\ cur' = [cur EXCEPT ![t] = Head(rest).msg]
                /\ Goto(t, "remove")
           ELSE UNCHANGED <<waiterLock, cur, pc>>
      /\ UNCHANGED <<earliest, messagesWithExpiry, onReaperList, listLock, expiryLock,
                     enabled, now, unsent, freed>>

(* ieme_removeMessageExpiryData: the last message takes the queue off.     *)
RemoveMessageExpiryData(t) ==
  /\ pc[t] = "remove"
  /\ expiryLock = NoThread
  /\ earliest' = RemoveFromArray(earliest, cur[t])
  /\ cur' = [cur EXCEPT ![t] = NoMsg]
  /\ IF messagesWithExpiry = 1
       THEN /\ expiryLock' = t
            /\ Goto(t, "removeList")
            /\ UNCHANGED <<messagesWithExpiry, waiterLock>>
       ELSE /\ messagesWithExpiry' = messagesWithExpiry - 1
            /\ waiterLock' = NoThread
            /\ Goto(t, "idle")
            /\ UNCHANGED expiryLock
  /\ UNCHANGED <<nodes, onReaperList, listLock, enabled, now, unsent, freed>>

RemoveQueueFromExpiryReaperList(t) ==
  /\ pc[t] = "removeList"
  /\ listLock = NoThread
  /\ onReaperList' = FALSE
  /\ messagesWithExpiry' = messagesWithExpiry - 1
  /\ expiryLock' = NoThread
  /\ waiterLock' = NoThread
  /\ Goto(t, "idle")
  /\ UNCHANGED <<nodes, earliest, listLock, enabled, now, cur, unsent, freed>>

----------------------------------------------------------------------------
(* Reaping *)

(* The record is read without its lock.                                    *)
ReapNeeded ==
  messagesWithExpiry > 0 /\ (earliest # <<>> => Expiry[earliest[1]] < now)

(* ieme_reapQExpiredMessages, by a put that finds the queue full.          *)
ReapQExpiredMessages(t) ==
  /\ pc[t] = "stored"
  /\ Goto(t, IF ReapNeeded THEN "reapLock" ELSE "idle")
  /\ UNCHANGED <<nodes, earliest, messagesWithExpiry, onReaperList, locks, enabled, now, cur,
                 unsent, freed>>

(* ieme_reapQExpiredMessagesCB, under the lock of the list.                *)
ReaperVisitsQueue ==
  /\ pc[Reaper] = "idle"
  /\ listLock = NoThread
  /\ onReaperList
  /\ ReapNeeded
  /\ listLock' = Reaper
  /\ Goto(Reaper, "reapLock")
  /\ UNCHANGED <<nodes, earliest, messagesWithExpiry, onReaperList, waiterLock, expiryLock,
                 enabled, now, cur, unsent, freed>>

(* What a thread holds of the list is given back when it leaves.           *)
ListLockLeft(t) == IF listLock = t THEN NoThread ELSE listLock

(* Fault: the reaper waits as well.                                        *)
ReaperWaitsToo(t) == ~enabled /\ waiterLock # NoThread

(* iews_tryLockForQOperation: a put waits for a disabled waiter that is    *)
(* locked; the reaper, which holds the list, neither waits nor takes an    *)
(* enabled waiter.                                                         *)
WaitsForWaiter(t) == t # Reaper /\ ~enabled /\ waiterLock # NoThread

LockForReap(t) ==
  /\ pc[t] = "reapLock"
  /\ ~WaitsForWaiter(t)
  /\ IF waiterLock = NoThread /\ (t # Reaper \/ ~enabled)
       THEN /\ waiterLock' = t
            /\ Goto(t, "reap")
            /\ UNCHANGED listLock
       ELSE /\ Goto(t, "idle")
            /\ listLock' = ListLockLeft(t)
            /\ UNCHANGED waiterLock
  /\ UNCHANGED <<nodes, earliest, messagesWithExpiry, onReaperList, expiryLock, enabled, now,
                 cur, unsent, freed>>

(* ieme_startReaperQExpiryScan gives up if the record is locked.           *)
ReapLockBusy(t) ==
  /\ pc[t] = "reap"
  /\ expiryLock # NoThread
  /\ waiterLock' = NoThread
  /\ listLock' = ListLockLeft(t)
  /\ Goto(t, "idle")
  /\ UNCHANGED <<nodes, earliest, messagesWithExpiry, onReaperList, expiryLock, enabled, now,
                 cur, unsent, freed>>

(* The entries of the array that are due: all those before the first that  *)
(* is not.  The array is enough unless every entry was due and there are   *)
(* messages that it does not hold.                                         *)
DueInArray ==
  LET early == {i \in DOMAIN earliest : Expiry[earliest[i]] > now}
  IN  IF early = {} THEN Len(earliest) ELSE (CHOOSE i \in early : \A j \in early : i <= j) - 1

(* Fault: an array that has been emptied is always enough.                 *)
ArrayAlwaysEnough == TRUE

ArrayEnough ==
  \/ DueInArray < Len(earliest)
  \/ earliest # <<>> /\ messagesWithExpiry = Len(earliest)

(* iesq_expireNode for the nodes of the messages in S; iesq_scanGetCursor  *)
(* then drops the removed nodes at the head.                               *)
ExpireNodes(ns, S) ==
  [i \in DOMAIN ns |-> IF ns[i].msg \in S THEN [ns[i] EXCEPT !.state = "removed"] ELSE ns[i]]

(* iesq_fullExpiryScan looks at the nodes before the first empty one ...   *)
Scanned(ns) ==
  LET empty == {i \in DOMAIN ns : ns[i].state = "empty"}
      end   == IF empty = {} THEN Len(ns) ELSE (CHOOSE i \in empty : \A j \in empty : i <= j) - 1
  IN  SelectSeq(SubSeq(ns, 1, end), LAMBDA n : n.state = "full" /\ n.msg \in Expiring)

Overdue(ns) ==
  {m \in Expiring : Expiry[m] < now /\ \E i \in DOMAIN Scanned(ns) : Scanned(ns)[i].msg = m}

(* Fault: the record is not cleared before it is built.                    *)
RebuildUncleared(ns) ==
  LET Add(rec, n) == [array |-> AddToArray(rec.array, rec.count, n.msg), count |-> rec.count + 1]
  IN  FoldLeft(Add, [array |-> <<>>, count |-> messagesWithExpiry],
               Scanned(ExpireNodes(ns, Overdue(ns))))

(* ... and builds the record anew from those that are not overdue.         *)
Rebuild(ns) ==
  LET Add(rec, n) == [array |-> AddToArray(rec.array, rec.count, n.msg), count |-> rec.count + 1]
  IN  FoldLeft(Add, [array |-> <<>>, count |-> 0], Scanned(ExpireNodes(ns, Overdue(ns))))

Storing == \E t \in Threads : pc[t] \in {"add", "addList", "store"}

(* iesq_reapExpiredMsgs with both locks: expire what is due in the array,  *)
(* and if that is not enough scan what is left.  The reaper reports an     *)
(* empty record to its caller; a put takes the queue off the list itself.  *)
ReapExpiredMsgs(t) ==
  LET due  == {earliest[i] : i \in 1 .. DueInArray}
      left == ExpireNodes(nodes, due)
      rec  == IF ArrayEnough
                THEN [array |-> SubSeq(earliest, DueInArray + 1, Len(earliest)),
                      count |-> messagesWithExpiry - DueInArray]
                ELSE Rebuild(left)
  IN  /\ pc[t] = "reap"
      /\ expiryLock = NoThread
      /\ RacingScan \/ ArrayEnough \/ ~Storing
      /\ nodes' = SkipRemoved(IF ArrayEnough THEN left ELSE ExpireNodes(left, Overdue(left)))
      /\ earliest' = rec.array
      /\ messagesWithExpiry' = rec.count
      /\ IF rec.count = 0 /\ t # Reaper
           THEN /\ expiryLock' = t
                /\ Goto(t, "reapList")
                /\ UNCHANGED waiterLock
           ELSE /\ waiterLock' = NoThread
                /\ Goto(t, IF t # Reaper THEN "idle"
                           ELSE IF rec.count = 0 THEN "removeQ" ELSE "visited")
                /\ UNCHANGED expiryLock
      /\ UNCHANGED <<onReaperList, listLock, enabled, now, cur, unsent, freed>>

ReapRemovesQueueFromList(t) ==
  /\ pc[t] = "reapList"
  /\ listLock = NoThread
  /\ onReaperList' = FALSE
  /\ expiryLock' = NoThread
  /\ waiterLock' = NoThread
  /\ Goto(t, "idle")
  /\ UNCHANGED <<nodes, earliest, messagesWithExpiry, listLock, enabled, now, cur, unsent, freed>>

(* Fault: what the callback returned is not looked at.                     *)
ReaperKeepsQueue ==
  /\ pc[Reaper] \in {"removeQ", "visited"}
  /\ listLock' = NoThread
  /\ Goto(Reaper, "idle")
  /\ UNCHANGED <<nodes, earliest, messagesWithExpiry, onReaperList, waiterLock, expiryLock,
                 enabled, now, cur, unsent, freed>>

(* ieut_traverseSplitList acts on what the callback returned and goes on.  *)
ReaperLeavesQueue ==
  /\ pc[Reaper] \in {"removeQ", "visited"}
  /\ onReaperList' = (onReaperList /\ pc[Reaper] = "visited")
  /\ listLock' = NoThread
  /\ Goto(Reaper, "idle")
  /\ UNCHANGED <<nodes, earliest, messagesWithExpiry, waiterLock, expiryLock, enabled, now,
                 cur, unsent, freed>>

----------------------------------------------------------------------------
(* The environment: the consumer is started and stopped, time passes.      *)
ChangeWaiter ==
  /\ waiterLock = NoThread
  /\ enabled' = ~enabled
  /\ UNCHANGED <<nodes, earliest, messagesWithExpiry, onReaperList, locks, now, pc, cur, unsent, freed>>

(* The clock: a tick that would end a message's put too late for its       *)
(* expiry, or go past MaxTime, is not observed.                            *)
MayTick ==
  /\ now < MaxTime
  /\ \A t \in Threads : pc[t] \in {"add", "addList", "store"} /\ cur[t] \in Expiring
                         => now + 1 < Expiry[cur[t]]

Tick ==
  /\ now' = IF MayTick THEN now + 1 ELSE now
  /\ UNCHANGED <<nodes, earliest, messagesWithExpiry, onReaperList, locks, enabled, pc, cur,
                 unsent, freed>>

----------------------------------------------------------------------------
(* ieme_freeQExpiryData, for a queue whose last put and get are over: the  *)
(* list is only locked, and the queue taken off it, if it has messages     *)
(* with an expiry.                                                         *)
InUse == enabled \/ \E t \in Threads : pc[t] # "idle"

FreeQueue ==
  /\ freed' = TRUE
  /\ nodes' = <<>> /\ earliest' = <<>> /\ messagesWithExpiry' = 0

FreeQExpiryData(t) ==
  /\ ~freed /\ ~InUse
  /\ expiryLock = NoThread
  /\ IF messagesWithExpiry > 0
       THEN /\ expiryLock' = t
            /\ Goto(t, "freeList")
            /\ UNCHANGED <<nodes, earliest, messagesWithExpiry, freed>>
       ELSE /\ RacingFree \/ listLock # Reaper
            /\ FreeQueue
            /\ UNCHANGED <<expiryLock, pc>>
  /\ UNCHANGED <<onReaperList, listLock, waiterLock, enabled, now, cur, unsent>>

FreeRemovesQueueFromList(t) ==
  /\ pc[t] = "freeList"
  /\ listLock = NoThread
  /\ onReaperList' = FALSE
  /\ FreeQueue
  /\ expiryLock' = NoThread
  /\ Goto(t, "idle")
  /\ UNCHANGED <<listLock, waiterLock, enabled, now, cur, unsent>>

ThreadStep(t) ==
  \/ AddMessageExpiryData(t) \/ AddQueueToExpiryReaperList(t) \/ StoreMessage(t)
  \/ RemoveMessageExpiryData(t) \/ RemoveQueueFromExpiryReaperList(t)
  \/ ReapQExpiredMessages(t) \/ LockForReap(t) \/ ReapLockBusy(t)
  \/ ReapExpiredMsgs(t) \/ ReapRemovesQueueFromList(t)

ReaperStep ==
  LockForReap(Reaper) \/ ReapLockBusy(Reaper) \/ ReapExpiredMsgs(Reaper) \/ ReaperLeavesQueue

Quiescent == \A t \in All : pc[t] = "idle"

(* Nobody starts to use a queue that is being freed.                       *)
Usable == ~freed /\ \A t \in Threads : pc[t] # "freeList"

Next ==
  \/ \E t \in Threads : \/ ThreadStep(t)
                        \/ Usable /\ GetMessage(t)
                        \/ Usable /\ \E m \in Msgs : PutMessage(t, m)
                        \/ FreeQExpiryData(t)
                        \/ FreeRemovesQueueFromList(t)
  \/ ReaperVisitsQueue
  \/ ReaperStep
  \/ Usable /\ ChangeWaiter
  \/ Tick

Spec == Init /\ [][Next]_vars

(* The reaper never waits for a lock, and sleeps for at least five seconds *)
(* between two scans: a thread that finds a lock free again and again gets *)
(* it.                                                                     *)
FairSpec ==
  /\ Spec
  /\ WF_vars(ReaperStep)
  /\ \A t \in Threads : /\ SF_vars(ThreadStep(t))
                        /\ SF_vars(FreeRemovesQueueFromList(t))

----------------------------------------------------------------------------
(* Properties *)

Pcs == {"idle", "add", "addList", "store", "stored", "remove", "removeList", "reapLock", "reap",
        "reapList", "removeQ", "visited", "freeList"}

(* The type invariant; the array never grows past its end.                 *)
TypeOK ==
  /\ nodes \in Seq([msg : Msgs, state : {"empty", "full", "removed"}])
  /\ earliest \in Seq(Expiring) /\ Len(earliest) <= NUM_EARLIEST_MESSAGES
  /\ messagesWithExpiry \in Int
  /\ onReaperList \in BOOLEAN /\ enabled \in BOOLEAN
  /\ {listLock, waiterLock, expiryLock} \subseteq All \cup {NoThread}
  /\ now \in 0 .. MaxTime
  /\ pc \in [All -> Pcs]
  /\ cur \in [All -> Msgs \cup {NoMsg}]
  /\ unsent \subseteq Msgs
  /\ freed \in BOOLEAN

(* The messages on record: those in the queue whose put has recorded them  *)
(* and the one that a getter has taken but not yet struck off.             *)
Recorded ==
  {m \in Expiring : /\ \E i \in DOMAIN nodes : nodes[i].msg = m /\ nodes[i].state # "removed"
                    /\ ~\E t \in Threads : pc[t] = "add" /\ cur[t] = m}
  \cup {cur[t] : t \in {u \in Threads : pc[u] = "remove"}}

(* The array is in order of expiry and no recorded message that expires    *)
(* before an entry is missing from it: the reaper may stop at the first    *)
(* entry that is not due.                                                  *)
ArrayHoldsEarliest ==
  /\ \A i, j \in DOMAIN earliest : i < j => Expiry[earliest[i]] <= Expiry[earliest[j]]
  /\ \A m \in Recorded \ ToSet(earliest) : \A i \in DOMAIN earliest :
       Expiry[earliest[i]] <= Expiry[m]

(* The array points only to nodes that still hold their message, never to  *)
(* one that has been got or expired and whose page may have been freed.    *)
ArrayPointsToNodes == ToSet(earliest) \subseteq Recorded

(* messagesWithExpiry is the number of messages on record, except between  *)
(* the two halves of an update, which hold the record's lock.              *)
CountIsExact ==
  expiryLock = NoThread => messagesWithExpiry = Cardinality(Recorded)

(* messageExpiry.h: queueReaperList is the "List of queues that need       *)
(* message expiry processing".  When no thread is busy, a queue is on the  *)
(* list exactly when it holds a message with an expiry.                    *)
OnListWhenNeeded == Quiescent => (onReaperList <=> Recorded # {})

(* engineSplitList.c: "we rely on this object containing an                *)
(* ieutSplitListLink_t within it".  A queue that has been freed is not on  *)
(* the list, and the reaper is not still with it, about to read its record *)
(* and to follow its link.                                                 *)
ListedQueuesExist == freed => ~onReaperList /\ pc[Reaper] = "idle"

(* After a reap no overdue message is left for a later one.                *)
ReapIsThorough ==
  [][\A t \in All : pc[t] = "reap" /\ pc'[t] # "reap" /\ nodes' # nodes =>
       \A i \in DOMAIN nodes' : nodes'[i].state = "full" /\ nodes'[i].msg \in Expiring
                                 => Expiry[nodes'[i].msg] >= now]_vars

(* Three locks, taken in different orders: every thread gets out again.    *)
ThreadsGetOut == \A t \in All : pc[t] # "idle" ~> pc[t] = "idle"

(* The record of expiring messages (iemeQueueExpiryData_t) is exact: the   *)
(* array holds the earliest in order, points to live nodes, and the count  *)
(* beside it is that of the messages on record.                            *)
IndexExact == TypeOK /\ ArrayHoldsEarliest /\ ArrayPointsToNodes /\ CountIsExact

(* The reaper's list holds the queues that need it and none that has been  *)
(* freed.                                                                  *)
ReaperListExact == OnListWhenNeeded /\ ListedQueuesExist
=============================================================================
