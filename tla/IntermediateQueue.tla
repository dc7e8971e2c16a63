-------------------------- MODULE IntermediateQueue --------------------------
(***************************************************************************)
(* The intermediate queue (server_engine/src/intermediateQ.c): the queue   *)
(* of one MQTT subscription, with the delivery ids of its client           *)
(* (clientState.c), its session's flow control (engine.c) and the MQTT     *)
(* exchange that acknowledges its messages (server_protocol/src/mqtt.c).   *)
(*                                                                         *)
(* Publishers put messages; whichever thread locks the waiter gathers a    *)
(* batch of them, commits what it is about to do to the store, sends them  *)
(* one by one and unlocks; acknowledgements arrive on other threads, each  *)
(* in several steps.  The connection may break and the server may crash    *)
(* between any two steps.  A restart sees the store only.                  *)
(*                                                                         *)
(* A message is known by its place in the queue, which is also its order   *)
(* id.  Its kind says how it is delivered and whether it is stored:        *)
(*   q0 at most once, n1 at least once but not stored, q1 at least once    *)
(*   and stored, q2 exactly once and stored.                               *)
(***************************************************************************)
EXTENDS Integers, Sequences, FiniteSets, FiniteSetsExt, WaiterStatus

CONSTANTS
  MaxMsgs,     \* bound: the messages published
  Kinds,       \* the kinds of message published
  Limit,       \* messages the client lets be in flight
  BatchShift,  \* a batch is Limit divided by this power of two; 2 in the code
  MaxId,       \* the largest delivery id; 65535 in the code
  MaxCrashes,  \* bound: crashes of the server
  MaxBreaks,   \* bound: connections that break
  MaxRefusals, \* bound: sends after which the transport asks for a pause
  MaxRejects   \* bound: messages the client refuses with an error PUBREC

ASSUME LimitAssumption == Limit \in Nat \ {0} /\ MaxId \in Nat /\ MaxId > Limit
ASSUME BoundsAssumption ==
  /\ MaxMsgs \in Nat /\ BatchShift \in Nat
  /\ MaxCrashes \in Nat /\ MaxBreaks \in Nat /\ MaxRefusals \in Nat /\ MaxRejects \in Nat
ASSUME KindsAssumption == Kinds \subseteq {"q0", "n1", "q1", "q2"}

Msgs == 1 .. MaxMsgs
Ids  == 1 .. MaxId

VARIABLES
  put,       \* [Msgs -> "none" | "slot" | "done" | "lost"]: the put of the message
  kind,      \* [Msgs -> the kind of the message, "none" before it is put]
  trying,    \* puts of q0 messages that found the queue empty and look for a waiter
  node,      \* [Msgs -> the node in memory: st, has (a message), id, mdr, cnt]
  ref,       \* [Msgs -> the reference in the store: st ("none": no reference), cnt, mdr]
  q,         \* the queue: cursor, reset, redeliv, rcursor, inflight, preDelete, buffered
  ws,        \* the waiter status
  own,       \* the thread that has the waiter locked: at, batch, again
  checks,    \* calls of ieiq_checkWaiters still to be made
  dids,      \* the client's delivery ids: used, next, exhausted
  sess,      \* the session: on, started, stopping, engCtl, cb, timer, resume
  ack,       \* [Msgs -> the acknowledgement being processed: at, avail, old, reply]
  tab,       \* [Ids -> the protocol's message id table: m (0: no entry), st]
  toC, toS,  \* the packets on their way to the client and to the server
  client,    \* the client: unrel (exactly-once ids not released), got, rejected
  budget     \* what is left of each bound

queueVars == <<put, kind, trying, node, q>>
wireVars  == <<tab, toC, toS>>
vars == <<put, kind, trying, node, ref, q, ws, own, checks, dids, sess, ack,
          tab, toC, toS, client, budget>>

NoNode == [st |-> "none", has |-> FALSE, id |-> 0, mdr |-> FALSE, cnt |-> 0]
Gone   == [NoNode EXCEPT !.st = "CONSUMED"]
NoRef  == [st |-> "none", cnt |-> 0, mdr |-> 0]
NoAck  == [at |-> "none", avail |-> FALSE, old |-> 0, reply |-> TRUE]
NoOwner == [at |-> "none", batch |-> <<>>, again |-> FALSE]
NoEntry == [m |-> 0, st |-> "none", pending |-> 1]

Stored(m)   == kind[m] \in {"q1", "q2"}
Inflight(s) == s \in {"DELIVERED", "RECEIVED"}

(* ieiq_chooseDeliveryBatchSizeFromMaxInflight; the largest batch of the   *)
(* code is larger than any limit an instance can use.                      *)
BatchSize == LET n == Limit \div (2 ^ BatchShift) IN IF n = 0 THEN 1 ELSE n

(* InflightReenable: seven tenths of the limit.                            *)
Reenable == (Limit * 7) \div 10

(* A session before anything happened to it.                               *)
NewSession(on) == [on |-> on, started |-> FALSE, stopping |-> FALSE, engCtl |-> FALSE,
                   cb |-> 0, timer |-> FALSE, resume |-> on]

Init ==
  /\ put    = [m \in Msgs |-> "none"]
  /\ kind   = [m \in Msgs |-> "none"]
  /\ trying = 0
  /\ node   = [m \in Msgs |-> NoNode]
  /\ ref    = [m \in Msgs |-> NoRef]
  /\ q      = [cursor |-> 1, reset |-> FALSE, redeliv |-> FALSE, rcursor |-> 0,
               inflight |-> 0, preDelete |-> 1, buffered |-> 0]
  /\ ws     = WS_DISCONNECTED
  /\ own    = NoOwner
  /\ checks = 0
  /\ dids   = [used |-> {}, next |-> 1, exhausted |-> FALSE]
  /\ sess   = NewSession(FALSE)
  /\ ack    = [m \in Msgs |-> NoAck]
  /\ tab    = [i \in Ids |-> NoEntry]
  /\ toC = <<>> /\ toS = <<>>
  /\ client = [unrel |-> {}, got |-> [m \in Msgs |-> 0], rejected |-> {}]
  /\ budget = [crash |-> MaxCrashes, break |-> MaxBreaks,
               refuse |-> MaxRefusals, reject |-> MaxRejects]

-----------------------------------------------------------------------------
(* Putting messages                                                        *)

Unput == {m \in Msgs : put[m] = "none"}
NextPlace == Min(Unput)  \* the next place in the queue

TakeSlot(k) ==
  /\ put'  = [put  EXCEPT ![NextPlace] = "slot"]
  /\ kind' = [kind EXCEPT ![NextPlace] = k]
  /\ node' = [node EXCEPT ![NextPlace] = [NoNode EXCEPT !.st = "AVAILABLE"]]
  /\ q'    = [q EXCEPT !.buffered = @ + 1]

(* ieiq_assignQSlot: the node is on the queue but has no message yet.      *)
AssignQSlot(k) ==
  /\ Cardinality(Unput) > trying
  /\ k = "q0" => q.buffered > 0
  /\ TakeSlot(k)
  /\ UNCHANGED <<trying, ref, ws, own, checks, dids, sess, ack, wireVars, client, budget>>

(* An at-most-once message for a queue that looks empty is offered to the  *)
(* consumer directly ...                                                   *)
TryDirect ==
  /\ Cardinality(Unput) > trying
  /\ "q0" \in Kinds /\ q.buffered = 0
  /\ trying' = trying + 1
  /\ UNCHANGED <<put, kind, node, ref, q, ws, own, checks, dids, sess, ack, wireVars,
                 client, budget>>

(* ... ieiq_putToWaitingGetter: who takes an enabled waiter, waits for one *)
(* that is getting and otherwise queues the message after all.             *)
PutToWaitingGetter ==
  /\ trying > 0 /\ ~DirectPutWaits(ws)
  /\ trying' = trying - 1
  /\ IF ws = WS_ENABLED
       THEN /\ ws' = WS_DELIVERING
            /\ own' = [at |-> "direct", batch |-> <<NextPlace>>, again |-> TRUE]
            /\ put'  = [put  EXCEPT ![NextPlace] = "done"]
            /\ kind' = [kind EXCEPT ![NextPlace] = "q0"]
            /\ node' = [node EXCEPT ![NextPlace] = Gone]
            /\ UNCHANGED q
       ELSE TakeSlot("q0") /\ UNCHANGED <<ws, own>>
  /\ UNCHANGED <<ref, checks, dids, sess, ack, wireVars, client, budget>>

(* ieiq_finishPut: commit the reference, then make the message visible;    *)
(* then the put calls ieiq_checkWaiters.                                   *)
FinishPut(m) ==
  /\ put[m] = "slot"
  /\ put'  = [put EXCEPT ![m] = "done"]
  /\ ref'  = IF Stored(m) THEN [ref EXCEPT ![m].st = "AVAILABLE"] ELSE ref
  /\ node' = [node EXCEPT ![m].has = TRUE]
  /\ checks' = checks + 1
  /\ UNCHANGED <<kind, trying, q, ws, own, dids, sess, ack, wireVars, client, budget>>

PutSteps ==
  \/ \E k \in Kinds : AssignQSlot(k)
  \/ TryDirect \/ PutToWaitingGetter
  \/ \E m \in Msgs : FinishPut(m)

-----------------------------------------------------------------------------
(* The session's flow control                                              *)

(* ism_engine_startMessageDelivery: engine says whether the engine starts  *)
(* what it stopped itself, or the protocol starts.                         *)
StartOutcome(engine) ==
  IF sess.stopping THEN "RequestInProgress"
  ELSE IF engine /\ ~sess.engCtl THEN "NotEngineControlled"
  ELSE "OK"

(* The waiter is enabled, and ieiq_checkWaiters called, whether or not     *)
(* delivery was started before.                                            *)
StartTo ==
  LET enabled == EnableRc(ws) \in {"OK", "DisableWaiterCancel"}
  IN  [sess EXCEPT !.started = TRUE, !.engCtl = FALSE,
                   !.cb = @ + (IF sess.started THEN 0 ELSE 1) + (IF enabled THEN 1 ELSE 0)]

StartDelivery(session) ==
  /\ ~EnableWaits(ws)
  /\ sess' = session
  /\ ws' = EnableTo(ws)
  /\ checks' = checks + 1

(* startMqttDelivery, when the client has connected or the transport can   *)
(* take more: tried again while an earlier stop is still in progress.      *)
StartMqttDelivery ==
  /\ sess.on /\ sess.resume /\ StartOutcome(FALSE) = "OK"
  /\ StartDelivery([StartTo EXCEPT !.resume = FALSE])
  /\ UNCHANGED <<queueVars, ref, own, dids, ack, wireVars, client, budget>>

(* restartMessageDelivery: the timer is set again while the stop that      *)
(* asked for it has not ended; it does nothing to a destroyed session.     *)
RestartMessageDelivery ==
  /\ sess.timer /\ (sess.on => ~sess.stopping)
  /\ IF sess.on /\ StartOutcome(TRUE) = "OK"
       THEN StartDelivery([StartTo EXCEPT !.timer = FALSE])
       ELSE sess' = [sess EXCEPT !.timer = FALSE] /\ UNCHANGED <<ws, checks>>
  /\ UNCHANGED <<queueVars, ref, own, dids, ack, wireVars, client, budget>>

(* The last outstanding callback ends a stop.                              *)
CallbackDone(s) == [s EXCEPT !.cb = @ - 1, !.stopping = s.stopping /\ s.cb # 1]

(* stopMessageDeliveryInternal, called by the owner of the waiter when the *)
(* client has no delivery id left.                                         *)
StopMessageDelivery ==
  /\ own.at = "stop"
  /\ own' = [own EXCEPT !.at = IF own.batch = <<>> THEN "release" ELSE "commit", !.again = TRUE]
  /\ IF sess.engCtl /\ sess.started
       THEN LET s == [sess EXCEPT !.started = FALSE, !.stopping = TRUE]
            IN  /\ ws' = DisableTo(ws)
                /\ sess' = CallbackDone(IF DisableOutcome(ws) = "uncancel" THEN CallbackDone(s) ELSE s)
       ELSE UNCHANGED <<ws, sess>>
  /\ UNCHANGED <<queueVars, ref, checks, dids, ack, wireVars, client, budget>>

-----------------------------------------------------------------------------
(* Delivery ids                                                            *)

FreeFrom(i) == {j \in Ids \ dids.used : j >= i}

(* iecs_assignDeliveryId_internal: the first free id from the next one on, *)
(* round the end of the range.  After a restart the next id can lie past   *)
(* the end; it then stays there and the search starts at the first id.     *)
AssignedId == IF FreeFrom(dids.next) # {} THEN Min(FreeFrom(dids.next)) ELSE Min(FreeFrom(1))

AfterAssign ==
  [dids EXCEPT !.used = @ \cup {AssignedId},
               !.next = IF @ = MaxId THEN 1 ELSE Min({@ + 1, MaxId + 1})]

IdsExhausted == Cardinality(dids.used) >= Limit

(* iecs_releaseDeliveryId_internal, iecs_canRestartDelivery: a client that *)
(* had run out may be sent messages again.                                 *)
IdsAvailable(d) == d.exhausted /\ Cardinality(d.used) <= Reenable

-----------------------------------------------------------------------------
(* Getting a batch                                                         *)

(* ieiq_checkWaiters: a thread that finds another one getting waits for    *)
(* it; one that finds the waiter delivering or not enabled leaves.         *)
CheckWaiters ==
  /\ checks > 0
  /\ q.buffered > 0 => ~CheckWaits(ws)
  /\ checks' = checks - 1
  /\ IF q.buffered > 0 /\ CheckLocks(ws)
       THEN ws' = WS_GETTING /\ own' = [NoOwner EXCEPT !.at = "get"]
       ELSE UNCHANGED <<ws, own>>
  /\ UNCHANGED <<queueVars, ref, dids, sess, ack, wireVars, client, budget>>

Redeliverable(m) ==
  q.redeliv /\ node[m].has /\ q.rcursor <= m /\ Inflight(node[m].st)

(* ieiq_locateMessage from the cursor on: where the scan stops.            *)
StopsAt(from) ==
  {m \in from .. MaxMsgs : node[m].st \in {"AVAILABLE", "none"} \/ Redeliverable(m)}

MustRewind == q.reset /\ own.batch # <<>>
Cursor     == IF q.reset THEN 1 ELSE q.cursor
ScanEnd    == IF StopsAt(Cursor) = {} THEN MaxMsgs + 1 ELSE Min(StopsAt(Cursor))
AtLimit    == ~q.redeliv /\ q.inflight >= Limit
Found      == ~AtLimit /\ ~MustRewind /\ ScanEnd \in Msgs /\ node[ScanEnd].has

(* What a message becomes when it is delivered.                            *)
WhenDelivered(m) ==
  IF kind[m] = "q0" THEN "CONSUMED"
  ELSE IF node[m].st = "AVAILABLE" THEN "DELIVERED" ELSE node[m].st

(* A message that is to be acknowledged and has no id yet.                 *)
NeedsId(m) == IF Stored(m) THEN ~node[m].mdr ELSE kind[m] = "n1" /\ node[m].id = 0

(* Nothing more for this batch: deliver it, or give up the waiter.         *)
EndBatch(again) ==
  own' = [own EXCEPT !.at = IF own.batch = <<>> THEN "release" ELSE "commit",
                     !.again = again \/ own.batch # <<>>]

(* One turn of the loop in ieiq_checkWaiters that found a message:         *)
(* ieiq_initialPrepareMessageForDelivery, and the cursor moves on.         *)
PrepareMessage ==
  /\ own.at = "get" /\ Len(own.batch) < BatchSize /\ Found
  /\ LET m == ScanEnd
     IN IF NeedsId(m) /\ IdsExhausted
          THEN /\ dids' = [dids EXCEPT !.exhausted = TRUE]
               /\ sess' = [sess EXCEPT !.engCtl = @ \/ (sess.started /\ ~sess.stopping)]
               /\ q'    = [q EXCEPT !.cursor = m, !.reset = FALSE]
               /\ own'  = [own EXCEPT !.at = "stop"]
               /\ UNCHANGED <<node, ws>>
          ELSE /\ dids' = IF NeedsId(m) THEN AfterAssign ELSE dids
               /\ node' = IF NeedsId(m)
                            THEN [node EXCEPT ![m].id = AssignedId, ![m].mdr = Stored(m)]
                            ELSE node
               /\ q'    = [q EXCEPT !.cursor = m + 1, !.reset = FALSE]
               /\ ws'   = IF ws = WS_GETTING THEN WS_DELIVERING ELSE ws
               /\ own'  = [own EXCEPT !.batch = Append(@, m)]
               /\ UNCHANGED sess
  /\ UNCHANGED <<put, kind, trying, ref, checks, ack, wireVars, client, budget>>

(* One that found none: the batch is full, too much is in flight, the      *)
(* cursor must be rewound first, or there is no message.  When that was    *)
(* the end of redelivery the queue is looked at again for new messages.    *)
NoMoreMessages ==
  /\ own.at = "get" /\ (Len(own.batch) = BatchSize \/ ~Found)
  /\ IF Len(own.batch) = BatchSize \/ AtLimit \/ MustRewind
       THEN UNCHANGED q /\ EndBatch(MustRewind)
       ELSE /\ q' = [q EXCEPT !.cursor = ScanEnd, !.reset = FALSE, !.redeliv = FALSE]
            /\ EndBatch(q.redeliv)
  /\ UNCHANGED <<put, kind, trying, node, ref, ws, checks, dids, sess, ack, wireVars,
                 client, budget>>

(* Nothing to deliver: enable the waiter again, unless somebody left us    *)
(* something to do.                                                        *)
ReleaseWaiter ==
  /\ own.at = "release"
  /\ IF ws = WS_GETTING
       THEN /\ ws' = WS_ENABLED
            /\ own' = NoOwner
            /\ checks' = IF own.again THEN checks + 1 ELSE checks
       ELSE own' = [own EXCEPT !.at = "callback"] /\ UNCHANGED <<ws, checks>>
  /\ UNCHANGED <<queueVars, ref, dids, sess, ack, wireVars, client, budget>>

BatchSet == {own.batch[i] : i \in 1 .. Len(own.batch)}

(* The state, count and delivery reference of the whole batch are written  *)
(* in one store transaction before any of it is sent.                      *)
CommitBatch ==
  /\ own.at = "commit"
  /\ ref' = [m \in Msgs |-> IF m \in BatchSet /\ Stored(m)
                              THEN [st |-> WhenDelivered(m), cnt |-> 1, mdr |-> node[m].id]
                              ELSE ref[m]]
  /\ own' = [own EXCEPT !.at = "deliver"]
  /\ UNCHANGED <<queueVars, ws, checks, dids, sess, ack, wireVars, client, budget>>

-----------------------------------------------------------------------------
(* Sending                                                                 *)

Packet(type, id)   == [t |-> type, id |-> id, m |-> 0, dup |-> FALSE]
Publish(m, id, dup) == [t |-> "PUBLISH", id |-> id, m |-> m, dup |-> dup]

(* Fault: an exactly-once message is published again although the client   *)
(* has it.                                                                 *)
ReplyMessageRepublishes(m) ==
  /\ tab' = IF kind[m] = "q0" THEN tab
            ELSE [tab EXCEPT ![node[m].id] = [NoEntry EXCEPT !.m = m, !.st = "PUBLISH"]]
  /\ toC' = IF ~sess.on THEN toC ELSE Append(toC, Publish(m, node[m].id, node[m].cnt > 0))
  /\ UNCHANGED toS

(* ism_mqtt_replyMessage: an exactly-once message that the client already  *)
(* has is not sent again, only its PUBREL.  What is sent on a connection   *)
(* that is gone is lost, and counts as sent.                               *)
ReplyMessage(m) ==
  LET n == node[m]
      rel == kind[m] = "q2" /\ n.st = "RECEIVED"
  IN  /\ tab' = IF kind[m] = "q0" THEN tab
                ELSE [tab EXCEPT ![n.id] = [NoEntry EXCEPT !.m = m, !.st = IF rel THEN "PUBREL" ELSE "PUBLISH"]]
      /\ toC' = IF ~sess.on THEN toC
                ELSE Append(toC, IF rel THEN Packet("PUBREL", n.id) ELSE Publish(m, n.id, n.cnt > 0))
      /\ UNCHANGED toS

(* ieiq_completePreparingMessage and the cursor of redelivery: having      *)
(* messages in flight holds the queue once.                                *)
CompletePreparing(m) ==
  LET first == node[m].st = "AVAILABLE" /\ kind[m] # "q0"
  IN  [q EXCEPT !.inflight  = IF first THEN @ + 1 ELSE @,
                !.preDelete = IF first /\ q.inflight = 0 THEN @ + 1 ELSE @,
                !.buffered  = IF kind[m] = "q0" THEN @ - 1 ELSE @,
                !.rcursor   = IF q.redeliv THEN Max({@, m + 1}) ELSE @]

NodeDelivered(m) ==
  IF kind[m] = "q0" THEN Gone ELSE [node[m] EXCEPT !.st = WhenDelivered(m), !.cnt = 1]

(* ieiq_deliverMessages, the consumer wants more: after the last message   *)
(* of the batch the waiter is enabled and the queue is looked at again.    *)
DeliverMessage ==
  /\ own.at = "deliver"
  /\ LET m == Head(own.batch)
         rest == Tail(own.batch)
         last == rest = <<>>
         free == last /\ ws = WS_DELIVERING
     IN /\ ReplyMessage(m)
        /\ q' = CompletePreparing(m)
        /\ node' = [node EXCEPT ![m] = NodeDelivered(m)]
        /\ own' = IF free THEN NoOwner
                  ELSE [own EXCEPT !.batch = rest, !.at = IF last THEN "callback" ELSE "deliver"]
        /\ ws' = IF free THEN WS_ENABLED ELSE ws
        /\ checks' = IF free THEN checks + 1 ELSE checks
  /\ UNCHANGED <<put, kind, trying, ref, dids, sess, ack, client, budget>>

(* ieiq_rewindCursorToNode: back to the first message not delivered.       *)
Rewound(qq, rest) == IF rest = <<>> THEN qq ELSE [qq EXCEPT !.cursor = Head(rest)]

(* The transport takes the message and asks for a pause (SRETURN_SUSPEND): *)
(* the rest of the batch goes back, and delivery is started again later.   *)
DeliverRefused ==
  /\ own.at = "deliver" /\ sess.on /\ budget.refuse > 0
  /\ LET m == Head(own.batch)
         rest == Tail(own.batch)
     IN /\ ~(kind[m] = "q2" /\ node[m].st = "RECEIVED")
        /\ ReplyMessage(m)
        /\ q' = Rewound(CompletePreparing(m), rest)
        /\ node' = [node EXCEPT ![m] = NodeDelivered(m)]
        /\ own' = [own EXCEPT !.batch = rest, !.at = IF rest = <<>> THEN "callback" ELSE "undo"]
  /\ ws' = AddPendFlag(ws, DISABLE_PEND)
  /\ sess' = [sess EXCEPT !.resume = TRUE]
  /\ budget' = [budget EXCEPT !.refuse = @ - 1]
  /\ UNCHANGED <<put, kind, trying, ref, checks, dids, ack, client>>

(* ieiq_undoInitialPrepareMessage: what was committed for the rest of the  *)
(* batch is taken back before the waiter is unlocked; ids are kept.        *)
UndoPrepare ==
  /\ own.at = "undo"
  /\ ref' = [m \in Msgs |-> IF m \in BatchSet /\ Stored(m)
                              THEN [ref[m] EXCEPT !.st = node[m].st, !.cnt = node[m].cnt]
                              ELSE ref[m]]
  /\ own' = [own EXCEPT !.batch = <<>>, !.at = "callback"]
  /\ UNCHANGED <<queueVars, ws, checks, dids, sess, ack, wireVars, client, budget>>

(* The rest of ieiq_putToWaitingGetter: the message is sent.               *)
DeliverDirect ==
  /\ own.at = "direct"
  /\ ReplyMessage(Head(own.batch))
  /\ IF ws = WS_DELIVERING
       THEN ws' = WS_ENABLED /\ own' = NoOwner /\ checks' = checks + 1
       ELSE own' = [own EXCEPT !.at = "callback", !.batch = <<>>] /\ UNCHANGED <<ws, checks>>
  /\ UNCHANGED <<queueVars, ref, dids, sess, ack, client, budget>>

DirectRefused ==
  /\ own.at = "direct" /\ sess.on /\ budget.refuse > 0
  /\ ReplyMessage(Head(own.batch))
  /\ ws' = AddPendFlag(ws, DISABLE_PEND)
  /\ own' = [own EXCEPT !.at = "callback", !.batch = <<>>]
  /\ sess' = [sess EXCEPT !.resume = TRUE]
  /\ budget' = [budget EXCEPT !.refuse = @ - 1]
  /\ UNCHANGED <<queueVars, ref, checks, dids, ack, client>>

(* ieq_completeWaiterActions, for the flags others left: the callback that *)
(* delivery has stopped, a restart if ids have become available meanwhile, *)
(* and the unlock, after which this thread looks at the queue again.       *)
WaiterCallback ==
  /\ own.at = "callback"
  /\ sess' = CallbackDone(sess)
  /\ own' = [own EXCEPT !.at = IF sess.stopping /\ sess.cb = 1 THEN "restart" ELSE "unlock"]
  /\ UNCHANGED <<queueVars, ref, ws, checks, dids, ack, wireVars, client, budget>>

(* Fault: nobody looks for ids that became available during the stop.      *)
CanRestartNever ==
  /\ own.at = "restart"
  /\ own' = [own EXCEPT !.at = "unlock"]
  /\ UNCHANGED <<queueVars, ref, ws, checks, dids, sess, ack, wireVars, client, budget>>

CanRestart ==
  /\ own.at = "restart"
  /\ sess' = [sess EXCEPT !.timer = @ \/ IdsAvailable(dids)]
  /\ dids' = [dids EXCEPT !.exhausted = @ /\ ~IdsAvailable(dids)]
  /\ own' = [own EXCEPT !.at = "unlock"]
  /\ UNCHANGED <<queueVars, ref, ws, checks, ack, wireVars, client, budget>>

UnlockWaiter ==
  /\ own.at = "unlock"
  /\ IF DISCONNECT_PEND \in ws
       THEN ws' = WS_DISCONNECTED /\ q' = [q EXCEPT !.preDelete = @ - 1]
       ELSE ws' = (IF CANCEL_DISABLE_PEND \in ws THEN WS_ENABLED ELSE WS_DISABLED) /\ UNCHANGED q
  /\ own' = NoOwner
  /\ checks' = checks + 1
  /\ UNCHANGED <<put, kind, trying, node, ref, dids, sess, ack, wireVars, client, budget>>

DeliverySteps ==
  \/ StartMqttDelivery \/ RestartMessageDelivery \/ StopMessageDelivery
  \/ CheckWaiters \/ PrepareMessage \/ NoMoreMessages \/ ReleaseWaiter
  \/ CommitBatch \/ DeliverMessage \/ DeliverRefused \/ UndoPrepare
  \/ DeliverDirect \/ DirectRefused
  \/ WaiterCallback \/ CanRestart \/ UnlockWaiter

-----------------------------------------------------------------------------
(* Acknowledgements                                                        *)

StartAck(m, at, reply) == [ack EXCEPT ![m] = [NoAck EXCEPT !.at = at, !.reply = reply]]

(* ism_mqtt_doPubAck, ism_mqtt_doPubComp: the entry leaves the table and   *)
(* the message is confirmed as consumed.                                   *)
DoPubAckOrComp(p) ==
  LET e == tab[p.id]
  IN  /\ p.t \in {"PUBACK", "PUBCOMP"}
      /\ tab' = [tab EXCEPT ![p.id] = NoEntry]
      /\ ack' = IF e.m = 0 THEN ack ELSE StartAck(e.m, "consume", TRUE)
      /\ UNCHANGED toC

(* ism_mqtt_doPubRec: the message is confirmed as received.  A further     *)
(* PUBREC is counted while the first is in process, and answered at once   *)
(* after that; one for an unknown id is answered under MQTT 5 only.        *)
DoPubRec(p) ==
  LET e == tab[p.id]
      released == Append(toC, Packet("PUBREL", p.id))
  IN  /\ p.t = "PUBREC"
      /\ CASE e.st = "PUBLISH" -> /\ tab' = [tab EXCEPT ![p.id].st = "PUBREC"]
                                  /\ ack' = StartAck(e.m, "receive", TRUE)
                                  /\ UNCHANGED toC
           [] e.st = "PUBREC"  -> /\ tab' = [tab EXCEPT ![p.id].pending = @ + 1]
                                  /\ UNCHANGED <<ack, toC>>
           [] e.st = "PUBREL"  -> toC' = released /\ UNCHANGED <<tab, ack>>
           [] e.st = "none"    -> toC' \in {toC, released} /\ UNCHANGED <<tab, ack>>

(* The same for a PUBREC with an error: the entry is dropped, the message  *)
(* is confirmed as received and nothing is sent.  The protocol does not    *)
(* wait for that (reply).                                                  *)
DoPubRecError(p) ==
  LET e == tab[p.id]
  IN  /\ p.t = "PUBREC error"
      /\ tab' = [tab EXCEPT ![p.id] = NoEntry]
      /\ ack' = IF e.m = 0 THEN ack ELSE StartAck(e.m, "receive", FALSE)
      /\ UNCHANGED toC

ServerReceive ==
  /\ toS # <<>>
  /\ toS' = Tail(toS)
  /\ DoPubAckOrComp(Head(toS)) \/ DoPubRec(Head(toS)) \/ DoPubRecError(Head(toS))
  /\ UNCHANGED <<queueVars, ref, ws, own, checks, dids, sess, client, budget>>

(* ieiq_acknowledge of a consumed message: reference and delivery          *)
(* reference leave the store in one transaction ...                        *)
ConsumeCommit(m) ==
  /\ ack[m].at = "consume"
  /\ ref'  = [ref EXCEPT ![m] = NoRef]
  /\ node' = [node EXCEPT ![m].mdr = FALSE]
  /\ ack'  = [ack EXCEPT ![m].at = "release"]
  /\ UNCHANGED <<put, kind, trying, q, ws, own, checks, dids, sess, wireVars, client, budget>>

(* ... the id is released and the node given up ...                        *)
ConsumeRelease(m) ==
  LET d == [dids EXCEPT !.used = @ \ {node[m].id}]
  IN  /\ ack[m].at = "release"
      /\ dids' = [d EXCEPT !.exhausted = @ /\ ~IdsAvailable(d)]
      /\ node' = [node EXCEPT ![m] = Gone]
      /\ q'    = [q EXCEPT !.buffered = @ - 1]
      /\ ack'  = [ack EXCEPT ![m].at = "count", ![m].avail = IdsAvailable(d)]
      /\ UNCHANGED <<put, kind, trying, ref, ws, own, checks, sess, wireVars, client, budget>>

(* ... and ieiq_completeConsumeAck: one message fewer is in flight, ...    *)
ConsumeCount(m) ==
  /\ ack[m].at = "count"
  /\ q'   = [q EXCEPT !.inflight = @ - 1]
  /\ ack' = [ack EXCEPT ![m].old = q.inflight, ![m].at = IF ack[m].avail THEN "restart" ELSE "tail"]
  /\ UNCHANGED <<put, kind, trying, node, ref, ws, own, checks, dids, sess, wireVars, client, budget>>

(* ismEngine_internal_RestartSession: start what the shortage of ids       *)
(* stopped, ...                                                            *)
RestartSession(m) ==
  /\ ack[m].at = "restart"
  /\ ack' = [ack EXCEPT ![m].at = IF StartOutcome(TRUE) = "RequestInProgress" THEN "mark" ELSE "tail"]
  /\ IF StartOutcome(TRUE) = "OK" THEN StartDelivery(StartTo) ELSE UNCHANGED <<sess, ws, checks>>
  /\ UNCHANGED <<queueVars, ref, own, dids, wireVars, client, budget>>

(* ... or, while the stop is still in progress, record the shortage again  *)
(* for the next acknowledgement, or for the end of the stop.               *)
MarkIdsExhausted(m) ==
  /\ ack[m].at = "mark"
  /\ dids' = [dids EXCEPT !.exhausted = TRUE]
  /\ ack' = [ack EXCEPT ![m].at = IF dids.used = {} THEN "look" ELSE "tail"]
  /\ UNCHANGED <<queueVars, ref, ws, own, checks, sess, wireVars, client, budget>>

LookStopping(m) ==
  /\ ack[m].at = "look"
  /\ ack' = [ack EXCEPT ![m].at = IF sess.stopping THEN "tail" ELSE "restart"]
  /\ UNCHANGED <<queueVars, ref, ws, own, checks, dids, sess, wireVars, client, budget>>

(* ... look at the queue again if this made room below the limit, or let   *)
(* go of the queue if this was the last message in flight.                 *)
ConsumeTail(m) ==
  /\ ack[m].at = "tail"
  /\ ack' = [ack EXCEPT ![m] = NoAck]
  /\ checks' = IF ack[m].old = Limit THEN checks + 1 ELSE checks
  /\ q' = [q EXCEPT !.preDelete = IF ack[m].old # Limit /\ ack[m].old = 1 THEN @ - 1 ELSE @]
  /\ UNCHANGED <<put, kind, trying, node, ref, ws, own, dids, sess, wireVars, client, budget>>

(* ieiq_acknowledge of a received message: the store first, ...            *)
ReceiveCommit(m) ==
  /\ ack[m].at = "receive"
  /\ ref' = IF node[m].st = "DELIVERED" /\ Stored(m) THEN [ref EXCEPT ![m].st = "RECEIVED"] ELSE ref
  /\ ack' = [ack EXCEPT ![m].at = "received"]
  /\ UNCHANGED <<queueVars, ws, own, checks, dids, sess, wireVars, client, budget>>

(* ... then the node, and ism_mqtt_replyPubRec sends a PUBREL for each     *)
(* PUBREC.                                                                 *)
ReplyPubRec(m) ==
  LET id == node[m].id
      known == ack[m].reply /\ tab[id].m # 0
  IN  /\ ack[m].at = "received"
      /\ node' = [node EXCEPT ![m].st = "RECEIVED"]
      /\ ack' = [ack EXCEPT ![m] = NoAck]
      /\ tab' = IF known THEN [tab EXCEPT ![id].st = "PUBREL", ![id].pending = 1] ELSE tab
      /\ toC' = IF known /\ sess.on
                  THEN toC \o [i \in 1 .. tab[id].pending |-> Packet("PUBREL", id)]
                  ELSE toC
      /\ UNCHANGED <<put, kind, trying, ref, q, ws, own, checks, dids, sess, toS, client, budget>>

AckSteps ==
  \/ ServerReceive
  \/ \E m \in Msgs : \/ ConsumeCommit(m) \/ ConsumeRelease(m) \/ ConsumeCount(m)
                     \/ RestartSession(m) \/ MarkIdsExhausted(m) \/ LookStopping(m)
                     \/ ConsumeTail(m) \/ ReceiveCommit(m) \/ ReplyPubRec(m)

-----------------------------------------------------------------------------
(* Connections, crashes and the client                                     *)

(* No acknowledgement holds the session (PreNackAllCount), ...             *)
AckIdle == \A m \in Msgs : ack[m].at = "none"

(* ... or the protocol's close of the connection (inprogress).             *)
NoneInProgress == \A m \in Msgs : ack[m].at = "none" \/ ~ack[m].reply

(* The client connects: ieiq_initWaiter, a new session and a new table,    *)
(* once the session before is gone.                                        *)
InitWaiter ==
  /\ ~sess.on /\ ws = WS_DISCONNECTED /\ AckIdle
  /\ ws' = InitTo(ws)
  /\ q' = [q EXCEPT !.preDelete = @ + 1, !.redeliv = TRUE, !.reset = TRUE, !.rcursor = 0]
  /\ sess' = NewSession(TRUE)
  /\ tab' = [i \in Ids |-> NoEntry]
  /\ UNCHANGED <<put, kind, trying, node, ref, own, checks, dids, ack, toC, toS, client, budget>>

(* The connection breaks; what was on its way is lost.                     *)
Break ==
  /\ sess.on /\ budget.break > 0
  /\ sess' = [sess EXCEPT !.on = FALSE, !.resume = FALSE]
  /\ toC' = <<>> /\ toS' = <<>>
  /\ budget' = [budget EXCEPT !.break = @ - 1]
  /\ UNCHANGED <<queueVars, ref, ws, own, checks, dids, ack, tab, client>>

(* ieiq_termWaiter, when the protocol has no acknowledgement in progress:  *)
(* leave the flag to the owner, or become the owner.  A cancelled disable  *)
(* is waited for.                                                          *)
TermWaiter ==
  /\ ~sess.on /\ NoneInProgress /\ ~TermInvalid(ws)
  /\ CANCEL_DISABLE_PEND \notin ws
  /\ ws' = (ws \cap PENDING) \cup {DISCONNECT_PEND}
  /\ own' = IF TermLocks(ws)
              THEN [NoOwner EXCEPT !.at = IF ws = WS_DISABLED THEN "unlock" ELSE "callback"]
              ELSE own
  /\ UNCHANGED <<queueVars, ref, checks, dids, sess, ack, wireVars, client, budget>>

RefsInStore == {m \in Msgs : ref[m].st # "none"}
StoredIds   == {ref[m].mdr : m \in Msgs} \ {0}

(* The server crashes and restarts: ieiq_rehydrateMsg for each reference,  *)
(* ieiq_rehydrateDeliveryId and iecs_restoreInMem... for each delivery     *)
(* reference; everything else is as in a new server.                       *)
Rehydrated(m) ==
  IF put[m] = "none" THEN NoNode
  ELSE IF m \notin RefsInStore THEN Gone
  ELSE [st |-> ref[m].st, has |-> TRUE, id |-> ref[m].mdr, mdr |-> ref[m].mdr # 0, cnt |-> ref[m].cnt]

(* Fault: the ids that delivery references hold are not taken again.       *)
RestoredIdsFree ==
  [used |-> {}, exhausted |-> FALSE,
   next |-> IF StoredIds = {} THEN 1 ELSE Max(StoredIds) + 1]

RestoredIds ==
  [used |-> StoredIds, exhausted |-> FALSE,
   next |-> IF StoredIds = {} THEN 1 ELSE Max(StoredIds) + 1]

Crash ==
  /\ budget.crash > 0
  /\ budget' = [budget EXCEPT !.crash = @ - 1]
  /\ put'  = [m \in Msgs |-> IF put[m] = "slot" THEN "lost" ELSE put[m]]
  /\ node' = [m \in Msgs |-> Rehydrated(m)]
  /\ LET inflight == Cardinality({m \in RefsInStore : Inflight(ref[m].st)})
     IN q' = [cursor |-> 1, reset |-> FALSE, redeliv |-> FALSE, rcursor |-> 0,
              inflight |-> inflight, preDelete |-> 1 + (IF inflight > 0 THEN 1 ELSE 0),
              buffered |-> Cardinality(RefsInStore)]
  /\ dids' = RestoredIds
  /\ trying' = 0 /\ ws' = WS_DISCONNECTED /\ own' = NoOwner /\ checks' = 0
  /\ sess' = NewSession(FALSE)
  /\ ack' = [m \in Msgs |-> NoAck] /\ tab' = [i \in Ids |-> NoEntry]
  /\ toC' = <<>> /\ toS' = <<>>
  /\ UNCHANGED <<kind, ref, client>>

(* The client takes a message and answers.  An exactly-once message whose  *)
(* id it has not released is a copy.                                       *)
ClientTakes(p) ==
  LET m == p.m
      copy == kind[m] = "q2" /\ p.id \in client.unrel
  IN  /\ p.t = "PUBLISH"
      /\ client' = [client EXCEPT !.got[m] = IF copy THEN @ ELSE @ + 1,
                                  !.unrel  = IF kind[m] = "q2" THEN @ \cup {p.id} ELSE @]
      /\ toS' = CASE kind[m] = "q0" -> toS
                  [] kind[m] \in {"n1", "q1"} -> Append(toS, Packet("PUBACK", p.id))
                  [] kind[m] = "q2" -> Append(toS, Packet("PUBREC", p.id))
      /\ UNCHANGED budget

ClientRejects(p) ==
  /\ p.t = "PUBLISH" /\ kind[p.m] = "q2" /\ p.id \notin client.unrel /\ budget.reject > 0
  /\ client' = [client EXCEPT !.rejected = @ \cup {p.m}]
  /\ toS' = Append(toS, Packet("PUBREC error", p.id))
  /\ budget' = [budget EXCEPT !.reject = @ - 1]

ClientReleases(p) ==
  /\ p.t = "PUBREL"
  /\ client' = [client EXCEPT !.unrel = @ \ {p.id}]
  /\ toS' = Append(toS, Packet("PUBCOMP", p.id))
  /\ UNCHANGED budget

ClientReceive ==
  /\ toC # <<>>
  /\ toC' = Tail(toC)
  /\ ClientTakes(Head(toC)) \/ ClientRejects(Head(toC)) \/ ClientReleases(Head(toC))
  /\ UNCHANGED <<queueVars, ref, ws, own, checks, dids, sess, ack, tab>>

ConnectionSteps == InitWaiter \/ TermWaiter \/ Break

Next == PutSteps \/ DeliverySteps \/ AckSteps \/ ConnectionSteps \/ Crash \/ ClientReceive

Spec == Init /\ [][Next]_vars

(* Every thread that has work goes on with it; a transport that asked for  *)
(* a pause ends it; a client answers and, when disconnected, connects.     *)
(* Messages need not come, connections need not break.                     *)
OwnerSteps ==
  \/ StopMessageDelivery \/ PrepareMessage \/ NoMoreMessages \/ ReleaseWaiter
  \/ CommitBatch \/ DeliverMessage \/ DeliverRefused \/ UndoPrepare
  \/ DeliverDirect \/ DirectRefused \/ WaiterCallback \/ CanRestart \/ UnlockWaiter

AckStep(m) ==
  \/ ConsumeCommit(m) \/ ConsumeRelease(m) \/ ConsumeCount(m) \/ RestartSession(m)
  \/ MarkIdsExhausted(m) \/ LookStopping(m) \/ ConsumeTail(m)
  \/ ReceiveCommit(m) \/ ReplyPubRec(m)

Fairness ==
  /\ WF_vars(PutToWaitingGetter) /\ \A m \in Msgs : WF_vars(FinishPut(m)) /\ WF_vars(AckStep(m))
  /\ WF_vars(OwnerSteps) /\ WF_vars(CheckWaiters)
  /\ WF_vars(StartMqttDelivery) /\ WF_vars(RestartMessageDelivery)
  /\ WF_vars(ServerReceive) /\ WF_vars(ClientReceive)
  /\ WF_vars(InitWaiter) /\ WF_vars(TermWaiter)

FairSpec == Spec /\ Fairness

-----------------------------------------------------------------------------
(* Properties                                                              *)

States == {"none", "AVAILABLE", "DELIVERED", "RECEIVED", "CONSUMED"}

(* Type invariant.                                                         *)
TypeOK ==
  /\ put  \in [Msgs -> {"none", "slot", "done", "lost"}]
  /\ kind \in [Msgs -> Kinds \cup {"none"}]
  /\ trying \in 0 .. MaxMsgs
  /\ node \in [Msgs -> [st : States, has : BOOLEAN, id : 0 .. MaxId, mdr : BOOLEAN, cnt : {0, 1}]]
  /\ ref  \in [Msgs -> [st : States \ {"CONSUMED"}, cnt : {0, 1}, mdr : 0 .. MaxId]]
  /\ q \in [cursor : 1 .. MaxMsgs + 1, reset : BOOLEAN, redeliv : BOOLEAN, rcursor : 0 .. MaxMsgs + 1,
            inflight : 0 .. MaxMsgs, preDelete : Nat, buffered : 0 .. MaxMsgs]
  /\ ws \in Status /\ checks \in Nat
  /\ own.at \in {"none", "get", "stop", "release", "commit", "deliver", "undo", "direct",
                 "callback", "restart", "unlock"}
  /\ dids \in [used : SUBSET Ids, next : 1 .. MaxId + 1, exhausted : BOOLEAN]
  /\ sess \in [on : BOOLEAN, started : BOOLEAN, stopping : BOOLEAN, engCtl : BOOLEAN,
               cb : 0 .. 3, timer : BOOLEAN, resume : BOOLEAN]

(* The queue keeps its promise of quality of service: a stored message is  *)
(* not given up before the subscriber has it, an exactly-once message is   *)
(* taken once, whatever crashes and breaks, and although the client        *)
(* recognises a copy only by its packet id.                                *)
Contract == INSTANCE QosContract WITH
  quality  <- [m \in Msgs |-> IF put[m] = "done" THEN kind[m] ELSE "none"],
  received <- [m \in Msgs |-> IF client.got[m] = 0 /\ m \in client.rejected THEN 1 ELSE client.got[m]],
  ended    <- {m \in Msgs : /\ put[m] = "done" /\ node[m].st = "CONSUMED"
                            /\ ~(own.at = "direct" /\ m \in BatchSet)}

KeepsContract == Contract!Spec

(* The delivery ids in use are exactly those of the messages on the queue  *)
(* that have one, and no two have the same: none leaks and none is given   *)
(* out twice, through refused batches and restarts.                        *)
IdsExact ==
  /\ dids.used = {node[m].id : m \in Msgs} \ {0}
  /\ \A m, n \in Msgs : m # n /\ node[m].id # 0 => node[m].id # node[n].id

(* An exactly-once id the client has not released still belongs to a       *)
(* message in the store: the id cannot be given to another message, which  *)
(* the client would take for a copy and drop.                              *)
UnreleasedIdsHeld == \A i \in client.unrel : \E m \in Msgs : kind[m] = "q2" /\ ref[m].mdr = i

(* What the client is told is in the store already: a stored message on    *)
(* the wire is recorded as delivered under its id, a PUBREL as received.   *)
SentIsStored ==
  \A i \in 1 .. Len(toC) : LET p == toC[i] IN
    /\ p.t = "PUBLISH" /\ Stored(p.m) => Inflight(ref[p.m].st) /\ ref[p.m].mdr = p.id
    /\ p.t = "PUBREL" => \E m \in Msgs : ref[m] = [st |-> "RECEIVED", cnt |-> 1, mdr |-> p.id]

(* A message sent without the DUP flag has not reached the client before.  *)
FirstIsFirst ==
  \A i \in 1 .. Len(toC) : LET p == toC[i] IN
    p.t = "PUBLISH" /\ ~p.dup =>
      /\ client.got[p.m] = 0
      /\ \A j \in 1 .. Len(toC) : j # i => toC[j].m # p.m

(* The number in flight is exact - only an acknowledgement that has given  *)
(* up its node and not yet counted is in between - and the limit holds,    *)
(* although a batch is gathered before any of it counts.                   *)
InflightExact ==
  LET out == {m \in Msgs : Inflight(node[m].st)}
  IN  /\ q.inflight = Cardinality(out) + Cardinality({m \in Msgs : ack[m].at = "count"})
      /\ Cardinality(out) <= Limit

(* "Inflight messages count 1 towards the predeletecount": the queue is    *)
(* held once by itself, once by its consumer, once by all messages in      *)
(* flight, and by acknowledgements that have yet to let go.                *)
PreDeleteExact ==
  q.preDelete = 1 + (IF ws = WS_DISCONNECTED THEN 0 ELSE 1) + (IF q.inflight > 0 THEN 1 ELSE 0)
                  + Cardinality({m \in Msgs : ack[m].at \in {"restart", "mark", "look", "tail"}
                                               /\ ack[m].old = 1})

(* Where no step on a message is under way, the store and memory agree on  *)
(* it: a restart loses no progress and invents none.                       *)
StoreFollows ==
  \A m \in Msgs : Stored(m) /\ put[m] = "done" /\ ack[m].at = "none" /\ m \notin BatchSet =>
    IF node[m].st = "CONSUMED" THEN ref[m] = NoRef
    ELSE ref[m] = [st |-> node[m].st, cnt |-> node[m].cnt, mdr |-> node[m].id]

Quiet ==
  /\ own.at = "none" /\ checks = 0 /\ trying = 0 /\ AckIdle
  /\ toC = <<>> /\ toS = <<>>
  /\ sess.on /\ ~sess.resume /\ ~sess.timer
  /\ \A m \in Msgs : put[m] # "slot"

(* When nothing is left to be done for a connected client, the queue is    *)
(* empty: no message waits for a check that nobody will make, or behind a  *)
(* waiter nobody will enable.  A message that the client refused with an   *)
(* error PUBREC stays, as received, until it reconnects.                   *)
NothingTrapped ==
  Quiet => \A m \in Msgs : \/ node[m].st \in {"none", "CONSUMED"}
                           \/ node[m].st = "RECEIVED" /\ m \in client.rejected

(* Messages leave the queue in order: one is first sent only when all      *)
(* before it have been, those whose put is not finished included.          *)
InOrder ==
  [][\A m \in Msgs : node[m].st = "AVAILABLE" /\ node'[m].st \in {"DELIVERED", "CONSUMED"} =>
        \/ budget'.crash # budget.crash
        \/ \A j \in Msgs : j < m => node[j].st # "AVAILABLE"]_vars

(* Every accepted message is eventually taken off the queue.               *)
AllConsumed == \A m \in Msgs : put[m] = "done" ~> node[m].st = "CONSUMED"

(* "pause delivery for the whole client and restart it when we receive     *)
(* acks": once the client has answered everything it was sent, delivery    *)
(* paused by the engine starts again.                                      *)
RestartedByAcks ==
  sess.on /\ sess.engCtl /\ ~sess.started ~> ~sess.on \/ sess.started

(* What is told to the client is in the store, what is in the store is in  *)
(* memory, and the packet ids that tie the two together are exact.         *)
StoreAndIdsAgree == SentIsStored /\ StoreFollows /\ IdsExact /\ UnreleasedIdsHeld

(* The counts that stop delivery and keep the queue from being freed are   *)
(* exact, so that a client that answers gets everything.                   *)
CountsAndWaiterExact == TypeOK /\ InflightExact /\ PreDeleteExact /\ NothingTrapped

(* Quality of service and order: exactly-once messages are taken once,     *)
(* stored ones are not given up, all are sent in the order they were put,  *)
(* and a copy is always marked as one.                                     *)
KeepsContractInOrder == KeepsContract /\ InOrder /\ []FirstIsFirst
====
