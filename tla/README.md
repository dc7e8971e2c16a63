# TLA+ verification of the Amlen messaging server

Amlen is a message broker written in C. This directory holds TLA+ modules that
model the parts of it where most of its concurrency and its failure handling live:
the delivery of messages by the engine (`server_engine/src`), the two-server
protocols of the forwarder (`server_protocol/src/fwd*.c`) and the heartbeat of a
high-availability pair (`server_store/src`); TLC configurations that check them; and
TLAPS proofs of the facts that matter most. Paths below are relative to the
repository; `engine/` stands for `server_engine/src/`.

## 1. The system and its parts

Protocol threads (MQTT, JMS, the forwarder) call the *engine*. The engine keeps
clients, sessions and consumers, queues, the topic tree and transactions, and
writes what must survive to the *store*, which a standby server may mirror. No
engine thread owns an object: any thread may be in any function, and objects are
kept alive by counts. Calls come back as callbacks on whatever thread happens to
complete them.

| Part | State | Operations | What makes it hard | What makes it correct |
|---|---|---|---|---|
| Waiter status (`engine/waiterStatus.c`) | one word per queue: lock, consumer state and mail box | enable, disable, tryLock for reclaim / queue operation, completeWaiterActions | compare-and-swap loops; flags left for the owner | exclusive lock, no request lost, each reported once |
| Simple queue (`engine/simpQ.c`) | nodes in pages, `bufferedMsgs`, `preDeleteCount`, consumer | put, direct hand-over, get, checkWaiters, reclaimSpace, reap, init/term waiter, delete | put and get ends locked separately; getters spin; put inside a callback | order, one fate per message, no lost wake-up, limits |
| Delivery callbacks (`engine/messageDelivery.c`) | session's `ActiveCallbacks` | deliverMessage, deliverStatus | runs with the waiter locked; re-enters the engine | a stop ends exactly when the last callback has come |
| Sessions and consumers (`engine/engine.c`) | flags, use counts, list of consumers, session mutex | create / destroy consumer, start / stop / resume / suspend delivery, destroy session | locks dropped between phases; enable races with destroy | counts equal owners; nothing used after its free |
| Message expiry (`engine/messageExpiry.c`), split list (`engine/engineSplitList.c`) | per queue: count, array of earliest expiries; list of queues | add, remove, reap, reaper thread, free | three locks in two orders; a bounded array; the queue freed under the reaper | nothing overdue is forgotten; no deadlock |
| Intermediate queue (`engine/intermediateQ.c`), delivery ids (`engine/clientState.c`), MQTT exchange (`server_protocol/src/mqtt.c`) | nodes with delivery state, store references, ids in use, packets | put, deliver in batches, acknowledge, redeliver, stop and restart, rehydrate | asynchronous commits; a crash between reference and state; ids that run out | at-least-once and exactly-once, in order; no id leaked or reused early |
| Multi-consumer queue (`engine/multiConsumerQ.c`), ack lists (`engine/ackList.c`) | one get cursor for all consumers, locks per message, messages in flight | put, commit, rollback, get by several consumers, acknowledge, hand back | the cursor is moved and rewound without a common lock | a message goes to one consumer at a time, in order, none is passed over |
| Lock manager (`engine/lockManager.c`) | hash chains, scopes, atomic release objects | take, request, release all, wait for a release | release of many locks while others wait and sleep | locks go together; no waiter outlives its object |
| Transactions (`engine/transaction.c`) | state, soft log, savepoints | create, prepare, commit, rollback, forget | phases run asynchronously; replay of the soft log | all or nothing, order of replay |
| Client state (`engine/clientState*.c`) | client table, zombies, thief of each client, stored record | create, steal, destroy, will message, expire, remove, recover | a new client waits for the old one's teardown; decisions made before the lock they need | one owner of a client id and of its record at a time |
| Thread jobs, job queue (`engine/threadJobs.c`, `engine/jobQueue.c`) | ring per thread, counted thread data, scavenger's list | add job, run jobs, scavenge, shut down | a ring with no lock between its ends; queues outlive their threads | no job lost or run twice; nothing freed in use |
| Store (`server_store/src`), high availability (`storeHighAvailability.c`) | generations, transactions; roles and views | commit, recover; heartbeat, failover | disk and network failure | durability; one primary |
| Forwarder (`server_protocol/src/fwd*.c`) | two branches per transaction, sequence numbers, lists of transactions | send, prepare, commit, recover | lost and repeated replies over reconnections and crashes | exactly once between servers |
| Topic tree, retained messages, remote servers, recovery, protocols, cluster membership, bridge, proxy, administration, UI | see `PROJECT.json` | | | |

How they interact in the delivery path: a put stores a message in a node and
calls `checkWaiters`; whoever finds the waiter enabled locks it, gets messages
and calls the consumer's callback with the lock held; stop, destroy, discard and
expiry leave flags in the waiter status if they find it locked, and the owner
acts on them in `ieq_completeWaiterActions`, which calls `deliverStatus`, which
counts down the session's callbacks and releases the consumer, which may end the
stop, disconnect the waiter, free the consumer and free the queue.

On a multi-consumer queue the messages of a transaction are locked through the lock
manager; commit marks all its locks as being released, makes the messages available,
rewinds the get cursor and only then unlinks the locks, so that a getter that meets
one waits instead of passing it. The store completes commits on its own threads and
calls back; the engine moves the rest of the work to the thread that asked, through
its job queue.

The hazards of this code, each with its line, are listed in `PROJECT.json`
together with the properties that would catch them.

## 2. Modules

| Module | Models | Role |
|---|---|---|
| `WaiterStatus` | `waiterStatus.[ch]`, the loops of `simpQ.c` on the status | constant-level operators: for each loop, when it spins (`XxxWaits`) and what it swaps in (`XxxTo`) |
| `ConsumerDelivery` | `simpQ.c`, `messageDelivery.c`, `waiterStatus.c`, the session and consumer part of `engine.c` | state machine; implements `DeliveryContract` |
| `DeliveryContract` | what a queue promises | abstract specification |
| `ExpiryIndex` | `messageExpiry.c`, the expiry functions of `simpQ.c`, `engineSplitList.c` | state machine of the expiry record and of the end of the queue |
| `JobQueue` | `jobQueue.c` | the ring, one memory access a step; implements `JobFifo` |
| `JobFifo` | what a job queue promises | abstract specification, a bounded FIFO |
| `ThreadJobs` | `threadJobs.c`, the thread data of `engineUtils.c`, the users of job threads | state machine; a queue is the FIFO that `JobQueue` implements |
| `LockManager` | `lockManager.c` | state machine |
| `MultiConsumerQueue` | the put, get, commit, rollback and acknowledgement paths of `multiConsumerQ.c` | state machine; uses what `LockManager` promises |
| `IntermediateQueue` | `intermediateQ.c`, delivery ids, flow control of `engine.c`, the MQTT exchange of `mqtt.c` | state machine on top of `WaiterStatus`; implements `QosContract` |
| `QosContract` | what a subscription promises | abstract specification |
| `ClientState` | `clientState.c`, `clientStateUtils.c`, `clientStateExpiry.c`, the client calls of `engine.c` | state machine of one client id |
| `ForwarderXA` | `fwdsender.c`, `fwdreceiver.c`, `forwarder.c` | state machine of the two servers and their connection |
| `HaHeartbeat` | the control thread of `storeHighAvailability.c` for a formed pair | state machine with discrete time |
| `MC...` | | budgets, mixes, symmetry and constants for TLC |
| `...Proofs`, `ConsumerDeliveryLemmas` | | inductive invariants, lemmas and theorems (section 4) |

### ConsumerDelivery

*State.* The queue: `waiterStatus` (the set of bits that are on), `pConsumer`,
`nodes` (the pages flattened to a sequence; a node is *empty* from the moment a
put takes it until the message is stored, then *full*, *removed* when expired),
`bufferedMsgs`, `preDeleteCount`, `expiryData` (the messages on record, as a set;
`ExpiryIndex` models the record itself). Each consumer: `useCount`,
`fIsDestroyed`, `consumerState`. The session: one record with the fields of
`ismEngine_Session_t` that delivery uses, and who holds its mutex. Each thread: a
program counter `pc`, a `stack` of return points, the callback it is in (`cb`,
which keeps the stack below the callback) and the C locals that outlive a step
(`loc`). Three variables exist only to state the contract: `fate`, `earlier`,
`returned`; `late` holds the messages whose expiry time has passed.

*Steps.* A step is one access to shared data: a successful compare-and-swap, an
atomic add, a read that is acted upon, or a section under a mutex that calls
nothing else. A failed swap has no effect and its loop goes round, so an iteration
that succeeds is one step, and a state in which the loop spins simply does not
enable the step. A section under the session mutex that does call other functions
(start, stop, resume, create and destroy session) takes `session.lock` and is
several steps.

*Control.* Functions that are called from several places (`checkWaiters`,
`completeWaiterActions`, `reclaimSpace`, `reapExpiredMsgs`, `disableWaiter`,
`releaseConsumerReference`) are modelled once and return through `stack`. The
message callback is the protocol's code: from `DeliverMessage` to
`CallbackReturnsTrue` / `CallbackReturnsFalse` / `SuspendMessageDelivery` the
thread is `idle` with `cb` set and may make any call of `CallbackOps`. So a put
made by a callback, from inside a put, is an ordinary behaviour of the model.

| C function | Actions |
|---|---|
| `iesq_putMessage` | `PutMessage`, `PutTry`, `Enqueue`, `CountMessage`, `AddMessageExpiryData`, `StoreMessage`, `PostPut`, `PostPutDiscard`, `PutDone` |
| `iesq_putToWaitingGetter` | `PutToWaitingGetter` |
| `iesq_checkWaiters`, `iesq_getMessage` | `CheckWaiters`, `CheckLock`, `GetMessage`, `StateToDelivering`, `ReenableWaiter`, `PendDisable`, `QueueEmpty` |
| `ism_engine_deliverMessage` and the callback | `DeliverMessage`, `CallbackReturnsTrue`, `CallbackReturnsFalse`, `SuspendMessageDelivery`, `SuspendedCallbackReturns` |
| `ieq_completeWaiterActions` | `CompleteWaiterActions`, `CompleteUnlock`, `ClearReclaim`, `Disabling`, `DisconnectConsumer`, `Disconnecting` |
| `ism_engine_deliverStatus` | `WaiterDisabledCallback`, `WaiterDisabledEndStop`, `UncancelCallback`, `UncancelEndStop`, `WaiterRemovedCallback` |
| `iesq_reclaimSpace` | `LockForReclaim`, `ReclaimSpace`, `UnlockAfterQOperation` |
| `ieme_reapQExpiredMessages[CB]`, `iesq_reapExpiredMsgs` | `ReapExpiredMessages`, `LockForReap`, `ReapWork`, `ReapLockBusy`, `UnlockAfterQOperation`, `ReapDone` |
| `ism_engine_startMessageDelivery` | `StartMessageDelivery`, `StartNext`, `AcquireForEnable`, `EnableWaiter`, `EnableUndo`, `StartDeliver`, `StartRelease` |
| `ism_engine_resumeMessageDelivery` | `ResumeMessageDelivery`, `ResumeCheck` |
| `stopMessageDeliveryInternal` | `StopMessageDelivery`, `StopDisable`, `StopNext`, `DisableWaiter`, `StopDone`, `StopFinish` |
| `ism_engine_createConsumer`, `iesq_initWaiter` | `CreateConsumer`, `ConnectConsumer`, `CreateLink`, `CreateUnlock`, `CreateDone` |
| `ism_engine_destroyConsumer`, `releaseConsumerReference`, `finishDestroyConsumer`, `iesq_termWaiter` | `DestroyConsumer`, `DisableWaiter`, `ReleaseConsumerReference`, `FinishDestroyConsumer`, `TermWaiter` |
| `ism_engine_destroySession` | `DestroySession`, `SessionMarkDestroyed`, `SessionReducePreNackAll`, `SessionNextConsumer`, `SessionRelease` |
| `iesq_deleteQ`, `iesq_reducePreDeleteCount` | `DeleteQ`, `ReducePreDeleteCount` |

### ExpiryIndex

The record of one queue (`earliest`, the sorted array of at most
`NUM_EARLIEST_MESSAGES` entries, and `messagesWithExpiry`), whether the queue is
on the reaper's list, the clock, whether the queue has been freed, and three locks:
the list's, the waiter's (reduced to who holds it and whether the waiter is enabled)
and the record's mutex. Where a function holds one lock and waits for another, the
wait is a state of its own, because that is where a deadlock would be. The array path
and the full scan of `iesq_reapExpiredMsgs` are one step each way, under both locks.
`FreeQExpiryData` and `FreeRemovesQueueFromList` are the end of the queue, which takes
the list lock only while messages are on record.

### JobQueue and ThreadJobs

`JobQueue` has one action per access to the ring: `AddJob` (find a free slot or
refuse), `WriteJob` (arguments, then function), `AdvancePutPos` for the putter;
`GetJob`, `ReadArgs`, `AdvanceGetPos`, `MarkSeparator`, `ClearSeparator` for whoever
holds the get lock. Barriers and the volatile array keep accesses in program order,
so the model is sequentially consistent. There is one putter, because the store calls
back the commits of a stream on one thread (`IEJQ_JOBQUEUE_PUTLOCK` is not defined).

In `ThreadJobs` a thread's data is counted (`useCount`), its job queue is an entry of
the scavenger's list, and an asynchronous operation holds a reference on the data of
the thread it is meant for; `AdoptJob` is `ietr_jobCallback` finding itself on another
thread. Time is counted in rounds of the scavenger, which is enough for the delays it
compares. The shutdown is `StopCallbacks`, `RequestEnd`, `ScavengerEnds` and
`DestroyThreadJobs`; at `StopCallbacks` the protocols have stopped calling.

### LockManager and MultiConsumerQueue

What is done under one hash-chain latch of the lock manager is one step, and so is
what a transaction does under the latch of its own scope. Selectors share one scope
and keep its latch while they sleep; instant getters run their callback under the
chain's latch and own nothing. A transaction goes through `ReleaseAllBegin`,
`MarkReleasing` (one lock a step), `ReleaseAllComplete`, `Unlink`, `AllUnlinked`,
`FireEvent` and `FreeLockScope`; a requester that meets a marked lock goes through
`RegisterInterest`, `CheckEvent` and `DropInterest`.

`MultiConsumerQueue` has the messages as nodes in put order, the shared get cursor
with its value *searching*, the get lock, and per thread an open transaction and the
delivery it is making. `Locates` is `iemq_locateMessageForGetter` (mark the message,
try to move the cursor, say that one searches, scan forward, keep the message or give
it back), `Checks` is `iemq_checkWaiters` with batches and the limit on what is in
flight, `TranEnds` is the soft log replay of commit and rollback. The lock manager
appears as a set of threads that are *releasing*: their locks make a request wait, any
other lock makes it fail. Consumers are destructive getters that acknowledge.

### IntermediateQueue

One subscription of one client: publishers put, one thread at a time owns the waiter
and prepares a batch, commits it to the store, sends, unlocks; acknowledgements come
on other threads, each in the steps the code has between its store commit, its
counters and its restart of delivery. `ref` is what the store holds and all that
`Crash` leaves; `Rehydrated` and `RestoredIds` are the restart. The kinds of message
are q0, n1 (at least once, not stored), q1 and q2. The waiter status is that of
`WaiterStatus`; pending actions of the waiter other than the disable that flow control
uses are left to `ConsumerDelivery`. Deletion, discard, expiry, transactions and
negative acknowledgements are left out.

### ClientState

The client states of *one* client id; different ids share nothing but a lock. Between
the decision to give up the last reference, made under `UseCountLock`, and the
decrement, made under the engine's mutex, the code holds neither: the decrement is an
action of its own (`LateDecrement`). A completion reported by return code or by
callback is one report. A delayed will that the reaper publishes may wait for the store
while the client expires, so what the reaper has still to do is a set. Non-durable
clients own no durable objects, the store always has room, and recovery ends before
clients are accepted.

### ForwarderXA

Two servers and the two directions of one channel between them. Every engine call
completes in a step of its own, as the callbacks do; a call that returns at once is
the case where nothing comes between. `CommitCount` is 1, so a transaction carries one
message. `Break`, `SenderCrash`, `ReceiverCrash`, `SPrepareFails` and `RFails` are the
faults; what is in flight is lost with the connection, a crash keeps what was stored.

### HaHeartbeat

Time is discrete; a message on a working link arrives in the tick in which it was sent,
and both control threads turn at least once a tick (`Look`, then `Io`); turns that
change nothing are left out. A pair that has formed is where it starts; discovery,
synchronisation, InfiniBand and TLS are left out. Whether the two servers started together
or the standby joined a primary at work matters only when the primary loses an
unsynchronised standby: in the first case its store refuses to go on (`SoloRoles`). The
standby and the primary count the synchronisation as done in the same step. An orderly
shutdown is two steps, the standby's answer and the primary's end (`ShutdownArrives`,
`ShutdownAnswered`), and anything may come between.

### Known races are switched on separately

Constants separate the races of section 6 from everything else, so that the passing
runs say something about the rest: `RacingDestroy` (a session is destroyed while
another call on it is between two lock sections), `SlowPut` (a message reaches its
expiry during its own put), `RacingScan` (a full scan runs while a put is between
recording and storing) and `RacingFree` (a queue is freed while the reaper is with it).
With a flag off, the model assumes what the rest of the server normally ensures, and the
hazard that the flag stands for is covered by no run. The other
disagreements of section 6 need no flag: the property that holds states what the code
does, with its exception, and the stronger one is left in the module. In `ForwarderXA` the
exception is the history variable `early`, which is set when a restarted receiver accepts
a connection before it has recovered its transactions (finding 9).

## 3. Runs

A *budget* names how many calls of each kind are made in a behaviour, and a *mix* a
combination of budgets; TLC tries every distribution over the threads and every
interleaving. A mix holds back choices of the environment only (calls, faults, the
crash), never a step that a thread has to take, so it takes no fair step away. In
`delivery` and `iq` a mix is the action constraint `MixStep`, elsewhere the budget of
`Next` or the named next-state relation `MixNext`.

| Run | Instance | Shows | Distinct states |
|---|---|---|---|
| `flow` | 2 threads, 1 consumer, 2 messages; create, start, stop, destroy, suspend; puts also from the callback | `LockExclusion`, `CallbacksAllowed`, `NoLostWakeup`; `CallsComplete` | 133 059 |
| `delivery` | 2 threads, 2 consumers, room for one message, six mixes: lifecycle, session, callback, overflow, expiry, calls of the reaper | `TypeOK`, `OwnerStatus`, `ReferencesBalance`, `NothingDangling`, `NothingUndone`; `ImplementsContract`, `DestroyedNotEnabled` | 387 599 |
| `expiry` | array of 2, 3 messages with expiries out of order, clock to 4, end of the queue | `IndexExact`, `ReaperListExact`; `ReapIsThorough`, `ThreadsGetOut` | 19 130 |
| `job_queue` | ring of 4 slots, 9 jobs, owner and scavenger | `RingSafe`; `ImplementsFifo`, `AcceptedJobsRun` | 19 051 |
| `thread_jobs` | 2 threads and the scavenger, 2 jobs, queue of 1, shutdown | `OwnershipExact`; `ScavengerCatchesUp` | 250 646 |
| `locks` | 2 messages, 2 transactions, 2 selectors, 1 instant getter | `ReleaseObjectSafe`, `ReleasedTogether`, `ChainsMatchScopes`; `RequestsAnswered` | 210 500 |
| `multi` | 2 threads, 2 consumers, 3 messages, batches of 2, 2 in flight | `OnceWhenCommitted`, `NothingOutOfReach`; `GotInOrder` | 1 203 886 |
| `iq` | five mixes of up to 3 messages, limit 2, 3 ids; crash, broken connection, refusal, error PUBREC | `StoreAndIdsAgree`, `CountsAndWaiterExact`; `KeepsContractInOrder` | 409 608 |
| `client` | 3 clients of one id, four mixes | `ClientsSeparate`, `DurableStateOwned`; `EverythingSettled` | 801 987 |
| `client_twice` | 3 clients, one lookup | violates `ReleasedOnce` (section 6) | |
| `fwd` | 4 messages without faults, or 2 with 2 faults, or 1 with 2 faults and connections before the recovery | `ExactlyOnce`, `NothingStalls`; `AllForwarded` | 533 450 |
| `ha` | timeout of 4 ticks, any one fault | `TypeOK`, `OnePrimaryUnlessIsolated`; `PairResolves` | 179 765 |

Properties that combine several, with their parts:

| Property | Parts |
|---|---|
| `CallbacksAllowed` | `StoppedMeansQuiet`, `NoCallbackUnderSessionLock` |
| `CallsComplete` | `StopCompletes`, `DestroyCompletes`, `CallsReturn` |
| `ReferencesBalance` | `ReferenceCount`, `CallbackBalance`, `SessionReferences` |
| `NothingDangling` | `NoUseAfterFree`, `QueueConsumerAlive`, `QueueAlive`, `DestroyFindsWaiter` |
| `NothingUndone` | `NoLostWakeup`, `BufferedCount`, `DiscardKeepsLimit`, `ExpiryRecorded` |
| `IndexExact` | `TypeOK`, `ArrayHoldsEarliest`, `ArrayPointsToNodes`, `CountIsExact` |
| `ReaperListExact` | `OnListWhenNeeded`, `ListedQueuesExist` |
| `RingSafe` | `TypeOK`, `JobsIntact`, `SeparatorNeverCalled`, `NoOverwrite` |
| `OwnershipExact` | `TypeOK`, `ReferencesCounted`, `NoUseAfterFree`, `FreedQueuesEmpty` |
| `ScavengerCatchesUp` | `QueuedJobsRun`, `RemovedQueuesFreed` |
| `ReleaseObjectSafe` | `TypeOK`, `InterestCounted`, `NoUseAfterFree` |
| `OnceWhenCommitted` | `TypeOK`, `DeliveredOnce`, `OnlyCommittedDelivered` |
| `NothingOutOfReach` | `CursorNotPastMessages`, `NothingTrapped` |
| `StoreAndIdsAgree` | `SentIsStored`, `StoreFollows`, `IdsExact`, `UnreleasedIdsHeld` |
| `CountsAndWaiterExact` | `TypeOK`, `InflightExact`, `PreDeleteExact`, `NothingTrapped` |
| `KeepsContractInOrder` | `KeepsContract`, `InOrder`, `FirstIsFirst` |
| `ClientsSeparate` | `OneClientAtATime`, `ReleasedOnce`, `CleanupSparesOthers`, `FreshUnlessDiscarded` |
| `DurableStateOwned` | `TypeOK`, `RecordOwned`, `NoOrphanSubscriptions` |
| `EverythingSettled` | `NothingForgotten`, `WillSettled`, `DeletionIsFinal` |
| `ExactlyOnce` | `TypeOK`; until a connection is early: `NoDuplicate`, `NothingLost`, `DecidedIsHeld`, `HandlesKnown`, `PreparedIsComplete` |
| `NothingStalls` | `SuspendedWillResume`; until a connection is early: `DecisionOnTheWay` |
| `PairResolves` | `BrokenPairEnds`, `Failover` |

Deadlock is checked except where the system really may stop: in `job_queue`,
`thread_jobs`, `client`, `iq` and `fwd` the jobs, entries, clients or messages of an
instance are used up. In `ConsumerDelivery` `Idle`, and in `MultiConsumerQueue`
`Finished`, let a state stutter in which every thread has left the engine, so a
deadlock is a thread stuck inside.

*The mixes of `client`.* Every option of creation with thefts, expiry and removal; lookups
of clients that start clean; wills of durable clients with thefts, discards and removals;
a crash. A will that was not published is dropped by a new client of the id, or by the
administrator: the removal of a zombie whose will is delayed goes on to its cleanup and
frees the will unpublished (`clientStateUtils.c:400-413`, `clientState.c:2179-2182`,
`2573-2589`). `WillSettled` names both and says that nothing else drops one. What the
mixes keep apart is kept apart for a reason: `ReleasedOnce`, a part of `ClientsSeparate`,
holds in these mixes and fails outside them, with lookups of clients that resume
(`client_twice`) and with delayed wills of non-durable clients (section 6). Wills do not
occur together with the crash; a recovered client has none in the model.

*Why the bounds are enough.* The waiter status is per queue and everything contends on
it, so one queue suffices. Two threads make every pair of loops meet. Two messages give
an order and a second message that can be missed; three with a limit of one make a
discard meet a discard that has been left to the owner. Two consumers make a list in
which one is skipped or unlinked. Cancelling a cancelled disable, the longest chain in
`waiterStatus.c`, takes enable, disable, enable, disable under one callback, which the
lifecycle and callback mixes have. An array of two with three messages overflows, drains
and is rebuilt. A ring of four slots holds two jobs beside the separator and the slot
being given back, and nine jobs wrap it twice. Two transactions and two selectors make
every pair of lock owner and waiter; with three messages one can be before, at and
behind the get cursor. A limit of two with three ids makes ids run out and be reused.
Three clients make a thief that is robbed itself. Two faults let a crash meet the
recovery from a break. `MaxGtrid` is larger than any sequence number reached.

*Fairness.* `ConsumerDelivery`: weak fairness of each thread's steps inside the
engine: the operating system runs every thread, and callbacks return. Calls
themselves are under no fairness. The spin loops are fair in effect because a
thread that spins waits for an owner that never waits for it. `ExpiryIndex`: weak
fairness of the reaper, strong fairness of the other threads: the reaper never
waits while it holds the list and sleeps for seconds between scans, so a thread
that wants the list lock meets it free again and again and gets it. `JobQueue`: the
putter and the scavenger go on; the owner need not come back. `ThreadJobs`: a job runs
to its end, the scavenger's loop and the store's callbacks go on; nothing makes a thread
come back. `LockManager`: a transaction that has begun to release goes on, and so does a
getter inside a request. `ForwarderXA`: weak fairness of each handler, timer and
completion of an engine call; none of faults. `HaHeartbeat`: the control threads and the
clock go on; `Tick` and `Io` are strongly fair because other steps that can be repeated
disable them for a moment. `ClientState` states progress without fairness: in every
state in which nothing is left to do, nobody is waiting (`NothingForgotten`).

## 4. Proofs

TLAPS proves seventeen theorems about six components. They hold for all values of the
constants, subject only to the named assumptions in the modules that declare the
constants. These are types and distinctness, never a bound:

| Assumption | Says |
|---|---|
| `ConstantsAssumption` (`ConsumerDelivery`) | the types of the parameters; any number of threads, consumers, messages and calls, and the race flags may be on |
| `JobQueueAssumption` (`JobQueue`) | the ring has at least 3 slots (`IEJQ_JOB_MAX` is 32 768): the separator, one job, one slot being given back |
| `ThreadJobsAssumption` (`ThreadJobs`) | the scavenger is none of the threads and *nobody* none of the threads and jobs; sizes and delays are positive, the algorithm and the shutdown are flags |
| `LockSets`, `ReservedNames` (`LockManager`) | names, transactions, selectors and instant getters are finite, disjoint sets, and the reserved values are none of them |
| `QueueParameters`, `NoThreadFresh` (`MultiConsumerQueue`) | finitely many threads and consumers, at least one message and a batch of at least one, and *no thread* is no thread |
| `ForwarderAssumption` (`ForwarderXA`) | the bounds and `CommitCount` are positive, `MinXA < MaxXA`, `MaxXA > 1`, as `forwarder.c:561` enforces |

Every inductive invariant was first an invariant of a TLC run of its module.

### ConsumerDelivery

* `TypeCorrect == Spec => []TypeOK`: in particular the waiter status is always a
  legal word and every call returns to a point that made a call;
* `MutualExclusion == Spec => []LockExclusion`: the status says *locked* exactly
  while one thread is at the get end, in the callback, discarding, expiring or
  completing pending actions, and two threads never are;
* `OwnerStatusSafe == Spec => []OwnerStatus`: whatever flags other threads have
  added, the owner finds a status its code handles; the asserts and FFDCs of
  `checkWaiters`, `completeWaiterActions` and `unlockAfterQOperation` never trip;
* `NoWakeupLost == Spec => []NoLostWakeup`: when every thread has left, the waiter is
  unlocked with no flag pending, and no stored message is at the head of the queue
  while its consumer is enabled;
* `NothingLeftUndone`: `Spec => []NothingUndone`, that is, besides that the count of
  messages is exact, no discard is due and the reaper has every expiring message on
  record. With `DiscardOldMessages` the limit must be positive: with a limit of 0 the
  discard aims at one message (finding 4) and the queue stays above its limit.

*The inductive invariant* is `Inv == TypeOK /\ LockInv` (`ConsumerDeliveryLemmas`).
`LockExclusion` is not inductive: what a thread does when it gives the lock up
depends on what it finds in the status, so exclusion needs `OwnerStatus`; and that
needs to be known one step earlier than it is used, across the disabled callback
(`waiterDisabledCB`, `endStop`) and the discard (`reclaim`) that come between the
decision and the swap. `StatusMeets` states it for every point of the owner, and
`LocalsMeet` states what the C locals hold where they are used: where a sub-step
returns to (`after`), and the status a queue operation locked from (`old`), without
which the unlock cannot be shown to find what it left.

*The argument.* The first lemmas of `ConsumerDeliveryLemmas` show that each transition made by a thread
that does *not* own the lock keeps every shape an owner may rely on (`Keeps`): it
changes an owned status only by adding flags or by cancelling a cancel. Then a step
is of one of four kinds, each with a lemma: a step of a thread that neither has nor
takes the lock (`FreeInv`), one that has or takes it and keeps it (`HoldInv`), one
that hands it to `completeWaiterActions` (`CompleteInv`), one that gives it up
(`UnlockInv`). `ConsumerDeliveryProofs` has one lemma per action that puts it under
its kind and proves the types; `NextInv` collects them.

*Nothing undone* (`ConsumerWakeupProofs`) needs a second invariant on top of `Inv`,
`RestInv`, because what holds when all threads have left says nothing of the states
before. The idea is that while there is something to do, some thread is on its way to
it. `WakeInv`: when the waiter is open (enabled, or its owner has just found the queue
empty) and a message is ready, some thread `Wakes`, that is, it is about to look at the
queue, to disable the waiter, or to visit the consumers of the session. `DiscardInv`:
when the queue is above its limit, the flag is set for the owner or some thread
`Discards`. `NodeInv`: every message has one node, a node is empty exactly while its put
is about to fill it, and the count and the expiry data are exact but for the puts that
have not come to them. A thread on its way may be deep in calls, inside the message
callback and below it; `ControlInv` therefore says what is on the stacks. Its hardest
part is a start: the waiter it enables is looked at only after it has let go of the
session lock, so nobody may stop delivery or destroy the session unseen meanwhile
(`Starting`, `HoldsSession`); a destroy that has already marked the session is still to
visit all consumers and disables what the start has enabled. A step then is one about
something else (`PlainStep`), one after which a thread is about to look (`LookStep`), one
of the session (`SessionStep`) or one on the nodes, each with lemmas on what a call, a
return, the callback and its end do to the stacks (`PushMoved`, `ReturnMoved`,
`EnterMoved`, `LeaveMoved`).

### JobQueue

* `RingIsSafe == Spec => []RingSafe`: a job comes out with the arguments it was added
  with, the separator is never called as a job, and the putter never writes over a job,
  the separator or a slot that a getter is copying;
* `RingIsFifo == Spec => ImplementsFifo`: the ring implements `JobFifo`. Accepted jobs
  are taken once, in the order of the offers, and an offer is refused only when the ring
  is full but for the separator and at most one slot that is being given back.

*The inductive invariant* is `RingInv`. The two ends share no lock, so neither knows
where the other is, and the separator alone keeps them apart. The slots are therefore
measured from `First`, the slot after what getters have taken: at growing distance come
the waiting jobs, the empty slots, the separator, and last the slot in the hands of a
getter (`RingLayout`). `GetterInv` and `PutterInv` say what each end has copied or
written so far. The lemmas on `Distance`, `NextPos` and `Ahead` reduce a step of either
end to arithmetic. For the refinement, the abstract queue is the segment of the ring
from `First` up to where the putter publishes; it grows when the function pointer is
written, not when `putPos` moves, and shrinks when the getter reads the function pointer,
not when it moves `getPos` (`SegmentGrows`, `SegmentShrinks`, `FifoStep`).

### ThreadJobs

* `OwnershipKept == Spec => []OwnershipExact`: the use count of a thread's data is the
  number of its users, nobody touches a freed queue or the data of a thread that has gone,
  and no queue is freed with a job on it, whichever comes first of the end of a thread,
  the store's callback, the scavenger and the shutdown.

*The inductive invariant* is `OwnerInv`. The parts of `OwnershipExact` do not carry over
a step by themselves: a queue is freed one round of the scavenger after its removal was
asked for, by which time the reason is gone from the state. `DataLives` therefore ties the
data to the list (data is live exactly while its count is not zero, and exactly then its
entry is listed without a removal request), and `QueuesLive` ties the queue to the list and
to the round under way: a queue lives while it is listed *or* the scavenger has taken it
off to remove it. `TodoListed` says what can happen to a queue between the scan, which
holds the list lock, and the visit, which does not: one that is only visited stays listed,
even if its removal is asked for meanwhile. `JobsPlaced`, `WorkPlaced` and `LocksPlaced`
say that a job is on one queue or run by one thread and that the get lock is held by
exactly the one who empties the queue; a freed queue is then seen to be empty because any
job on it would be a user of the data. `AdoptJobKeeps` is the step that a count kept per
thread could get wrong: a job moves between two counts, and may be the last user of one.

### LockManager

* `LocksReleasedTogether == Spec => []ReleasedTogether`: once a transaction has begun to
  unlink its locks, every lock it still has is marked; a request waits, it is not refused;
* `ScopesMatchChains == Spec => []ChainsMatchScopes`: hash chains and scopes list the
  same locks, so no lock outlives its transaction;
* `ReleaseObjectLives == Spec => []ReleaseObjectSafe`: an atomic release object counts
  exactly its users and is freed by the last of them, never under a sleeping thread,
  before its event is fired, or while a marked lock leads to it.

*The inductive invariant* is `LockInv`. Releasing together needs to know how far the walk
of Begin has come (`MarkedUpTo`), and that the walk meets each lock once (`ChainsExact`).
The count needs more than its own definition: the first lock of a transaction *sets* it
to 2 (`lockManager.c:1242`), which is right only because nobody can be
waiting for a transaction that has not begun to release (`WaitersPlaced`), which in turn
rests on only locks of such transactions being marked. That counts are cardinalities is
carried by `WaitersCount`, `FS_AddElement` and `FS_RemoveElement`; the bound on the count
in `TypeOK` is derived at the end.

### MultiConsumerQueue

* `DeliveredOnceWhenCommitted == Spec => []OnceWhenCommitted`: a message is in one
  thread's batch, with one client or on the queue, never in two of these, and none is on
  its way before its put is committed;
* `CursorBehindMessages == Spec => []CursorNotPastMessages`: an available message behind
  the shared get cursor is one that some thread is about to rewind for;
* `MessagesWithinReach == Spec => []NothingOutOfReach`: in addition, when every thread has
  left the queue no message that could be got is left beside a consumer that waits for
  one. Two exceptions, both the code's own: so much is in flight that delivery is stopped
  (the next acknowledgement starts it again), and a message behind an unfinished
  transactional put that a search took for the end of the queue;
* `MessagesGotInOrder == Spec => GotInOrder`: a getter keeps a message only when no
  earlier one can be got, with the same exception.

*The inductive invariant* is `QueueInv`. `DeliveredOnce` is not inductive because a
getter marks a message before it knows whether it may keep it: the mark counts as carried
(`Carried`). Which lock a thread has changes at four points of a commit, so `Holds` gives
the locks exactly at each, and `InflightCounted` is there for the type bound of
`inflight`. The order needs `NothingPassed`: an available message is reached by the
search under way or by the next one (`Reached`), or a thread is about to rewind for it,
or an open transaction has it locked. It is kept when the cursor jumps forward because the
getter that moves it has seen every node it jumps over (`ScanForward`), and a rewind in
between makes its compare-and-swap fail (`UpdateGetCursor`).

`MessagesWithinReach` is about the end of every thread's work, so it needs to know who will
still do what: a second invariant, `CoverInv`, stands on `QueueInv`. Its centre is
`AllCovered`: every message that is wanted (it can be got, and some consumer would take
it) is covered by a thread that will come to it, or lies beyond an unfinished put. A
thread covers a message (`Covers`) while it puts it, gives it back, is about to check the
waiters or to lift the prevention of delivery, holds a batch it will go on from, ends a
transaction it will wake for, searches at or before it, or passes over consumers one of
which will take it or make the pass be repeated. The supports say what makes the promise of
a thread reliable: `ConsumersOwned` (a busy consumer is some thread's, so somebody gives it
back), `PutsFill` (a node that looks like the end of the queue has a put about to fill it),
`AckedKept`, `WillWake` (a transaction at its end wakes the consumers if it has locked
anything that can be got once unlocked) and `LimitKept` (without a limit delivery is never
prevented).

### ForwarderXA

* `ForwardedOnce == Spec => []ExactlyOnce`: whatever breaks, fails or restarts, in any
  order and any number of times, the receiver commits no message twice, what the sender
  gives up is committed or bound to be, the sender offers nothing again that the receiver
  has decided to commit, a Prepare names only messages whose delivery handle the sender
  still has, and no branch is prepared under a pending put;
* `ForwardingMoves == Spec => []NothingStalls`: on a started connection the decision on
  every prepared branch S is on its way, and a suspended consumer has a commit or a resume
  still to come.

Neither has a hypothesis: connections accepted between the restart of the receiving server
and its `ism_fwd_recoverTransactions`, which the code does not prevent (finding 9), are
among the behaviours. What the properties say of such a behaviour is limited to the time
before the first of them (`early`), except that the types and the resumption of a
suspended consumer hold throughout. TLC finds each of the other parts violated after one.

*The inductive invariant* is `ForwardInv` as long as no connection was early (`TimelyInv`),
and in all behaviours `AlwaysInv`, what is kept whatever the receiver has forgotten: the
types, `Resuming`, and that a transaction being created is the current one (`Succeeds`).
The lemmas on single actions are about
the first; `early` once set stays set (`EarlyStays`), so a step to a state that is not
early starts from one. What the sender may conclude from a missing or
present branch R depends on where the transaction is in its round, and the round runs
through two servers, two directions of a connection and the engine calls of both ends, so
most of the invariant says where things are. `Placed`: a transaction is at one place of
its round (collecting, asked to prepare, being acknowledged, answered, preparing, told).
`OnceR`, `OnceS`: letters that decide something exist once. `LinkPlaced`: what a closed or
broken end still has. `Numbered`: nothing is left anywhere of a sequence number above the
receiver's, which is what makes it safe to start again at the largest recovered number
plus a gap; the sender may know larger ones than the restarted receiver, and
`ism_fwd_doRecover` skips them before a message flows. `OneToken`, `Recovers`, `Quiet`: the
recovery of a connection passes one question or answer to and fro, and nothing else is
under way meanwhile, so an answer is not overtaken by the event it is about. On top of
these stand the facts about content: `BranchS`, `BranchR`, `Claims` and `Apart` (a message
is claimed by one branch at a time on each side), `Same` (while the connection is whole
both ends mean the same messages by a transaction), and `Agreed`, the heart of two-phase
commit: the receiver prepares only what the sender holds prepared with the same messages,
a decided branch R stays known until the sender has let go, and a rollback answer is given
only to what is not decided. `Starting`, `Deciding` and `Resuming` are for the second
theorem. The proof has a lemma for every action, with one step for each part; the lemmas
before them (`RSend`, `RTail`, `SSend`, `STail` and the like) say what a step does to the
letters on the connection, so that no action's proof opens a sequence.

*Only model-checked.* Liveness under fairness (`CallsComplete`, `ThreadsGetOut`,
`AcceptedJobsRun`, `ScavengerCatchesUp`, `RequestsAnswered`, `AllForwarded`,
`PairResolves`) and the properties that need ENABLED are beyond this prover, and so is
what a recursive definition computes for every input. Not proved so far: the refinements
`ImplementsContract` and `KeepsContractInOrder`; in `ConsumerDelivery` the properties that
count activations over all stacks (`ReferencesBalance`), `NothingDangling`,
`CallbacksAllowed` and `DestroyedNotEnabled`; and everything about `ExpiryIndex`,
`IntermediateQueue`, `ClientState` and `HaHeartbeat`.

## 5. What is not modelled

* Simple queue: the page structure under `nodes` (planned), transactional puts, the
  engine-controlled suspend and restart, the start / stop options of the engine,
  draining a queue, the dump lock, failed allocations, the two lock types chosen
  at build time. A simple queue has no acknowledgements, so nack on session end is
  only its count.
* Expiry: retained messages, the schedule of scans, statistics.
* Intermediate queue: transactional puts, discard and expiry, negative
  acknowledgements, queues kept for redelivery only, deletion.
* Multi-consumer queue: selectors and browsers, delivery ids and redelivery,
  per-consumer flow control, pages and their clean-up, expiry, reclaiming, store records.
* Lock manager: taking a lock through `ielm_requestLock` with commit duration (recovery
  only), `ielm_releaseManyLocks` and `ielm_releaseLockNoFree` (unused), the cache of blocks.
* Client state: checks of protocol and user, durable objects of non-durable clients,
  import, the stored form of wills (in the model a will is lost in a crash), a full store,
  resizing the table.
* Forwarder: the QoS 0 flow and its window, retained-message requests, channel creation
  and removal by the cluster.
* High availability: discovery and the choice of roles, synchronisation of a new standby,
  replication of store transactions, InfiniBand, TLS.
* The parts that `PROJECT.json` lists as not modelled, each with its reason: among them
  acknowledgement lists, the soft log of transactions, expiring get, the topic tree, the
  store's memory and disk layout (its promise is assumed: transactions are atomic, in
  order, and survive a crash once committed), cluster membership, the MQ bridge, the proxy.

Message contents, statistics, tracing and return codes that no caller acts on are
abstracted.

## 6. Findings

`client_twice` is a run of its own: `iecs_releaseClientStateReference`
(`engine/clientState.c:2108`) decides on the late decrement whenever it brings `UseCount`
from 2 to 1 in ZombieRemoval or ZombieExpiry, and leaves it at 1 until it has the engine's
mutex; a second reference taken and released in that window makes the same decision, and
two decrements follow for one reference. The code asserts the contrary
(`clientState.c:2196`, `2198`). The run takes the reference by a lookup. A new client can
take it too: a non-durable zombie is kept for its delayed will
(`clientStateExpiry.c:485`), the reaper publishes the will and decides, a new client takes
the zombie over before the decrement, and its release decides again. With `wills |->
WillKinds` in a mix of `StealingRequests`, TLC finds that without any lookup.

The other disagreements between the code and what its comments or documents say are kept
as properties of the modules. Each is violated by the run in the first column with the
change in the second (dropping SYMMETRY and mixes, `CHECK_DEADLOCK FALSE`, and checking
that property alone):

| Run | Change | Property | Where |
|---|---|---|---|
| `delivery` | `Consumers = {c1}`, `RacingDestroy = TRUE`, `Budget <- SessionCalls` | `NoUseAfterFree` | (1) `engine.c:2772` |
| `delivery` | the same | `QueueConsumerAlive` | (2) `engine.c:6641` |
| `delivery` | `SlowPut = TRUE`, `Budget <- ExpiryCalls` | `NoReleaseOfUnstoredMessage` | (3) `simpQ.c:2792` |
| `delivery` | `MaxMsgCount = 0`, `Budget <- OverflowCalls` | `UnlimitedNeverDiscards` | (4) `simpQ.c:947` |
| `expiry` | 4 messages, `MCExpiryMixed`, `MaxTime = 2`, array of 1, `RacingScan = TRUE` | `OnListWhenNeeded` | (5) `simpQ.c:2831` |
| `expiry` | `RacingFree = TRUE` | `ListedQueuesExist` | (6) `messageExpiry.c:773` |
| `thread_jobs` | none | `NothingLeftAtDestroy` | (7) `threadJobs.c:642` |
| `multi` | none | `NeverTrapped` | (8) `multiConsumerQ.c:9595` |
| `fwd` | `Spec`, `MaxMsgs = 1`, `MaxGtrid = 24` | `NoDuplicate` | (9) `transport.c:2034` |
| `fwd` | the same | `early \/ NoOrphanedBranch` | (10) `forwarder.c:789` |
| `iq` | `Limit = 1`, `MaxId = 2` | `PreDeleteExact` | (11) `intermediateQ.c:3011` |
| `iq` | `FairSpec`, `Kinds = {"q2"}`, no faults, `MaxRejects = 2` | `RestartedByAcks` | (12) `mqtt.c:4116` |
| `client` | `Mixes <- ResumedAndDiscarded` | `FreshMeansFresh` | (13) `clientState.c:2123` |
| `client` | none | `RecordedAsConnected` | (14) `engine.c:1761` |
| `ha` | `Spec` | `OnePrimary` | (15) `storeHighAvailability.c:7237` |
| `ha` | `Hbto <- LongPrimary`, no faults | `OnePrimary` | (16) `storeHighAvailability.c:5571` |

1. `stopMessageDeliveryInternal` locks the session a second time and walks its consumers
   without looking at `fIsDestroyed`; a `destroySession` in between has freed them.
2. `ism_engine_createConsumer` frees a consumer whose session it finds destroyed without
   `termWaiter`: the queue keeps the pointer, the waiter and the `preDeleteCount`.
3. `iesq_putMessage` records the expiry of a node before its message is stored; the reaper
   can release a message that is still NULL. The intermediate queue guards against this.
4. With `maxMessageCount` 0, documented as unlimited (`policyInfo.h:113`), and
   DiscardOldMessages, the test after a put discards.
5. `iesq_fullExpiryScan` forgets messages that are recorded but not stored, or stored
   behind such a node, and can take the queue off the reaper's list.
6. `ieme_freeQExpiryData` takes the list lock only while messages are on record, so a
   queue whose last message the reaper has just expired is freed under it.
7. The scavenger ends without a last round: a job from the last store callbacks is freed
   with its queue, where `threadJobs.c:295` expects nothing to be left.
8. A getter takes a node that is assigned but not yet filled for the end of the queue and
   counts on its putter to call `checkWaiters` (`multiConsumerQ.c:9587`); a put in a
   transaction that is rolled back does not, and a message behind it waits.
9. The forwarder's endpoint starts before its recovery; a sender that reconnects in
   between is told to roll back what the recovery then commits.
10. `ism_fwd_commit_outstanding` is only ever decremented, so recovery waits for no commit
    and can forget a branch that has not ended.
11. With a limit of one message in flight the last acknowledgement takes the branch that
    made room and not the one that lets go of the queue.
12. A PUBREC with an error keeps its delivery id; when such messages hold all ids, delivery
    pauses for acknowledgements that cannot come, until the client reconnects.
13. A thief of a client that is being discarded is told OK, not *resumed*, and is then
    handed the record and the durable subscriptions.
14. The last connected time is written when a client is stolen without clean start,
    where the comment says only otherwise (`engine.c:1756`).
15. When only the discovery link is cut, the standby's timeout can come first; it closes
    the data channels, the primary closes the connection that still works, and the standby
    promotes itself.
16. The timeout is reduced to the smaller of the two servers' values but the heartbeat
    interval is not; with values that differ twentyfold the standby promotes itself with
    nothing broken.

Observed while reading, and modelled as written: `iesq_termWaiter` never swaps in
the DISCONNECT flag while other flags are pending (`simpQ.c:1188`) but spins until
the owner is done, unlike `intermediateQ.c:2248`; the array path of a reap expires
`Expiry <= now`, the full scan `Expiry < now`; the reap's trylock of the record is
redundant against getters, who hold the waiter, but not against putters.

## 7. Plan

Done: the modules of section 2 and the theorems of section 4. To do, in this order:

1. Theorems: the lock order of `ExpiryIndex`; `CallbacksAllowed` and
   `DestroyedNotEnabled` of `ConsumerDelivery`; the steps of `DeliveryContract`.
2. `ExpiringGet`: a timer against a delivered message.
3. `Transaction`: the soft log, its phases and savepoints.
4. Role election of the HA pair.
5. `SimpQPages`: the pages under `nodes`, shown to implement the sequence of nodes.
