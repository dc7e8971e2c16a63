----------------------------- MODULE ThreadJobs -----------------------------
(***************************************************************************)
(* Per-thread job queues and their scavenger (threadJobs.c, engineUtils.c). *)
(*                                                                          *)
(* A thread that starts an asynchronous commit asks for the rest of the work *)
(* to be done on itself: it takes a reference on its own thread data, and    *)
(* when the store calls back, the callback thread puts a job on the queue of *)
(* that thread, which runs it when it next enters the engine.  If it does    *)
(* not come back, the scavenger runs the job.  The last reference on the     *)
(* thread data, wherever it goes, asks for the queue to be removed; only the *)
(* scavenger frees queues.                                                   *)
(*                                                                          *)
(* The ring of a queue is module JobQueue; here a queue is the FIFO that it  *)
(* implements.  Time is counted in rounds of the scavenger.                  *)
(***************************************************************************)
EXTENDS Naturals, Sequences, FiniteSets

CONSTANTS Threads,     \* engine threads with a job queue
          Scavenger,   \* ietj_scavengerThread, which has a queue of its own
          Nobody,
          Jobs,        \* asynchronous operations started in a behaviour
          QueueMax,    \* jobs a queue holds before an add is refused
          BatchSize,   \* ietjSCAVENGER_THREAD_JOB_BATCH_SIZE
          MaxDelay,    \* longest wait of the scavenger, in increments
          MaxEntries,  \* bound on the calls of the engine a thread makes
          Extra,       \* ThreadJobAlgorithm is ..._ALGORITHM_EXTRA
          Shutdown     \* ism_engine_term is called

ASSUME ThreadJobsAssumption ==
    /\ Scavenger \notin Threads /\ Nobody \notin Threads \cup {Scavenger} \cup Jobs
    /\ QueueMax \in Nat \ {0} /\ BatchSize \in Nat \ {0}
    /\ MaxDelay \in Nat \ {0} /\ MaxEntries \in Nat
    /\ Extra \in BOOLEAN /\ Shutdown \in BOOLEAN

AllThreads == Threads \cup {Scavenger}

VARIABLES useCount,    \* of a thread's data; 0 when there is none
          entryCount,  \* entries of the thread to the engine
          exists,      \* thread -> its data: "none", "live", "freed"
          queue,       \* thread -> its job queue
          entry,       \* thread -> its entry in the scavenger list
          pc,          \* thread -> where it is
          work,        \* thread -> the queue it is emptying, and its current job
          job,         \* job -> its state and the thread that it is meant for
          todo,        \* scavengeQueue / scavengeRemoval: queues left this round
          engine       \* "up", "callbacksStopped", "endRequested", "destroyed"

vars == <<useCount, entryCount, exists, queue, entry, pc, work, job, todo, engine>>
dataVars == <<useCount, exists, entry>>

NoEntry == [listed |-> FALSE, removalRequested |-> FALSE, lastEntryCount |-> 0,
            idle |-> 0, delay |-> 1]
NewQueue == [state |-> "live", jobs |-> <<>>, getLock |-> Nobody, ownerBlocked |-> FALSE]
NoWork == [on |-> Nobody, calls |-> 0, job |-> Nobody]

\* The scavenger has been started (ietj_startThreadJobScavenger); it initialises
\* itself like any other thread.
Init == /\ useCount = [t \in AllThreads |-> IF t = Scavenger THEN 1 ELSE 0]
        /\ entryCount = [t \in AllThreads |-> 0]
        /\ exists = [t \in AllThreads |-> IF t = Scavenger THEN "live" ELSE "none"]
        /\ queue = [t \in AllThreads |->
                       [NewQueue EXCEPT !.state = IF t = Scavenger THEN @ ELSE "none"]]
        /\ entry = [t \in AllThreads |-> [NoEntry EXCEPT !.listed = (t = Scavenger)]]
        /\ pc = [t \in AllThreads |-> IF t = Scavenger THEN "scan" ELSE "new"]
        /\ work = [t \in AllThreads |-> NoWork]
        /\ job = [j \in Jobs |-> [state |-> "none", thread |-> Nobody]]
        /\ todo = {}
        /\ engine = "up"

(* -------------------------- Thread data references ----------------------- *)

\* ieut_acquireThreadDataReference.
Acquire(t) == useCount' = [useCount EXCEPT ![t] = @ + 1] /\ UNCHANGED <<exists, entry>>

\* ieut_releaseThreadDataReference: the last one requests the removal of the
\* queue (ietj_removeThreadJobQueue, under the list lock) and frees the data.
Release(t) ==
    /\ useCount' = [useCount EXCEPT ![t] = @ - 1]
    /\ IF useCount[t] = 1
       THEN /\ exists' = [exists EXCEPT ![t] = "freed"]
            /\ entry' = IF entry[t].listed
                        THEN [entry EXCEPT ![t].removalRequested = TRUE] ELSE entry
       ELSE UNCHANGED <<exists, entry>>

\* A job moves from one thread to another: ietr_jobCallback.
Transfer(from, to) ==
    /\ useCount' = [useCount EXCEPT ![from] = @ - 1, ![to] = @ + 1]
    /\ IF useCount[from] = 1
       THEN /\ exists' = [exists EXCEPT ![from] = "freed"]
            /\ entry' = IF entry[from].listed
                        THEN [entry EXCEPT ![from].removalRequested = TRUE] ELSE entry
       ELSE UNCHANGED <<exists, entry>>

(* ------------------------------ Engine threads --------------------------- *)

\* ism_engine_threadInit, ieut_createFullThreadData, ietj_addThreadJobQueue.
ThreadInit(t) ==
    /\ engine = "up"
    /\ pc[t] = "new"
    /\ pc' = [pc EXCEPT ![t] = "out"]
    /\ useCount' = [useCount EXCEPT ![t] = 1]
    /\ exists' = [exists EXCEPT ![t] = "live"]
    /\ queue' = [queue EXCEPT ![t] = NewQueue]
    /\ entry' = [entry EXCEPT ![t] = [NoEntry EXCEPT !.listed = TRUE]]
    /\ UNCHANGED <<entryCount, work, job, todo, engine>>

\* ieut_enteringEngine: count the entry, then look at the own job queue.
EnterEngine(t) ==
    /\ pc[t] = "out"
    /\ entryCount[t] < MaxEntries
    /\ engine = "up"
    /\ entryCount' = [entryCount EXCEPT ![t] = @ + 1]
    /\ pc' = [pc EXCEPT ![t] = "enter"]
    /\ UNCHANGED <<dataVars, queue, work, job, todo, engine>>

\* ietj_processJobQueue: the owner tries the lock, and if it has to wait leaves
\* word for the scavenger (iejq_recordOwnerBlocked).
TakeOwnLock(t) ==
    /\ pc[t] \in {"enter", "wait"}
    /\ IF queue[t].getLock = Nobody
       THEN /\ queue' = [queue EXCEPT ![t].getLock = t]
            /\ work' = [work EXCEPT ![t] = [NoWork EXCEPT !.on = t]]
            /\ pc' = [pc EXCEPT ![t] = "jobs"]
       ELSE /\ pc[t] = "enter"
            /\ queue' = [queue EXCEPT ![t].ownerBlocked = TRUE]
            /\ pc' = [pc EXCEPT ![t] = "wait"]
            /\ UNCHANGED work
    /\ UNCHANGED <<entryCount, dataVars, job, todo, engine>>

\* iejq_getJob, and the call of the job's function.
GetJob(t) ==
    /\ pc[t] = "jobs"
    /\ work[t].job = Nobody
    /\ queue[work[t].on].jobs # <<>>
    /\ LET q == work[t].on
           j == Head(queue[q].jobs)
       IN /\ queue' = [queue EXCEPT ![q].jobs = Tail(@)]
          /\ work' = [work EXCEPT ![t].job = j, ![t].calls = @ + 1]
          /\ job' = [job EXCEPT ![j].state = "running"]
    /\ UNCHANGED <<entryCount, dataVars, pc, todo, engine>>

\* ietr_jobCallback finds itself on another thread than the one asked for, and
\* takes the transaction over.
AdoptJob(t) ==
    /\ work[t].job # Nobody
    /\ LET j == work[t].job
       IN /\ job[j].thread # t
          /\ Transfer(job[j].thread, t)
          /\ job' = [job EXCEPT ![j].thread = t]
    /\ UNCHANGED <<entryCount, queue, pc, work, todo, engine>>

\* The job is done and gives up its reference.
JobDone(t) ==
    /\ work[t].job # Nobody
    /\ LET j == work[t].job
       IN /\ Release(job[j].thread)
          /\ job' = [job EXCEPT ![j].state = "done"]
    /\ work' = [work EXCEPT ![t].job = Nobody]
    /\ UNCHANGED <<entryCount, queue, pc, todo, engine>>

\* The batch is unlimited for the owner, for a queue to be removed and under the
\* old algorithm.
BatchDone(t) == /\ t = Scavenger /\ Extra
                /\ work[t].on \in Threads
                /\ <<work[t].on, TRUE>> \notin todo
                /\ work[t].calls >= BatchSize

\* The queue is empty or the batch is done: iejq_releaseGetLock.
EndJobs(t) ==
    /\ pc[t] = "jobs"
    /\ work[t].job = Nobody
    /\ queue[work[t].on].jobs = <<>> \/ BatchDone(t)
    /\ queue' = [queue EXCEPT ![work[t].on].getLock = Nobody]
    /\ IF t = Scavenger
       THEN IF work[t].on = Scavenger
            THEN pc' = [pc EXCEPT ![t] = "next"] /\ work' = [work EXCEPT ![t] = NoWork]
            ELSE pc' = [pc EXCEPT ![t] = "finish"] /\ UNCHANGED work
       ELSE pc' = [pc EXCEPT ![t] = "in"] /\ work' = [work EXCEPT ![t] = NoWork]
    /\ UNCHANGED <<entryCount, dataVars, job, todo, engine>>

\* A call of the engine, or a job, starts an asynchronous commit and asks for
\* its own thread to be used (ietr_assignTranJobThread, iemq_acknowledge,
\* iemq_checkWaiters, ism_engine_destroyClientState).
StartAsync(t, j) ==
    /\ pc[t] = "in" \/ work[t].job # Nobody
    /\ engine \in {"up", "callbacksStopped"}
    /\ job[j].state = "none"
    /\ job' = [job EXCEPT ![j] = [state |-> "committing", thread |-> t]]
    /\ Acquire(t)
    /\ UNCHANGED <<entryCount, queue, pc, work, todo, engine>>

LeaveEngine(t) ==
    /\ pc[t] = "in"
    /\ pc' = [pc EXCEPT ![t] = "out"]
    /\ UNCHANGED <<useCount, entryCount, exists, queue, entry, work, job, todo, engine>>

ThreadTerm(t) ==
    /\ pc[t] = "out"
    /\ pc' = [pc EXCEPT ![t] = "ended"]
    /\ Release(t)
    /\ UNCHANGED <<entryCount, queue, work, job, todo, engine>>

(* --------------------------- Store callback thread ----------------------- *)

\* The store has committed and calls back: the job goes to the queue of the
\* thread that asked, or is done here if that queue is full (ietr_asyncCommitted,
\* iemq_scheduleOnJobThreadIfPoss, iecs_asyncDestroyClientStateCompletion).
Committed(j) ==
    /\ engine = "up"
    /\ job[j].state = "committing"
    /\ LET t == job[j].thread
       IN IF Len(queue[t].jobs) < QueueMax
          THEN /\ queue' = [queue EXCEPT ![t].jobs = Append(@, j)]
               /\ job' = [job EXCEPT ![j].state = "queued"]
               /\ UNCHANGED dataVars
          ELSE /\ job' = [job EXCEPT ![j].state = "done"]
               /\ Release(t)
               /\ UNCHANGED queue
    /\ UNCHANGED <<entryCount, pc, work, todo, engine>>

(* ------------------------------- Scavenger ------------------------------- *)

Removals == {t \in AllThreads : entry[t].listed /\ entry[t].removalRequested}

Watched == {t \in Threads : entry[t].listed /\ ~entry[t].removalRequested}

\* Fault: lastEntryCount is never brought up to date.
ReturnedOnce(t) == entryCount[t] # 0

Returned(t) == entryCount[t] # entry[t].lastEntryCount

Overdue(t) == /\ ~Returned(t)
              /\ entry[t].idle > (IF Extra THEN entry[t].delay ELSE MaxDelay)

\* The scavenger got in the way of the owner, and will wait longer from now on,
\* unless it waits as long as it may already.
BacksOff(t) == Extra /\ queue[t].ownerBlocked /\ entry[t].delay < MaxDelay

Drained(t) == Overdue(t) /\ ~BacksOff(t)

\* The delay after this round: up if the owner was blocked, and otherwise down
\* when the last block is long ago (lastOwnerBlockedTime).
NewDelays(t) ==
    IF ~(Overdue(t) /\ Extra) THEN {entry[t].delay}
    ELSE IF queue[t].ownerBlocked
         THEN {IF entry[t].delay < MaxDelay THEN entry[t].delay + 1 ELSE MaxDelay}
         ELSE {entry[t].delay, IF entry[t].delay > 1 THEN entry[t].delay - 1 ELSE 1}

\* One pass over the list, under its lock.
Scan ==
    /\ pc[Scavenger] = "scan"
    /\ engine \in {"up", "callbacksStopped"}
    /\ \E d \in [Watched -> UNION {NewDelays(t) : t \in Watched}] :
          /\ \A t \in Watched : d[t] \in NewDelays(t)
          /\ entry' = [t \in AllThreads |->
               CASE t \in Removals -> NoEntry
                 [] t \in Watched ->
                      [entry[t] EXCEPT
                          !.lastEntryCount = entryCount[t],
                          !.idle = IF Returned(t) \/ Drained(t) THEN 0 ELSE @,
                          !.delay = d[t]]
                 [] OTHER -> entry[t]]
    /\ queue' = [t \in AllThreads |->
                    IF t \in Watched /\ Overdue(t) /\ Extra
                    THEN [queue[t] EXCEPT !.ownerBlocked = FALSE] ELSE queue[t]]
    /\ todo' = {<<t, TRUE>> : t \in Removals} \cup
               {<<t, FALSE>> : t \in {u \in Watched : Drained(u)}}
    /\ pc' = [pc EXCEPT ![Scavenger] = "own"]
    /\ UNCHANGED <<useCount, entryCount, exists, work, job, engine>>

\* The scavenger's own queue first (nobody else ever locks it).
ScavengeOwn ==
    /\ pc[Scavenger] = "own"
    /\ queue[Scavenger].getLock = Nobody
    /\ queue' = [queue EXCEPT ![Scavenger].getLock = Scavenger]
    /\ work' = [work EXCEPT ![Scavenger] = [NoWork EXCEPT !.on = Scavenger]]
    /\ pc' = [pc EXCEPT ![Scavenger] = "jobs"]
    /\ UNCHANGED <<entryCount, dataVars, job, todo, engine>>

\* Then the others: a queue to be removed is waited for, any other is skipped if
\* its owner has the lock.
ScavengeQueue(t, removal) ==
    /\ pc[Scavenger] = "next"
    /\ <<t, removal>> \in todo
    /\ IF queue[t].getLock = Nobody
       THEN /\ queue' = [queue EXCEPT ![t].getLock = Scavenger]
            /\ work' = [work EXCEPT ![Scavenger] = [NoWork EXCEPT !.on = t]]
            /\ pc' = [pc EXCEPT ![Scavenger] = "jobs"]
            /\ UNCHANGED todo
       ELSE /\ ~removal
            /\ todo' = todo \ {<<t, removal>>}
            /\ UNCHANGED <<queue, work, pc>>
    /\ UNCHANGED <<entryCount, dataVars, job, engine>>

\* Fault: the scavenger frees any queue it has been through.
FinishQueueFrees ==
    /\ pc[Scavenger] = "finish"
    /\ LET t == work[Scavenger].on
       IN /\ queue' = [queue EXCEPT ![t].state = "freed"]
          /\ todo' = {q \in todo : q[1] # t}
    /\ work' = [work EXCEPT ![Scavenger] = NoWork]
    /\ pc' = [pc EXCEPT ![Scavenger] = "next"]
    /\ UNCHANGED <<entryCount, dataVars, job, engine>>

\* iejq_freeJobQueue after a removal.
FinishQueue ==
    /\ pc[Scavenger] = "finish"
    /\ LET t == work[Scavenger].on
       IN /\ queue' = IF <<t, TRUE>> \in todo
                      THEN [queue EXCEPT ![t].state = "freed"] ELSE queue
          /\ todo' = {q \in todo : q[1] # t}
    /\ work' = [work EXCEPT ![Scavenger] = NoWork]
    /\ pc' = [pc EXCEPT ![Scavenger] = "next"]
    /\ UNCHANGED <<entryCount, dataVars, job, engine>>

\* The round is over: sleep, which is what makes time pass.
Sleep ==
    /\ pc[Scavenger] = "next"
    /\ todo = {}
    /\ pc' = [pc EXCEPT ![Scavenger] = "scan"]
    /\ entry' = [t \in AllThreads |->
                    IF entry[t].idle <= MaxDelay /\ t \in Watched
                    THEN [entry[t] EXCEPT !.idle = @ + 1] ELSE entry[t]]
    /\ UNCHANGED <<useCount, entryCount, exists, queue, work, job, todo, engine>>

\* scavengerEndRequested is seen at the top of the loop; ism_engine_threadTerm.
ScavengerEnds ==
    /\ pc[Scavenger] = "scan"
    /\ engine = "endRequested"
    /\ pc' = [pc EXCEPT ![Scavenger] = "ended"]
    /\ Release(Scavenger)
    /\ UNCHANGED <<entryCount, queue, work, job, todo, engine>>

(* ---------------------------- ism_engine_term ---------------------------- *)

\* By now the protocols have stopped calling.
StopCallbacks == /\ Shutdown
                 /\ engine = "up"
                 /\ \A t \in Threads : pc[t] \in {"new", "out", "ended"}
                 /\ engine' = "callbacksStopped"
                 /\ UNCHANGED <<useCount, entryCount, exists, queue, entry, pc, work, job, todo>>

RequestEnd == /\ engine = "callbacksStopped"
              /\ engine' = "endRequested"
              /\ UNCHANGED <<useCount, entryCount, exists, queue, entry, pc, work, job, todo>>

\* ietj_destroyThreadJobs, once the scavenger has been waited for.
DestroyThreadJobs ==
    /\ engine = "endRequested"
    /\ pc[Scavenger] = "ended"
    /\ engine' = "destroyed"
    /\ queue' = [t \in AllThreads |-> IF entry[t].listed
                                      THEN [queue[t] EXCEPT !.state = "freed"] ELSE queue[t]]
    /\ UNCHANGED <<useCount, entryCount, exists, entry, pc, work, job, todo>>

ThreadStep(t) == ThreadInit(t) \/ EnterEngine(t) \/ LeaveEngine(t) \/ ThreadTerm(t)
                     \/ TakeOwnLock(t)

JobStep(t) == GetJob(t) \/ AdoptJob(t) \/ JobDone(t) \/ EndJobs(t)

ScavengerStep == \/ Scan \/ ScavengeOwn \/ FinishQueue \/ Sleep \/ ScavengerEnds
                 \/ \E t \in Threads, removal \in BOOLEAN : ScavengeQueue(t, removal)

Next == \/ \E t \in Threads : ThreadStep(t)
        \/ \E t \in AllThreads : JobStep(t)
        \/ \E t \in AllThreads, j \in Jobs : StartAsync(t, j)
        \/ \E j \in Jobs : Committed(j)
        \/ ScavengerStep
        \/ StopCallbacks \/ RequestEnd \/ DestroyThreadJobs

Spec == Init /\ [][Next]_vars

\* A job runs to its end and an owner in the queue goes on; the scavenger's loop
\* and the store's callbacks go on.  Nothing makes a thread come back.
Fairness == /\ \A t \in AllThreads : WF_vars(GetJob(t) \/ JobDone(t) \/ EndJobs(t))
            /\ \A j \in Jobs : WF_vars(Committed(j))
            /\ WF_vars(ScavengerStep)

FairSpec == Spec /\ Fairness

(* ------------------------------- Properties ------------------------------ *)

TypeOK ==
    /\ useCount \in [AllThreads -> Nat]
    /\ entryCount \in [AllThreads -> 0..MaxEntries]
    /\ exists \in [AllThreads -> {"none", "live", "freed"}]
    /\ queue \in [AllThreads -> [state : {"none", "live", "freed"}, jobs : Seq(Jobs),
                                 getLock : AllThreads \cup {Nobody},
                                 ownerBlocked : BOOLEAN]]
    /\ entry \in [AllThreads -> [listed : BOOLEAN, removalRequested : BOOLEAN,
                                 lastEntryCount : 0..MaxEntries,
                                 idle : 0..(MaxDelay + 1), delay : 1..MaxDelay]]
    /\ pc \in [AllThreads -> {"new", "out", "enter", "wait", "jobs", "in", "ended",
                              "scan", "own", "next", "finish"}]
    /\ work \in [AllThreads -> [on : AllThreads \cup {Nobody}, calls : Nat,
                                job : Jobs \cup {Nobody}]]
    /\ job \in [Jobs -> [state : {"none", "committing", "queued", "running", "done"},
                         thread : AllThreads \cup {Nobody}]]
    /\ todo \subseteq Threads \X BOOLEAN
    /\ engine \in {"up", "callbacksStopped", "endRequested", "destroyed"}

Pending(t) == {j \in Jobs : /\ job[j].thread = t
                            /\ job[j].state \in {"committing", "queued", "running"}}

\* The references on a thread's data (ieut_acquireThreadDataReference) are the
\* thread itself and the operations meant for it, however often a job has moved
\* to another thread: the data is freed exactly when the last of them goes.
ReferencesCounted ==
    \A t \in AllThreads : useCount[t] = Cardinality(Pending(t))
                              + (IF pc[t] \in {"new", "ended"} THEN 0 ELSE 1)

\* Nobody uses a queue that has been freed, or the data of a thread that is gone:
\* not the callback thread with an operation that ends after its thread did, not
\* the scavenger, which reads the entry counts of the threads on its list.
NoUseAfterFree ==
    /\ \A j \in Jobs : job[j].state \in {"committing", "queued"} =>
           /\ exists[job[j].thread] = "live"
           /\ engine # "destroyed" => queue[job[j].thread].state = "live"
    /\ \A t \in AllThreads : work[t].on # Nobody => queue[work[t].on].state = "live"
    /\ \A t \in Watched : exists[t] = "live"
    /\ \A q \in todo : queue[q[1]].state = "live"

\* A queue is freed by the scavenger with nothing left on it: no job is lost with
\* its thread (comment at threadJobs.c:476, "process anything left").
FreedQueuesEmpty ==
    engine # "destroyed" => \A t \in AllThreads : queue[t].state = "freed" =>
        queue[t].jobs = <<>> /\ queue[t].getLock = Nobody /\ Pending(t) = {}

\* A job that the callback thread has queued is run, even if its thread never
\* enters the engine again, and a scavenger that backs off for a blocked owner
\* comes back - unless the engine is shut down first.
QueuedJobsRun ==
    \A j \in Jobs : job[j].state = "queued" ~> job[j].state = "done" \/ engine # "up"

\* The queue of a thread that has gone is freed in the end, by the scavenger or
\* by the shutdown.
RemovedQueuesFreed ==
    \A t \in Threads : exists[t] = "freed" ~> queue[t].state = "freed" \/ engine # "up"

\* ietj_destroyThreadJobs does not expect anything to be left on a job queue
\* (comment and disabled assertion at threadJobs.c:292).
NothingLeftAtDestroy ==
    engine = "destroyed" => \A t \in AllThreads : queue[t].jobs = <<>>

\* The queue and the data of a thread live as long as anyone has use for them, and
\* no longer: references are counted exactly, nothing freed is used, and no job
\* goes with a freed queue.
OwnershipExact == TypeOK /\ ReferencesCounted /\ NoUseAfterFree /\ FreedQueuesEmpty

\* Whatever threads come and go while the engine is up, queued jobs run and the
\* queues of threads that have gone are freed.
ScavengerCatchesUp == QueuedJobsRun /\ RemovedQueuesFreed
=============================================================================
