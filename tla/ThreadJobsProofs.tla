-------------------------- MODULE ThreadJobsProofs --------------------------
(***************************************************************************)
(* Proofs about ThreadJobs: the job queue and the data of a thread live as *)
(* long as anyone has use for them, and no longer.                         *)
(***************************************************************************)
EXTENDS ThreadJobs, FiniteSetTheorems, TLAPS

Records == [state : {"none", "live", "freed"}, jobs : Seq(Jobs),
            getLock : AllThreads \cup {Nobody}, ownerBlocked : BOOLEAN]
Entries == [listed : BOOLEAN, removalRequested : BOOLEAN, lastEntryCount : 0..MaxEntries,
            idle : 0..(MaxDelay + 1), delay : 1..MaxDelay]
Places == {"new", "out", "enter", "wait", "jobs", "in", "ended", "scan", "own", "next", "finish"}
Works == [on : AllThreads \cup {Nobody}, calls : Nat, job : Jobs \cup {Nobody}]
JobRecords == [state : {"none", "committing", "queued", "running", "done"},
               thread : AllThreads \cup {Nobody}]

Content(s) == {s[i] : i \in DOMAIN s}
Distinct(s) == \A i, j \in DOMAIN s : s[i] = s[j] => i = j

(* Where threads and the scavenger can be, and what the shutdown has       *)
(* waited for.                                                             *)
PlacesKept ==
    /\ \A t \in Threads : pc[t] \in {"new", "out", "enter", "wait", "jobs", "in", "ended"}
    /\ pc[Scavenger] \in {"scan", "own", "jobs", "next", "finish", "ended"}
    /\ engine # "up" => \A t \in Threads : pc[t] \in {"new", "out", "ended"}
    /\ engine = "destroyed" => pc[Scavenger] = "ended"
    /\ pc[Scavenger] \in {"scan", "ended"} => todo = {}

(* The use count of a thread's data is the number of its users.            *)
Own(t) == IF pc[t] \in {"new", "ended"} THEN 0 ELSE 1

DataCounted ==
    \A t \in AllThreads : /\ IsFiniteSet(Pending(t))
                          /\ useCount[t] = Cardinality(Pending(t)) + Own(t)

(* The data is there while it is used, and its queue is on the scavenger's *)
(* list until the removal that the last user asks for.                     *)
DataLives ==
    \A t \in AllThreads :
        /\ exists[t] = "live" <=> useCount[t] # 0
        /\ exists[t] = "none" <=> pc[t] = "new"
        /\ entry[t].listed /\ ~entry[t].removalRequested <=> exists[t] = "live"
        /\ pc[t] = "new" => ~entry[t].listed

(* A queue lives while it is on the list or the scavenger is removing it.  *)
QueuesLive ==
    \A t \in AllThreads :
        /\ pc[t] = "new" => queue[t].state = "none"
        /\ engine # "destroyed" =>
               (queue[t].state = "live" <=> entry[t].listed \/ <<t, TRUE>> \in todo)

(* The queues of this round: a queue that is not to be removed stays on    *)
(* the list, even if its removal is asked for meanwhile; one that is to be *)
(* removed is off the list, and its thread is gone.                        *)
TodoListed ==
    \A t \in Threads : /\ <<t, FALSE>> \in todo => entry[t].listed
                       /\ <<t, TRUE>> \in todo => ~entry[t].listed /\ exists[t] = "freed"

(* What is on a queue is meant for its thread, and on it once.             *)
JobsPlaced ==
    /\ \A j \in Jobs : job[j].state # "none" => job[j].thread \in AllThreads
    /\ \A t \in AllThreads : /\ Distinct(queue[t].jobs)
                             /\ \A j \in Content(queue[t].jobs) :
                                    job[j].state = "queued" /\ job[j].thread = t

(* A thread empties its own queue only, the scavenger its own and those of *)
(* its round; a job is run by one thread.                                  *)
OwnWork == \A t \in Threads : work[t].on = IF pc[t] = "jobs" THEN t ELSE Nobody

ScavengerWork ==
    /\ work[Scavenger].on # Nobody <=> pc[Scavenger] \in {"jobs", "finish"}
    /\ work[Scavenger].on \in Threads => \E r \in BOOLEAN : <<work[Scavenger].on, r>> \in todo
    /\ pc[Scavenger] = "finish" => work[Scavenger].on \in Threads

JobsRun ==
    /\ \A t \in AllThreads : work[t].job # Nobody =>
           pc[t] = "jobs" /\ job[work[t].job].state = "running"
    /\ \A t, u \in AllThreads : work[t].job = work[u].job /\ work[t].job # Nobody => t = u

WorkPlaced == OwnWork /\ ScavengerWork /\ JobsRun

(* The get lock of a queue is held by the one who empties it.              *)
LocksPlaced ==
    \A q, t \in AllThreads : queue[q].getLock = t <=> pc[t] = "jobs" /\ work[t].on = q

OwnerInv == /\ TypeOK /\ PlacesKept /\ DataCounted /\ DataLives /\ QueuesLive
            /\ TodoListed /\ JobsPlaced /\ WorkPlaced /\ LocksPlaced

-----------------------------------------------------------------------------
(* Sequences of jobs, and updates of one field.                             *)

LEMMA ContentOfSeq ==
    ASSUME NEW S, NEW s \in Seq(S)
    PROVE  /\ Content(s) \subseteq S
           /\ s = << >> <=> Content(s) = {}
           /\ Content(<< >>) = {} /\ Distinct(<< >>) /\ << >> \in Seq(S)
BY DEF Content, Distinct

LEMMA ContentAppend ==
    ASSUME NEW S, NEW s \in Seq(S), NEW x \in S
    PROVE  /\ Append(s, x) \in Seq(S)
           /\ Content(Append(s, x)) = Content(s) \union {x}
           /\ Distinct(s) /\ x \notin Content(s) => Distinct(Append(s, x))
<1>1. /\ Len(s) \in Nat /\ DOMAIN s = 1..Len(s)
      /\ Append(s, x) \in Seq(S) /\ DOMAIN Append(s, x) = 1..(Len(s) + 1)
      /\ Append(s, x)[Len(s) + 1] = x
      /\ \A i \in 1..Len(s) : Append(s, x)[i] = s[i]
  OBVIOUS
<1>2. 1..(Len(s) + 1) = 1..Len(s) \union {Len(s) + 1}
  BY <1>1
<1> QED
  BY <1>1, <1>2 DEF Content, Distinct

LEMMA ContentTail ==
    ASSUME NEW S, NEW s \in Seq(S), s # << >>
    PROVE  /\ Head(s) \in Content(s) /\ Tail(s) \in Seq(S)
           /\ Content(Tail(s)) \subseteq Content(s)
           /\ Distinct(s) => Distinct(Tail(s)) /\ Head(s) \notin Content(Tail(s))
<1>1. /\ Len(s) \in Nat /\ Len(s) > 0 /\ DOMAIN s = 1..Len(s) /\ Head(s) = s[1]
      /\ Tail(s) \in Seq(S) /\ DOMAIN Tail(s) = 1..(Len(s) - 1)
      /\ \A i \in 1..(Len(s) - 1) : Tail(s)[i] = s[i + 1]
  OBVIOUS
<1>2. \A i \in 1..(Len(s) - 1) : i + 1 \in 1..Len(s) /\ i + 1 # 1
  BY <1>1
<1>3. Distinct(s) => Distinct(Tail(s))
  <2> SUFFICES ASSUME Distinct(s), NEW i \in 1..(Len(s) - 1), NEW k \in 1..(Len(s) - 1),
                      Tail(s)[i] = Tail(s)[k]
               PROVE  i = k
    BY <1>1 DEF Distinct
  <2>1. s[i + 1] = s[k + 1] /\ i + 1 \in 1..Len(s) /\ k + 1 \in 1..Len(s)
    BY <1>1, <1>2
  <2>2. i + 1 = k + 1
    BY <2>1, <1>1 DEF Distinct
  <2> QED
    BY <2>2, <1>1
<1>4. Distinct(s) => Head(s) \notin Content(Tail(s))
  <2> SUFFICES ASSUME Distinct(s), NEW i \in 1..(Len(s) - 1), s[1] = s[i + 1]
               PROVE  FALSE
    BY <1>1 DEF Content
  <2>1. i + 1 \in 1..Len(s) /\ 1 \in 1..Len(s) /\ i + 1 # 1
    BY <1>1, <1>2
  <2> QED
    BY <2>1, <1>1 DEF Distinct
<1> QED
  BY <1>1, <1>2, <1>3, <1>4 DEF Content

LEMMA EmptyJobs == << >> \in Seq(Jobs) /\ Content(<< >>) = {} /\ Distinct(<< >>)
BY DEF Content, Distinct

LEMMA EntryTypes ==
    ASSUME NEW l \in BOOLEAN
    PROVE  [NoEntry EXCEPT !.listed = l] \in Entries /\ NoEntry \in Entries
<1>1. 0 \in 0..MaxEntries /\ 0 \in 0..(MaxDelay + 1) /\ 1 \in 1..MaxDelay
  BY ThreadJobsAssumption
<1> QED
  BY <1>1 DEF NoEntry, Entries

LEMMA NewEntry ==
    LET e == [NoEntry EXCEPT !.listed = TRUE] IN e \in Entries /\ e.listed /\ ~e.removalRequested
<1>1. [NoEntry EXCEPT !.listed = TRUE].listed = TRUE
  BY DEF NoEntry
<1>2. [NoEntry EXCEPT !.listed = TRUE].removalRequested = FALSE
  BY DEF NoEntry
<1> QED
  BY <1>1, <1>2, EntryTypes

LEMMA LockChanged ==
    ASSUME queue \in [AllThreads -> Records], NEW q \in AllThreads,
           NEW v \in AllThreads \cup {Nobody}, queue' = [queue EXCEPT ![q].getLock = v]
    PROVE  /\ queue' \in [AllThreads -> Records]
           /\ \A u \in AllThreads : /\ queue'[u].state = queue[u].state
                                    /\ queue'[u].jobs = queue[u].jobs
                                    /\ queue'[u].getLock = IF u = q THEN v ELSE queue[u].getLock
BY DEF Records

LEMMA JobsChanged ==
    ASSUME queue \in [AllThreads -> Records], NEW q \in AllThreads,
           NEW v \in Seq(Jobs), queue' = [queue EXCEPT ![q].jobs = v]
    PROVE  /\ queue' \in [AllThreads -> Records]
           /\ \A u \in AllThreads : /\ queue'[u].state = queue[u].state
                                    /\ queue'[u].getLock = queue[u].getLock
                                    /\ queue'[u].jobs = IF u = q THEN v ELSE queue[u].jobs
BY DEF Records

LEMMA JobStateChanged ==
    ASSUME job \in [Jobs -> JobRecords], NEW j \in Jobs,
           NEW v \in {"none", "committing", "queued", "running", "done"},
           job' = [job EXCEPT ![j].state = v]
    PROVE  /\ job' \in [Jobs -> JobRecords]
           /\ \A k \in Jobs : job'[k].thread = job[k].thread
           /\ \A k \in Jobs : k # j => job'[k] = job[k]
           /\ job'[j].state = v
BY DEF JobRecords

LEMMA JobThreadChanged ==
    ASSUME job \in [Jobs -> JobRecords], NEW j \in Jobs, NEW v \in AllThreads,
           job' = [job EXCEPT ![j].thread = v]
    PROVE  /\ job' \in [Jobs -> JobRecords]
           /\ \A k \in Jobs : job'[k].state = job[k].state
           /\ \A k \in Jobs : k # j => job'[k] = job[k]
           /\ job'[j].thread = v
BY DEF JobRecords

LEMMA WorkStarted ==
    ASSUME work \in [AllThreads -> Works], NEW t \in AllThreads, NEW q \in AllThreads,
           work' = [work EXCEPT ![t] = [NoWork EXCEPT !.on = q]]
    PROVE  /\ work' \in [AllThreads -> Works]
           /\ work'[t].on = q /\ work'[t].job = Nobody
           /\ \A u \in AllThreads : u # t => work'[u] = work[u]
BY DEF Works, NoWork

LEMMA WorkEnded ==
    ASSUME work \in [AllThreads -> Works], NEW t \in AllThreads,
           work' = [work EXCEPT ![t] = NoWork]
    PROVE  /\ work' \in [AllThreads -> Works]
           /\ work'[t].on = Nobody /\ work'[t].job = Nobody
           /\ \A u \in AllThreads : u # t => work'[u] = work[u]
BY DEF Works, NoWork

LEMMA Moved ==
    ASSUME pc \in [AllThreads -> Places], NEW t \in AllThreads, NEW v \in Places,
           pc' = [pc EXCEPT ![t] = v]
    PROVE  /\ pc' \in [AllThreads -> Places] /\ pc'[t] = v
           /\ \A u \in AllThreads : u # t => pc'[u] = pc[u]
OBVIOUS

LEMMA TypeParts ==
    TypeOK <=> /\ useCount \in [AllThreads -> Nat]
               /\ entryCount \in [AllThreads -> 0..MaxEntries]
               /\ exists \in [AllThreads -> {"none", "live", "freed"}]
               /\ queue \in [AllThreads -> Records]
               /\ entry \in [AllThreads -> Entries]
               /\ pc \in [AllThreads -> Places]
               /\ work \in [AllThreads -> Works]
               /\ job \in [Jobs -> JobRecords]
               /\ todo \subseteq Threads \X BOOLEAN
               /\ engine \in {"up", "callbacksStopped", "endRequested", "destroyed"}
BY DEF TypeOK, Records, Entries, Works, JobRecords, Places

LEMMA Everyone ==
    /\ Scavenger \in AllThreads /\ Threads \subseteq AllThreads
    /\ \A t \in AllThreads : t # Nobody /\ (t \notin Threads <=> t = Scavenger)
    /\ Nobody \notin Jobs
BY ThreadJobsAssumption DEF AllThreads

-----------------------------------------------------------------------------
(* What is kept by a step that changes none of what a part is about.        *)

Active == {"committing", "queued", "running"}

LEMMA DataFrame ==
    ASSUME DataCounted, DataLives, useCount' = useCount, exists' = exists,
           \A u \in AllThreads : /\ entry'[u].listed = entry[u].listed
                                 /\ entry'[u].removalRequested = entry[u].removalRequested
                                 /\ pc'[u] = "new" <=> pc[u] = "new"
                                 /\ pc'[u] = "ended" <=> pc[u] = "ended",
           \A k \in Jobs : /\ job'[k].thread = job[k].thread
                           /\ job'[k].state \in Active <=> job[k].state \in Active
    PROVE  DataCounted' /\ DataLives'
<1>1. \A u \in AllThreads : Pending(u)' = Pending(u)
  BY DEF Pending, Active
<1>2. \A u \in AllThreads : Own(u)' = Own(u)
  BY DEF Own
<1>3. DataCounted'
  BY <1>1, <1>2 DEF DataCounted
<1>4. DataLives'
  BY DEF DataLives
<1> QED
  BY <1>3, <1>4

LEMMA ListFrame ==
    ASSUME TypeOK, QueuesLive, TodoListed, todo' = todo, engine' = engine,
           \A u \in AllThreads : /\ entry'[u].listed = entry[u].listed
                                 /\ queue'[u].state = queue[u].state
                                 /\ pc'[u] = "new" <=> pc[u] = "new"
                                 /\ exists[u] = "freed" => exists'[u] = "freed"
    PROVE  QueuesLive' /\ TodoListed'
<1>1. QueuesLive'
  BY DEF QueuesLive
<1>2. TodoListed'
  BY Everyone DEF TodoListed
<1> QED
  BY <1>1, <1>2

LEMMA JobsFrame ==
    ASSUME TypeOK, JobsPlaced,
           \A u \in AllThreads : queue'[u].jobs = queue[u].jobs,
           \A k \in Jobs : /\ job[k].state = "queued" => job'[k] = job[k]
                           /\ job'[k].state # "none" => job'[k].thread \in AllThreads
    PROVE  JobsPlaced'
<1>1. \A u \in AllThreads : Content(queue[u].jobs) \subseteq Jobs
  BY ContentOfSeq, TypeParts DEF Records
<1> QED
  BY <1>1 DEF JobsPlaced

LEMMA WorkFrame ==
    ASSUME WorkPlaced, LocksPlaced, work' = work, pc' = pc, todo' = todo,
           \A u \in AllThreads : queue'[u].getLock = queue[u].getLock,
           \A u \in AllThreads : work[u].job # Nobody => job'[work[u].job].state = "running"
    PROVE  WorkPlaced' /\ LocksPlaced'
<1>1. WorkPlaced'
  BY DEF WorkPlaced, OwnWork, ScavengerWork, JobsRun
<1>2. LocksPlaced'
  BY DEF LocksPlaced
<1> QED
  BY <1>1, <1>2

\* A thread moves on outside its job queue.
LEMMA MoveFrame ==
    ASSUME NEW t \in Threads, TypeOK, WorkPlaced, LocksPlaced,
           work' = work, todo' = todo, job' = job,
           pc[t] # "jobs", pc'[t] # "jobs",
           \A u \in AllThreads : u # t => pc'[u] = pc[u],
           \A u \in AllThreads : queue'[u].getLock = queue[u].getLock
    PROVE  WorkPlaced' /\ LocksPlaced'
<1>1. t # Scavenger /\ Scavenger \in AllThreads /\ Threads \subseteq AllThreads
  BY Everyone
<1>2. WorkPlaced'
  BY <1>1 DEF WorkPlaced, OwnWork, ScavengerWork, JobsRun
<1>3. LocksPlaced'
  BY <1>1 DEF LocksPlaced
<1> QED
  BY <1>2, <1>3

\* Threads and pending operations are users of the thread's data.
LEMMA Used ==
    ASSUME OwnerInv, NEW t \in AllThreads,
           pc[t] \notin {"new", "ended"} \/ \E j \in Jobs : j \in Pending(t)
    PROVE  /\ useCount[t] \in Nat \ {0} /\ exists[t] = "live" /\ pc[t] # "new"
           /\ entry[t].listed /\ ~entry[t].removalRequested
           /\ engine # "destroyed" => queue[t].state = "live"
<1>1. /\ useCount[t] \in Nat /\ IsFiniteSet(Pending(t))
      /\ useCount[t] = Cardinality(Pending(t)) + Own(t)
      /\ Cardinality(Pending(t)) \in Nat /\ Own(t) \in {0, 1}
      /\ Cardinality(Pending(t)) = 0 <=> Pending(t) = {}
  BY FS_CardinalityType, FS_EmptySet DEF OwnerInv, TypeOK, DataCounted, Own
<1>2. useCount[t] # 0
  <2>1. CASE pc[t] \notin {"new", "ended"}
    BY <1>1, <2>1 DEF Own
  <2>2. CASE \E j \in Jobs : j \in Pending(t)
    BY <1>1, <2>2
  <2> QED
    BY <2>1, <2>2
<1>3. exists[t] = "live" /\ pc[t] # "new" /\ entry[t].listed /\ ~entry[t].removalRequested
  BY <1>2 DEF OwnerInv, DataLives
<1> QED
  BY <1>1, <1>2, <1>3 DEF OwnerInv, QueuesLive

\* ieut_releaseThreadDataReference.
LEMMA Released ==
    ASSUME OwnerInv, NEW t \in AllThreads, useCount[t] # 0, pc[t] # "new", Release(t),
           \A u \in AllThreads : pc'[u] = "new" <=> pc[u] = "new"
    PROVE  /\ useCount' \in [AllThreads -> Nat]
           /\ exists' \in [AllThreads -> {"none", "live", "freed"}]
           /\ entry' \in [AllThreads -> Entries]
           /\ useCount'[t] = useCount[t] - 1
           /\ \A u \in AllThreads : u # t => useCount'[u] = useCount[u]
           /\ \A u \in AllThreads : /\ entry'[u].listed = entry[u].listed
                                    /\ exists[u] = "freed" => exists'[u] = "freed"
           /\ DataLives'
<1>1. /\ useCount \in [AllThreads -> Nat] /\ useCount[t] \in Nat
      /\ exists \in [AllThreads -> {"none", "live", "freed"}]
      /\ entry \in [AllThreads -> Entries]
  BY TypeParts DEF OwnerInv
<1>2. /\ useCount' = [useCount EXCEPT ![t] = @ - 1]
      /\ useCount' \in [AllThreads -> Nat]
      /\ useCount'[t] = useCount[t] - 1
      /\ \A u \in AllThreads : u # t => useCount'[u] = useCount[u]
  BY <1>1 DEF Release
<1>3. exists[t] = "live" /\ entry[t].listed /\ ~entry[t].removalRequested
  BY DEF OwnerInv, DataLives
<1>4. CASE useCount[t] = 1
  <2>1. /\ exists' = [exists EXCEPT ![t] = "freed"]
        /\ entry' = [entry EXCEPT ![t].removalRequested = TRUE]
    BY <1>3, <1>4 DEF Release
  <2>2. /\ entry' \in [AllThreads -> Entries] /\ entry'[t].removalRequested
        /\ \A u \in AllThreads : entry'[u].listed = entry[u].listed
        /\ \A u \in AllThreads : u # t => entry'[u] = entry[u]
    BY <1>1, <2>1 DEF Entries
  <2>3. /\ exists' \in [AllThreads -> {"none", "live", "freed"}] /\ exists'[t] = "freed"
        /\ \A u \in AllThreads : u # t => exists'[u] = exists[u]
    BY <1>1, <2>1
  <2>4. DataLives'
    BY <1>2, <1>4, <2>2, <2>3 DEF OwnerInv, DataLives
  <2> QED
    BY <1>2, <2>2, <2>3, <2>4
<1>5. CASE useCount[t] # 1
  <2>1. UNCHANGED <<exists, entry>>
    BY <1>5 DEF Release
  <2>2. useCount'[t] # 0
    BY <1>1, <1>2, <1>5
  <2>3. DataLives'
    BY <1>2, <1>3, <2>1, <2>2 DEF OwnerInv, DataLives
  <2> QED
    BY <1>1, <1>2, <2>1, <2>3
<1> QED
  BY <1>4, <1>5

\* What a use count is compared with, when one operation ends or a new one starts.
LEMMA PendingLeft ==
    ASSUME OwnerInv, NEW t \in AllThreads, NEW j \in Pending(t), Pending(t)' = Pending(t) \ {j}
    PROVE  IsFiniteSet(Pending(t)') /\ Cardinality(Pending(t)') = Cardinality(Pending(t)) - 1
BY FS_RemoveElement DEF OwnerInv, DataCounted

LEMMA PendingJoined ==
    ASSUME OwnerInv, NEW t \in AllThreads, NEW j, j \notin Pending(t),
           Pending(t)' = Pending(t) \cup {j}
    PROVE  IsFiniteSet(Pending(t)') /\ Cardinality(Pending(t)') = Cardinality(Pending(t)) + 1
BY FS_AddElement DEF OwnerInv, DataCounted

LEMMA CountTypes ==
    ASSUME OwnerInv, NEW t \in AllThreads
    PROVE  /\ Cardinality(Pending(t)) \in Nat /\ Own(t) \in {0, 1}
           /\ useCount[t] = Cardinality(Pending(t)) + Own(t)
           /\ IsFiniteSet(Pending(t))
BY FS_CardinalityType DEF OwnerInv, DataCounted, Own

-----------------------------------------------------------------------------
(* The invariant is inductive.                                              *)

\* ietj_startThreadJobScavenger.
LEMMA OwnerInit == Init => OwnerInv
<1> SUFFICES ASSUME Init PROVE OwnerInv
  OBVIOUS
<1>1. /\ \A t \in AllThreads : /\ queue[t].jobs = << >> /\ queue[t].getLock = Nobody
                               /\ queue[t].state = IF t = Scavenger THEN "live" ELSE "none"
                               /\ entry[t].listed <=> t = Scavenger
                               /\ ~entry[t].removalRequested
                               /\ work[t].on = Nobody /\ work[t].job = Nobody
                               /\ pc[t] = IF t = Scavenger THEN "scan" ELSE "new"
      /\ \A j \in Jobs : job[j].state = "none" /\ job[j].thread = Nobody
      /\ todo = {} /\ engine = "up"
  BY DEF Init, NewQueue, NoEntry, NoWork
<1>2. TypeOK
  <2>1. queue \in [AllThreads -> Records]
    <3>1. ASSUME NEW t \in AllThreads
          PROVE  [NewQueue EXCEPT !.state = IF t = Scavenger THEN @ ELSE "none"] \in Records
      BY EmptyJobs DEF NewQueue, Records
    <3> QED
      BY <3>1 DEF Init
  <2>2. entry \in [AllThreads -> Entries]
    BY EntryTypes DEF Init
  <2>3. work \in [AllThreads -> Works] /\ job \in [Jobs -> JobRecords]
    BY DEF Init, NoWork, Works, JobRecords
  <2>4. useCount \in [AllThreads -> Nat] /\ entryCount \in [AllThreads -> 0..MaxEntries]
    BY ThreadJobsAssumption DEF Init
  <2> QED
    BY <2>1, <2>2, <2>3, <2>4, TypeParts DEF Init, Places
<1>3. PlacesKept
  BY <1>1, Everyone DEF PlacesKept
<1>4. DataCounted
  <2>1. \A t \in AllThreads : Pending(t) = {}
    BY <1>1 DEF Pending
  <2>2. IsFiniteSet({}) /\ Cardinality({}) = 0
    BY FS_EmptySet
  <2>3. \A t \in AllThreads : useCount[t] = 0 + Own(t)
    BY <1>1 DEF Own, Init
  <2> QED
    BY <2>1, <2>2, <2>3 DEF DataCounted
<1>5. DataLives
  <2>1. \A t \in AllThreads : /\ useCount[t] = IF t = Scavenger THEN 1 ELSE 0
                              /\ exists[t] = IF t = Scavenger THEN "live" ELSE "none"
    BY DEF Init
  <2> QED
    BY <1>1, <2>1 DEF DataLives
<1>8. QueuesLive /\ TodoListed
  BY <1>1, Everyone DEF QueuesLive, TodoListed
<1>6. JobsPlaced
  BY <1>1, EmptyJobs DEF JobsPlaced
<1>7. WorkPlaced /\ LocksPlaced
  BY <1>1, Everyone DEF WorkPlaced, OwnWork, ScavengerWork, JobsRun, LocksPlaced
<1> QED
  BY <1>2, <1>3, <1>4, <1>5, <1>6, <1>7, <1>8 DEF OwnerInv

\* ism_engine_threadInit: nobody can have been at the queue before.
LEMMA ThreadInitKeeps ==
    ASSUME NEW t \in Threads, OwnerInv, ThreadInit(t)
    PROVE  OwnerInv'
<1> USE DEF OwnerInv
<1>1. /\ t \in AllThreads /\ t # Scavenger /\ pc[t] = "new" /\ engine = "up"
      /\ UNCHANGED <<entryCount, work, job, todo, engine>>
  BY Everyone DEF ThreadInit
<1>2. /\ pc' \in [AllThreads -> Places]
      /\ pc'[t] = "out" /\ \A u \in AllThreads : u # t => pc'[u] = pc[u]
      /\ useCount' \in [AllThreads -> Nat] /\ useCount'[t] = 1
      /\ \A u \in AllThreads : u # t => useCount'[u] = useCount[u]
      /\ exists' \in [AllThreads -> {"none", "live", "freed"}] /\ exists'[t] = "live"
      /\ \A u \in AllThreads : u # t => exists'[u] = exists[u]
  BY <1>1, TypeParts DEF ThreadInit, Places
<1>3. /\ queue' \in [AllThreads -> Records]
      /\ queue'[t].jobs = << >> /\ queue'[t].getLock = Nobody /\ queue'[t].state = "live"
      /\ \A u \in AllThreads : u # t => queue'[u] = queue[u]
  <2>1. NewQueue \in Records
    BY EmptyJobs DEF NewQueue, Records
  <2> QED
    BY <1>1, <2>1, TypeParts DEF ThreadInit, NewQueue
<1>4. /\ entry' \in [AllThreads -> Entries]
      /\ entry'[t].listed /\ ~entry'[t].removalRequested
      /\ \A u \in AllThreads : u # t => entry'[u] = entry[u]
  <2> DEFINE e == [NoEntry EXCEPT !.listed = TRUE]
  <2>1. e \in Entries /\ e.listed /\ ~e.removalRequested
    BY NewEntry
  <2>2. entry \in [AllThreads -> Entries] /\ entry' = [entry EXCEPT ![t] = e]
    BY TypeParts DEF ThreadInit
  <2> QED
    BY <1>1, <2>1, <2>2
<1>5. TypeOK'
  BY <1>1, <1>2, <1>3, <1>4 DEF TypeOK, Records, Entries, Places
<1>6. PlacesKept'
  BY <1>1, <1>2, Everyone DEF PlacesKept
<1>7. DataCounted' /\ DataLives'
  <2>1. \A u \in AllThreads : Pending(u)' = Pending(u)
    BY <1>1 DEF Pending
  <2>2. exists[t] = "none" /\ useCount[t] = 0
    BY <1>1 DEF DataLives
  <2>3. Cardinality(Pending(t)) = 0 /\ IsFiniteSet(Pending(t))
    BY <1>1, <2>2, CountTypes
  <2>4. Own(t)' = 1 /\ \A u \in AllThreads : u # t => Own(u)' = Own(u)
    BY <1>2 DEF Own
  <2>5. DataCounted'
    BY <1>2, <2>1, <2>3, <2>4 DEF DataCounted
  <2> QED
    BY <1>2, <1>4, <2>5 DEF DataLives
<1>8. \A r \in BOOLEAN : <<t, r>> \notin todo
  BY <1>1 DEF TodoListed, DataLives
<1>9. QueuesLive' /\ TodoListed'
  <2>1. QueuesLive'
    BY <1>1, <1>2, <1>3, <1>4 DEF QueuesLive
  <2>2. TodoListed'
    BY <1>1, <1>2, <1>4, <1>8, Everyone DEF TodoListed
  <2> QED
    BY <2>1, <2>2
<1>10. JobsPlaced'
  BY <1>1, <1>3, EmptyJobs DEF JobsPlaced
<1>11. \A u \in AllThreads : ~(pc[u] = "jobs" /\ work[u].on = t)
  BY <1>1, <1>8, Everyone DEF WorkPlaced, OwnWork, ScavengerWork, JobsRun
<1>12. WorkPlaced'
  BY <1>1, <1>2, Everyone DEF WorkPlaced, OwnWork, ScavengerWork, JobsRun
<1>13. LocksPlaced'
  BY <1>1, <1>2, <1>3, <1>11, Everyone DEF LocksPlaced
<1> QED
  BY <1>5, <1>6, <1>7, <1>9, <1>10, <1>12, <1>13

LEMMA EnterEngineKeeps ==
    ASSUME NEW t \in Threads, OwnerInv, EnterEngine(t) \/ LeaveEngine(t)
    PROVE  OwnerInv'
<1> USE DEF OwnerInv
<1>1. /\ t \in AllThreads /\ t # Scavenger /\ pc[t] \in {"out", "in"}
      /\ pc'[t] \in {"enter", "out"} /\ \A u \in AllThreads : u # t => pc'[u] = pc[u]
      /\ engine = "up" \/ pc'[t] = "out"
      /\ UNCHANGED <<useCount, exists, queue, entry, work, job, todo, engine>>
  BY Everyone DEF EnterEngine, LeaveEngine, dataVars, TypeOK
<1>2. TypeOK'
  <2>1. pc' \in [AllThreads -> Places]
    <3>1. \E v \in Places : pc' = [pc EXCEPT ![t] = v]
      BY DEF EnterEngine, LeaveEngine, Places
    <3> QED
      BY <1>1, <3>1, TypeParts, Moved
  <2>2. entryCount' \in [AllThreads -> 0..MaxEntries]
    <3>1. entryCount \in [AllThreads -> 0..MaxEntries] /\ entryCount[t] \in 0..MaxEntries
      BY <1>1 DEF TypeOK
    <3>2. CASE EnterEngine(t)
      <4>1. entryCount[t] + 1 \in 0..MaxEntries
        BY <3>1, <3>2, ThreadJobsAssumption DEF EnterEngine
      <4> QED
        BY <3>1, <3>2, <4>1 DEF EnterEngine
    <3>3. CASE LeaveEngine(t)
      BY <3>1, <3>3 DEF LeaveEngine
    <3> QED
      BY <3>2, <3>3
  <2> QED
    BY <1>1, <2>1, <2>2 DEF TypeOK, Places
<1>3. PlacesKept'
  BY <1>1, Everyone DEF PlacesKept
<1>4. DataCounted' /\ DataLives'
  BY <1>1, DataFrame
<1>5. QueuesLive' /\ TodoListed'
  BY <1>1, ListFrame
<1>6. JobsPlaced'
  BY <1>1 DEF JobsPlaced
<1>7. WorkPlaced' /\ LocksPlaced'
  BY <1>1, MoveFrame
<1> QED
  BY <1>2, <1>3, <1>4, <1>5, <1>6, <1>7

\* ietj_processJobQueue: the owner takes its lock, or leaves word and waits.
LEMMA TakeOwnLockKeeps ==
    ASSUME NEW t \in Threads, OwnerInv, TakeOwnLock(t)
    PROVE  OwnerInv'
<1> USE DEF OwnerInv
<1>1. /\ t \in AllThreads /\ t # Scavenger /\ pc[t] \in {"enter", "wait"}
      /\ UNCHANGED <<entryCount, useCount, exists, entry, job, todo, engine>>
  BY Everyone DEF TakeOwnLock, dataVars
<1>2. CASE queue[t].getLock = Nobody
  <2>1. /\ queue' = [queue EXCEPT ![t].getLock = t]
        /\ work' = [work EXCEPT ![t] = [NoWork EXCEPT !.on = t]]
        /\ pc' = [pc EXCEPT ![t] = "jobs"]
    BY <1>2 DEF TakeOwnLock
  <2>2. /\ queue' \in [AllThreads -> Records]
        /\ \A u \in AllThreads : /\ queue'[u].state = queue[u].state
                                 /\ queue'[u].jobs = queue[u].jobs
                                 /\ queue'[u].getLock = IF u = t THEN t ELSE queue[u].getLock
    BY <1>1, <2>1, TypeParts, LockChanged
  <2>3. /\ work' \in [AllThreads -> Works] /\ work'[t].on = t /\ work'[t].job = Nobody
        /\ \A u \in AllThreads : u # t => work'[u] = work[u]
    BY <1>1, <2>1, TypeParts, WorkStarted
  <2>4. /\ pc' \in [AllThreads -> Places]
        /\ pc'[t] = "jobs" /\ \A u \in AllThreads : u # t => pc'[u] = pc[u]
    BY <1>1, <2>1, TypeParts, Moved DEF Places
  <2>5. TypeOK'
    BY <1>1, <2>2, <2>3, <2>4 DEF TypeOK, Records, Works, Places
  <2>6. PlacesKept'
    BY <1>1, <2>4, Everyone DEF PlacesKept
  <2>7. DataCounted' /\ DataLives'
    BY <1>1, <2>4, DataFrame
  <2>8. QueuesLive' /\ TodoListed'
    BY <1>1, <2>2, <2>4, ListFrame
  <2>9. JobsPlaced'
    BY <1>1, <2>2 DEF JobsPlaced
  <2>10. OwnWork' /\ ScavengerWork' /\ JobsRun'
    <3>1. OwnWork'
      BY <1>1, <2>3, <2>4, Everyone DEF WorkPlaced, OwnWork
    <3>2. ScavengerWork'
      BY <1>1, <2>3, <2>4, Everyone DEF WorkPlaced, ScavengerWork
    <3>3. JobsRun'
      BY <1>1, <2>3, <2>4, Everyone DEF WorkPlaced, JobsRun
    <3> QED
      BY <3>1, <3>2, <3>3
  <2>11. LocksPlaced'
    BY <1>1, <1>2, <2>2, <2>3, <2>4, Everyone DEF LocksPlaced
  <2> QED
    BY <2>5, <2>6, <2>7, <2>8, <2>9, <2>10, <2>11 DEF WorkPlaced
<1>3. CASE queue[t].getLock # Nobody
  <2>1. /\ queue' = [queue EXCEPT ![t].ownerBlocked = TRUE]
        /\ pc' = [pc EXCEPT ![t] = "wait"] /\ work' = work
    BY <1>3 DEF TakeOwnLock
  <2>2. /\ queue' \in [AllThreads -> Records]
        /\ \A u \in AllThreads : /\ queue'[u].state = queue[u].state
                                 /\ queue'[u].jobs = queue[u].jobs
                                 /\ queue'[u].getLock = queue[u].getLock
    <3>1. queue \in [AllThreads -> Records] /\ t \in AllThreads
      BY <1>1, TypeParts
    <3> HIDE DEF OwnerInv
    <3>2. queue' \in [AllThreads -> Records]
      BY <2>1, <3>1 DEF Records
    <3>3. ASSUME NEW u \in AllThreads
          PROVE  /\ queue'[u].state = queue[u].state
                 /\ queue'[u].jobs = queue[u].jobs
                 /\ queue'[u].getLock = queue[u].getLock
      BY <2>1, <3>1 DEF Records
    <3> QED
      BY <3>2, <3>3
  <2>3. /\ pc' \in [AllThreads -> Places]
        /\ pc'[t] = "wait" /\ \A u \in AllThreads : u # t => pc'[u] = pc[u]
    BY <1>1, <2>1, TypeParts, Moved DEF Places
  <2>4. TypeOK'
    BY <1>1, <2>1, <2>2, <2>3 DEF TypeOK, Records, Places
  <2>5. PlacesKept'
    BY <1>1, <2>3, Everyone DEF PlacesKept
  <2>6. DataCounted' /\ DataLives'
    BY <1>1, <2>3, DataFrame
  <2>7. QueuesLive' /\ TodoListed'
    BY <1>1, <2>2, <2>3, ListFrame
  <2>8. JobsPlaced'
    BY <1>1, <2>2 DEF JobsPlaced
  <2>9. WorkPlaced' /\ LocksPlaced'
    BY <1>1, <2>1, <2>2, <2>3, MoveFrame
  <2> QED
    BY <2>4, <2>5, <2>6, <2>7, <2>8, <2>9
<1> QED
  BY <1>2, <1>3

\* ism_engine_threadTerm gives up the thread's own reference.
LEMMA OwnReferenceGone ==
    ASSUME NEW t \in AllThreads, OwnerInv, pc[t] \notin {"new", "ended"}, Release(t),
           pc' = [pc EXCEPT ![t] = "ended"], UNCHANGED <<queue, job, todo, engine>>
    PROVE  /\ useCount' \in [AllThreads -> Nat]
           /\ exists' \in [AllThreads -> {"none", "live", "freed"}]
           /\ entry' \in [AllThreads -> Entries]
           /\ pc' \in [AllThreads -> Places] /\ pc'[t] = "ended"
           /\ \A u \in AllThreads : u # t => pc'[u] = pc[u]
           /\ DataCounted' /\ DataLives' /\ QueuesLive' /\ TodoListed'
<1>1. /\ pc' \in [AllThreads -> Places] /\ pc'[t] = "ended"
      /\ \A u \in AllThreads : u # t => pc'[u] = pc[u]
  BY TypeParts, Moved DEF OwnerInv, Places
<1>2. useCount[t] \in Nat \ {0} /\ exists[t] = "live"
  BY Used
<1>3. \A u \in AllThreads : pc'[u] = "new" <=> pc[u] = "new"
  BY <1>1
<1>4. /\ useCount' \in [AllThreads -> Nat]
      /\ exists' \in [AllThreads -> {"none", "live", "freed"}]
      /\ entry' \in [AllThreads -> Entries]
      /\ useCount'[t] = useCount[t] - 1
      /\ \A u \in AllThreads : u # t => useCount'[u] = useCount[u]
      /\ \A u \in AllThreads : /\ entry'[u].listed = entry[u].listed
                               /\ exists[u] = "freed" => exists'[u] = "freed"
      /\ DataLives'
  BY <1>2, <1>3, Released
<1>5. DataCounted'
  <2>1. \A u \in AllThreads : Pending(u)' = Pending(u)
    BY DEF Pending
  <2>2. Own(t)' = 0 /\ Own(t) = 1 /\ \A u \in AllThreads : u # t => Own(u)' = Own(u)
    BY <1>1 DEF Own
  <2>3. useCount'[t] = Cardinality(Pending(t)) + 0
    <3>1. Cardinality(Pending(t)) \in Nat /\ useCount[t] = Cardinality(Pending(t)) + Own(t)
      BY CountTypes
    <3> QED
      BY <1>4, <2>2, <3>1
  <2>4. \A u \in AllThreads : useCount[u] = Cardinality(Pending(u)) + Own(u) /\ IsFiniteSet(Pending(u))
    BY DEF OwnerInv, DataCounted
  <2> QED
    BY <1>4, <2>1, <2>2, <2>3, <2>4 DEF DataCounted
<1>6. QueuesLive' /\ TodoListed'
  BY <1>3, <1>4, ListFrame DEF OwnerInv
<1> QED
  BY <1>1, <1>4, <1>5, <1>6

LEMMA ThreadTermKeeps ==
    ASSUME NEW t \in Threads, OwnerInv, ThreadTerm(t)
    PROVE  OwnerInv'
<1> USE DEF OwnerInv
<1>1. /\ t \in AllThreads /\ t # Scavenger /\ pc[t] = "out" /\ Release(t)
      /\ pc' = [pc EXCEPT ![t] = "ended"]
      /\ UNCHANGED <<entryCount, queue, work, job, todo, engine>>
  BY Everyone DEF ThreadTerm
<1>2. /\ useCount' \in [AllThreads -> Nat]
      /\ exists' \in [AllThreads -> {"none", "live", "freed"}]
      /\ entry' \in [AllThreads -> Entries]
      /\ pc' \in [AllThreads -> Places] /\ pc'[t] = "ended"
      /\ \A u \in AllThreads : u # t => pc'[u] = pc[u]
      /\ DataCounted' /\ DataLives' /\ QueuesLive' /\ TodoListed'
  BY <1>1, OwnReferenceGone
<1>3. TypeOK'
  BY <1>1, <1>2 DEF TypeOK, Entries, Places
<1>4. PlacesKept'
  BY <1>1, <1>2, Everyone DEF PlacesKept
<1>5. JobsPlaced'
  BY <1>1 DEF JobsPlaced
<1>6. WorkPlaced' /\ LocksPlaced'
  BY <1>1, <1>2, MoveFrame
<1> QED
  BY <1>2, <1>3, <1>4, <1>5, <1>6

LEMMA ScavengerEndsKeeps ==
    ASSUME OwnerInv, ScavengerEnds
    PROVE  OwnerInv'
<1> USE DEF OwnerInv
<1>1. /\ Scavenger \in AllThreads /\ pc[Scavenger] = "scan" /\ Release(Scavenger)
      /\ pc' = [pc EXCEPT ![Scavenger] = "ended"] /\ engine = "endRequested"
      /\ UNCHANGED <<entryCount, queue, work, job, todo, engine>>
  BY Everyone DEF ScavengerEnds
<1>2. /\ useCount' \in [AllThreads -> Nat]
      /\ exists' \in [AllThreads -> {"none", "live", "freed"}]
      /\ entry' \in [AllThreads -> Entries]
      /\ pc' \in [AllThreads -> Places] /\ pc'[Scavenger] = "ended"
      /\ \A u \in AllThreads : u # Scavenger => pc'[u] = pc[u]
      /\ DataCounted' /\ DataLives' /\ QueuesLive' /\ TodoListed'
  BY <1>1, OwnReferenceGone
<1>3. TypeOK'
  BY <1>1, <1>2 DEF TypeOK, Entries, Places
<1>4. PlacesKept'
  BY <1>1, <1>2, Everyone DEF PlacesKept
<1>5. JobsPlaced'
  BY <1>1 DEF JobsPlaced
<1>6. OwnWork' /\ ScavengerWork' /\ JobsRun'
  BY <1>1, <1>2, Everyone DEF WorkPlaced, OwnWork, ScavengerWork, JobsRun
<1>7. LocksPlaced'
  BY <1>1, <1>2 DEF LocksPlaced
<1> QED
  BY <1>2, <1>3, <1>4, <1>5, <1>6, <1>7 DEF WorkPlaced

\* ism_engine_term.
LEMMA ShutdownKeeps ==
    ASSUME OwnerInv, StopCallbacks \/ RequestEnd
    PROVE  OwnerInv'
<1> USE DEF OwnerInv
<1>1. /\ UNCHANGED <<useCount, entryCount, exists, queue, entry, pc, work, job, todo>>
      /\ engine # "destroyed" /\ engine' \in {"callbacksStopped", "endRequested"}
      /\ engine # "up" \/ \A t \in Threads : pc[t] \in {"new", "out", "ended"}
  BY DEF StopCallbacks, RequestEnd
<1>2. TypeOK'
  BY <1>1 DEF TypeOK
<1>3. PlacesKept'
  BY <1>1 DEF PlacesKept
<1>4. DataCounted' /\ DataLives'
  BY <1>1, DataFrame
<1>5. QueuesLive' /\ TodoListed'
  BY <1>1 DEF QueuesLive, TodoListed
<1>6. JobsPlaced'
  BY <1>1 DEF JobsPlaced
<1>7. WorkPlaced' /\ LocksPlaced'
  BY <1>1 DEF WorkPlaced, OwnWork, ScavengerWork, JobsRun, LocksPlaced
<1> QED
  BY <1>2, <1>3, <1>4, <1>5, <1>6, <1>7

\* ietj_destroyThreadJobs frees what is on the list; the scavenger has gone.
LEMMA DestroyThreadJobsKeeps ==
    ASSUME OwnerInv, DestroyThreadJobs
    PROVE  OwnerInv'
<1> USE DEF OwnerInv
<1>1. /\ UNCHANGED <<useCount, entryCount, exists, entry, pc, work, job, todo>>
      /\ engine = "endRequested" /\ engine' = "destroyed" /\ pc[Scavenger] = "ended"
  BY DEF DestroyThreadJobs
<1>2. /\ queue' \in [AllThreads -> Records]
      /\ \A u \in AllThreads : /\ queue'[u].jobs = queue[u].jobs
                               /\ queue'[u].getLock = queue[u].getLock
                               /\ pc[u] = "new" => queue'[u].state = queue[u].state
  <2>1. \A u \in AllThreads : queue[u] \in Records
    BY TypeParts
  <2>2. \A u \in AllThreads : queue'[u] = IF entry[u].listed
                                          THEN [queue[u] EXCEPT !.state = "freed"] ELSE queue[u]
    BY DEF DestroyThreadJobs
  <2>3. \A u \in AllThreads : queue'[u] \in Records
    BY <2>1, <2>2 DEF Records
  <2>4. queue' = [u \in AllThreads |-> queue'[u]]
    BY DEF DestroyThreadJobs
  <2>5. \A u \in AllThreads : pc[u] = "new" => ~entry[u].listed
    BY DEF DataLives
  <2>6. \A u \in AllThreads : /\ queue'[u].jobs = queue[u].jobs
                              /\ queue'[u].getLock = queue[u].getLock
    BY <2>1, <2>2 DEF Records
  <2> QED
    BY <2>2, <2>3, <2>4, <2>5, <2>6
<1>3. TypeOK'
  BY <1>1, <1>2 DEF TypeOK, Records
<1>4. PlacesKept'
  BY <1>1 DEF PlacesKept
<1>5. DataCounted' /\ DataLives'
  BY <1>1, DataFrame
<1>6. QueuesLive' /\ TodoListed'
  BY <1>1, <1>2 DEF QueuesLive, TodoListed
<1>7. JobsPlaced'
  BY <1>1, <1>2 DEF JobsPlaced
<1>8. WorkPlaced' /\ LocksPlaced'
  BY <1>1, <1>2 DEF WorkPlaced, OwnWork, ScavengerWork, JobsRun, LocksPlaced
<1> QED
  BY <1>3, <1>4, <1>5, <1>6, <1>7, <1>8

\* A thread that empties a queue has a live one.
LEMMA AtWork ==
    ASSUME OwnerInv, NEW t \in AllThreads, pc[t] = "jobs"
    PROVE  work[t].on \in AllThreads /\ work[t].on # Nobody
<1>1. work[t].on \in AllThreads \cup {Nobody}
  BY TypeParts DEF OwnerInv, Works
<1>2. work[t].on # Nobody
  BY Everyone DEF OwnerInv, WorkPlaced, OwnWork, ScavengerWork
<1> QED
  BY <1>1, <1>2

\* iejq_getJob: the job at the head belongs to this queue and to no other thread.
LEMMA GetJobKeeps ==
    ASSUME NEW t \in AllThreads, OwnerInv, GetJob(t)
    PROVE  OwnerInv'
<1> USE DEF OwnerInv
<1> DEFINE q == work[t].on
           j == Head(queue[q].jobs)
<1>1. /\ pc[t] = "jobs" /\ work[t].job = Nobody /\ queue[q].jobs # << >>
      /\ queue' = [queue EXCEPT ![q].jobs = Tail(queue[q].jobs)]
      /\ job' = [job EXCEPT ![j].state = "running"]
      /\ UNCHANGED <<entryCount, useCount, exists, entry, pc, todo, engine>>
  BY DEF GetJob, dataVars
<1>2. work' = [work EXCEPT ![t] = [on |-> work[t].on, calls |-> work[t].calls + 1, job |-> j]]
  <2>1. work' = [work EXCEPT ![t].job = j, ![t].calls = @ + 1]
    BY DEF GetJob
  <2>2. work \in [AllThreads -> Works]
    BY TypeParts
  <2> QED
    BY <2>1, <2>2 DEF Works
<1>3. q \in AllThreads /\ queue[q].jobs \in Seq(Jobs)
  <2>1. q \in AllThreads
    BY <1>1, AtWork
  <2> QED
    BY <2>1, TypeParts DEF Records
<1>4. /\ j \in Content(queue[q].jobs) /\ Tail(queue[q].jobs) \in Seq(Jobs)
      /\ Content(Tail(queue[q].jobs)) \subseteq Content(queue[q].jobs)
      /\ Distinct(queue[q].jobs) => Distinct(Tail(queue[q].jobs)) /\ j \notin Content(Tail(queue[q].jobs))
      /\ Content(queue[q].jobs) \subseteq Jobs
  <2> DEFINE s == queue[q].jobs
  <2>1. s \in Seq(Jobs) /\ s # << >>
    BY <1>1, <1>3
  <2> HIDE DEF OwnerInv, s
  <2>2. /\ Head(s) \in Content(s) /\ Tail(s) \in Seq(Jobs)
        /\ Content(Tail(s)) \subseteq Content(s)
        /\ Distinct(s) => Distinct(Tail(s)) /\ Head(s) \notin Content(Tail(s))
    BY <2>1, ContentTail
  <2>3. Content(s) \subseteq Jobs
    BY <2>1, ContentOfSeq
  <2> QED
    BY <2>2, <2>3 DEF s
<1>5. /\ job[j].state = "queued" /\ job[j].thread = q /\ j \in Jobs /\ j # Nobody
      /\ Distinct(queue[q].jobs)
  BY <1>3, <1>4, Everyone DEF JobsPlaced
<1>6. /\ queue' \in [AllThreads -> Records]
      /\ \A u \in AllThreads : /\ queue'[u].state = queue[u].state
                               /\ queue'[u].getLock = queue[u].getLock
                               /\ queue'[u].jobs = IF u = q THEN Tail(queue[q].jobs) ELSE queue[u].jobs
  <2> DEFINE rest == Tail(queue[q].jobs)
  <2>1. queue' = [queue EXCEPT ![q].jobs = rest] /\ rest \in Seq(Jobs)
    BY <1>1, <1>4
  <2>2. queue \in [AllThreads -> Records] /\ q \in AllThreads
    BY <1>3, TypeParts
  <2> HIDE DEF rest, q, OwnerInv
  <2>3. /\ queue' \in [AllThreads -> Records]
        /\ \A u \in AllThreads : /\ queue'[u].state = queue[u].state
                                 /\ queue'[u].getLock = queue[u].getLock
                                 /\ queue'[u].jobs = IF u = q THEN rest ELSE queue[u].jobs
    BY <2>1, <2>2, JobsChanged
  <2> QED
    BY <2>3 DEF rest
<1> HIDE DEF q, j
<1>7. /\ job' \in [Jobs -> JobRecords] /\ job'[j].state = "running"
      /\ \A k \in Jobs : job'[k].thread = job[k].thread
      /\ \A k \in Jobs : k # j => job'[k] = job[k]
  BY <1>1, <1>5, TypeParts, JobStateChanged
<1>8. /\ work' \in [AllThreads -> Works] /\ work'[t].on = work[t].on /\ work'[t].job = j
      /\ \A u \in AllThreads : u # t => work'[u] = work[u]
  <2> DEFINE b == [on |-> work[t].on, calls |-> work[t].calls + 1, job |-> j]
  <2>1. work \in [AllThreads -> Works] /\ work[t] \in Works
    BY TypeParts
  <2>2. b \in Works /\ b.on = work[t].on /\ b.job = j
    BY <1>5, <2>1 DEF Works
  <2>3. work' = [work EXCEPT ![t] = b]
    BY <1>2
  <2> HIDE DEF b
  <2> QED
    BY <2>1, <2>2, <2>3
<1>9. TypeOK'
  BY <1>1, <1>6, <1>7, <1>8 DEF TypeOK, Records, JobRecords, Works
<1>10. PlacesKept'
  BY <1>1 DEF PlacesKept
<1>11. DataCounted' /\ DataLives'
  <2>1. \A k \in Jobs : job'[k].state \in Active <=> job[k].state \in Active
    BY <1>5, <1>7 DEF Active
  <2> QED
    BY <1>1, <1>7, <2>1, DataFrame
<1>12. QueuesLive' /\ TodoListed'
  BY <1>1, <1>6, ListFrame
<1>13. JobsPlaced'
  <2>1. \A k \in Jobs : job'[k].state # "none" => job'[k].thread \in AllThreads
    BY <1>3, <1>5, <1>7 DEF JobsPlaced
  <2>2. Content(queue'[q].jobs) \subseteq Content(queue[q].jobs) \ {j} /\ Distinct(queue'[q].jobs)
    BY <1>3, <1>4, <1>5, <1>6
  <2>3. \A u \in AllThreads : u # q => Content(queue'[u].jobs) = Content(queue[u].jobs)
                                       /\ Distinct(queue'[u].jobs)
    BY <1>6 DEF JobsPlaced
  <2>4. \A u \in AllThreads : Content(queue[u].jobs) \subseteq Jobs
    BY ContentOfSeq, TypeParts DEF Records
  <2>5. ASSUME NEW u \in AllThreads, NEW k \in Content(queue'[u].jobs)
        PROVE  job'[k].state = "queued" /\ job'[k].thread = u
    <3>1. k \in Content(queue[u].jobs) /\ k \in Jobs
      BY <1>3, <2>2, <2>3, <2>4
    <3>2. job[k].state = "queued" /\ job[k].thread = u
      BY <3>1 DEF JobsPlaced
    <3>3. k # j
      BY <1>5, <2>2, <3>2
    <3> QED
      BY <1>7, <3>1, <3>2, <3>3
  <2> QED
    BY <2>1, <2>2, <2>3, <2>5 DEF JobsPlaced
<1>14. OwnWork' /\ ScavengerWork'
  BY <1>1, <1>8, Everyone DEF WorkPlaced, OwnWork, ScavengerWork
<1>15. JobsRun'
  <2>1. \A u \in AllThreads : u # t => work[u].job # j
    BY <1>5 DEF WorkPlaced, JobsRun
  <2>2. \A u \in AllThreads : work[u].job \in Jobs \cup {Nobody}
    BY TypeParts DEF Works
  <2> QED
    BY <1>1, <1>5, <1>7, <1>8, <2>1, <2>2 DEF WorkPlaced, JobsRun
<1>16. LocksPlaced'
  BY <1>1, <1>6, <1>8 DEF LocksPlaced
<1> QED
  BY <1>9, <1>10, <1>11, <1>12, <1>13, <1>14, <1>15, <1>16 DEF WorkPlaced

\* The job that a thread runs counts as one of its users' operations.
LEMMA RunningJob ==
    ASSUME OwnerInv, NEW t \in AllThreads, work[t].job # Nobody
    PROVE  /\ work[t].job \in Jobs /\ job[work[t].job].state = "running"
           /\ job[work[t].job].thread \in AllThreads
           /\ work[t].job \in Pending(job[work[t].job].thread)
           /\ pc[t] = "jobs"
<1>1. work[t].job \in Jobs
  BY TypeParts DEF OwnerInv, Works
<1>2. job[work[t].job].state = "running" /\ pc[t] = "jobs"
  BY DEF OwnerInv, WorkPlaced, JobsRun
<1>3. job[work[t].job].thread \in AllThreads
  BY <1>1, <1>2 DEF OwnerInv, JobsPlaced
<1> QED
  BY <1>1, <1>2, <1>3 DEF Pending

\* An operation ends, and its reference goes to the thread's data.
LEMMA OperationDone ==
    ASSUME OwnerInv, NEW j \in Jobs, NEW t \in AllThreads, j \in Pending(t), Release(t),
           job' = [job EXCEPT ![j].state = "done"], UNCHANGED <<pc, todo, engine, queue>>
    PROVE  /\ useCount' \in [AllThreads -> Nat]
           /\ exists' \in [AllThreads -> {"none", "live", "freed"}]
           /\ entry' \in [AllThreads -> Entries]
           /\ job' \in [Jobs -> JobRecords]
           /\ \A k \in Jobs : job'[k].thread = job[k].thread
           /\ \A k \in Jobs : k # j => job'[k] = job[k]
           /\ DataCounted' /\ DataLives' /\ QueuesLive' /\ TodoListed'
<1>1. /\ job' \in [Jobs -> JobRecords] /\ job'[j].state = "done"
      /\ \A k \in Jobs : job'[k].thread = job[k].thread
      /\ \A k \in Jobs : k # j => job'[k] = job[k]
  BY TypeParts, JobStateChanged DEF OwnerInv
<1>2. useCount[t] \in Nat \ {0} /\ pc[t] # "new"
  BY Used
<1>3. /\ useCount' \in [AllThreads -> Nat]
      /\ exists' \in [AllThreads -> {"none", "live", "freed"}]
      /\ entry' \in [AllThreads -> Entries]
      /\ useCount'[t] = useCount[t] - 1
      /\ \A u \in AllThreads : u # t => useCount'[u] = useCount[u]
      /\ \A u \in AllThreads : /\ entry'[u].listed = entry[u].listed
                               /\ exists[u] = "freed" => exists'[u] = "freed"
      /\ DataLives'
  BY <1>2, Released
<1>4. DataCounted'
  <2>1. Pending(t)' = Pending(t) \ {j}
    BY <1>1 DEF Pending
  <2>2. \A u \in AllThreads : u # t => Pending(u)' = Pending(u)
    BY <1>1 DEF Pending
  <2>3. \A u \in AllThreads : Own(u)' = Own(u)
    BY DEF Own
  <2>4. /\ IsFiniteSet(Pending(t)') /\ Cardinality(Pending(t)') = Cardinality(Pending(t)) - 1
    BY <2>1, PendingLeft
  <2>5. useCount[t] = Cardinality(Pending(t)) + Own(t) /\ Cardinality(Pending(t)) \in Nat /\ Own(t) \in {0, 1}
    BY CountTypes
  <2>6. useCount'[t] = Cardinality(Pending(t)') + Own(t)
    BY <1>3, <2>4, <2>5
  <2>7. \A u \in AllThreads : useCount[u] = Cardinality(Pending(u)) + Own(u) /\ IsFiniteSet(Pending(u))
    BY DEF OwnerInv, DataCounted
  <2> QED
    BY <1>3, <2>2, <2>3, <2>4, <2>6, <2>7 DEF DataCounted
<1>5. QueuesLive' /\ TodoListed'
  BY <1>3, ListFrame DEF OwnerInv
<1> QED
  BY <1>1, <1>3, <1>4, <1>5

LEMMA JobDoneKeeps ==
    ASSUME NEW t \in AllThreads, OwnerInv, JobDone(t)
    PROVE  OwnerInv'
<1> USE DEF OwnerInv
<1> DEFINE j == work[t].job
<1>1. /\ j # Nobody /\ Release(job[j].thread) /\ job' = [job EXCEPT ![j].state = "done"]
      /\ work' = [work EXCEPT ![t].job = Nobody]
      /\ UNCHANGED <<entryCount, queue, pc, todo, engine>>
  BY DEF JobDone
<1>2. /\ j \in Jobs /\ job[j].state = "running" /\ job[j].thread \in AllThreads
      /\ j \in Pending(job[j].thread) /\ pc[t] = "jobs"
  BY <1>1, RunningJob
<1>3. \A u \in AllThreads : u # t => work[u].job # j
  BY <1>1 DEF WorkPlaced, JobsRun
<1>4. /\ work' \in [AllThreads -> Works] /\ work'[t].on = work[t].on /\ work'[t].job = Nobody
      /\ \A u \in AllThreads : u # t => work'[u] = work[u]
  BY <1>1, TypeParts DEF Works
<1> HIDE DEF j
<1>5. /\ useCount' \in [AllThreads -> Nat]
      /\ exists' \in [AllThreads -> {"none", "live", "freed"}]
      /\ entry' \in [AllThreads -> Entries]
      /\ job' \in [Jobs -> JobRecords]
      /\ \A k \in Jobs : job'[k].thread = job[k].thread
      /\ \A k \in Jobs : k # j => job'[k] = job[k]
      /\ DataCounted' /\ DataLives' /\ QueuesLive' /\ TodoListed'
  BY <1>1, <1>2, OperationDone
<1>6. TypeOK'
  BY <1>1, <1>4, <1>5 DEF TypeOK, Entries, JobRecords, Works
<1>7. PlacesKept'
  BY <1>1 DEF PlacesKept
<1>8. JobsPlaced'
  <2>1. \A k \in Jobs : job[k].state = "queued" => job'[k] = job[k]
    BY <1>2, <1>5
  <2>2. \A k \in Jobs : job'[k].state # "none" => job'[k].thread \in AllThreads
    BY <1>2, <1>5 DEF JobsPlaced
  <2> QED
    BY <1>1, <2>1, <2>2, JobsFrame
<1>9. OwnWork' /\ ScavengerWork'
  <2>1. \A u \in AllThreads : work'[u].on = work[u].on
    BY <1>4
  <2>2. OwnWork'
    BY <1>1, <2>1, Everyone DEF WorkPlaced, OwnWork
  <2>3. ScavengerWork'
    <3>1. work'[Scavenger].on = work[Scavenger].on
      BY <2>1, Everyone
    <3>2. pc' = pc /\ todo' = todo /\ ScavengerWork
      BY <1>1 DEF WorkPlaced
    <3> HIDE DEF OwnerInv
    <3> QED
      BY <3>1, <3>2 DEF ScavengerWork
  <2> QED
    BY <2>2, <2>3
<1>10. JobsRun'
  <2>1. \A u \in AllThreads : work[u].job \in Jobs \cup {Nobody}
    BY TypeParts DEF Works
  <2> QED
    BY <1>1, <1>3, <1>4, <1>5, <2>1 DEF WorkPlaced, JobsRun
<1>11. LocksPlaced'
  BY <1>1, <1>4 DEF LocksPlaced
<1> QED
  BY <1>5, <1>6, <1>7, <1>8, <1>9, <1>10, <1>11 DEF WorkPlaced

\* ietr_jobCallback: the operation and its reference move to the running thread.
LEMMA AdoptJobKeeps ==
    ASSUME NEW t \in AllThreads, OwnerInv, AdoptJob(t)
    PROVE  OwnerInv'
<1> USE DEF OwnerInv
<1>1. PICK j \in Jobs, f \in AllThreads :
          /\ j = work[t].job /\ f = job[j].thread
          /\ job[j].state = "running" /\ j \in Pending(f) /\ pc[t] = "jobs"
  BY RunningJob DEF AdoptJob
<1>2. /\ f # t /\ Transfer(f, t) /\ job' = [job EXCEPT ![j].thread = t]
      /\ UNCHANGED <<entryCount, queue, pc, work, todo, engine>>
  BY <1>1 DEF AdoptJob
<1>3. j \notin Pending(t)
  BY <1>1, <1>2 DEF Pending
<1>4. /\ job' \in [Jobs -> JobRecords] /\ job'[j].thread = t
      /\ \A k \in Jobs : job'[k].state = job[k].state
      /\ \A k \in Jobs : k # j => job'[k] = job[k]
  BY <1>1, <1>2, TypeParts, JobThreadChanged
<1>5. Pending(f)' = Pending(f) \ {j} /\ Pending(t)' = Pending(t) \cup {j}
  BY <1>1, <1>2, <1>3, <1>4 DEF Pending
<1>6. \A u \in AllThreads : u # t /\ u # f => Pending(u)' = Pending(u)
  BY <1>1, <1>2, <1>4 DEF Pending
<1>7. /\ useCount[f] \in Nat \ {0} /\ exists[f] = "live" /\ pc[f] # "new"
      /\ entry[f].listed /\ ~entry[f].removalRequested
  BY <1>1, <1>2, Used
<1>8. /\ useCount[t] \in Nat \ {0} /\ exists[t] = "live"
  BY <1>1, <1>2, Used
<1>9. /\ useCount' \in [AllThreads -> Nat]
      /\ useCount'[f] = useCount[f] - 1 /\ useCount'[t] = useCount[t] + 1
      /\ \A u \in AllThreads : u # t /\ u # f => useCount'[u] = useCount[u]
  <2>1. /\ useCount \in [AllThreads -> Nat]
        /\ useCount' = [useCount EXCEPT ![f] = @ - 1, ![t] = @ + 1]
    BY <1>1, <1>2, TypeParts DEF Transfer
  <2>2. /\ useCount[f] - 1 \in Nat /\ useCount[t] + 1 \in Nat /\ f # t
        /\ f \in AllThreads /\ t \in AllThreads
    BY <1>2, <1>7, <1>8
  <2> HIDE DEF OwnerInv
  <2> QED
    BY <2>1, <2>2
<1>10. /\ exists' \in [AllThreads -> {"none", "live", "freed"}]
       /\ entry' \in [AllThreads -> Entries]
       /\ \A u \in AllThreads : /\ entry'[u].listed = entry[u].listed
                                /\ exists[u] = "freed" => exists'[u] = "freed"
       /\ DataLives'
  <2>1. /\ exists \in [AllThreads -> {"none", "live", "freed"}] /\ entry \in [AllThreads -> Entries]
    BY TypeParts
  <2>2. CASE useCount[f] = 1
    <3>1. /\ exists' = [exists EXCEPT ![f] = "freed"]
          /\ entry' = [entry EXCEPT ![f].removalRequested = TRUE]
      BY <1>1, <1>2, <1>7, <2>2 DEF Transfer
    <3>2. /\ entry' \in [AllThreads -> Entries] /\ entry'[f].removalRequested
          /\ \A u \in AllThreads : entry'[u].listed = entry[u].listed
          /\ \A u \in AllThreads : u # f => entry'[u] = entry[u]
      BY <2>1, <3>1 DEF Entries
    <3>3. /\ exists' \in [AllThreads -> {"none", "live", "freed"}] /\ exists'[f] = "freed"
          /\ \A u \in AllThreads : u # f => exists'[u] = exists[u]
      BY <1>1, <1>2, <2>1, <3>1
    <3>4. useCount'[f] = 0 /\ useCount'[t] # 0
      BY <1>7, <1>8, <1>9, <2>2
    <3>5. ASSUME NEW u \in AllThreads
          PROVE  /\ exists'[u] = "live" <=> useCount'[u] # 0
                 /\ exists'[u] = "none" <=> pc[u] = "new"
                 /\ entry'[u].listed /\ ~entry'[u].removalRequested <=> exists'[u] = "live"
                 /\ pc[u] = "new" => ~entry'[u].listed
      <4>1. CASE u = f
        BY <1>7, <3>2, <3>3, <3>4, <4>1
      <4>2. CASE u = t
        BY <1>2, <1>8, <3>2, <3>3, <3>4, <4>2 DEF DataLives
      <4>3. CASE u # f /\ u # t
        BY <1>9, <3>2, <3>3, <4>3 DEF DataLives
      <4> QED
        BY <4>1, <4>2, <4>3
    <3>6. DataLives'
      BY <1>2, <3>5 DEF DataLives
    <3> QED
      BY <3>2, <3>3, <3>6
  <2>3. CASE useCount[f] # 1
    <3>1. UNCHANGED <<exists, entry>>
      BY <1>1, <1>2, <2>3 DEF Transfer
    <3>2. useCount'[f] # 0 /\ useCount'[t] # 0
      BY <1>7, <1>8, <1>9, <2>3
    <3>3. DataLives'
      BY <1>1, <1>2, <1>7, <1>8, <1>9, <3>1, <3>2 DEF DataLives
    <3> QED
      BY <2>1, <3>1, <3>3
  <2> QED
    BY <2>2, <2>3
<1>11. DataCounted'
  <2>1. \A u \in AllThreads : Own(u)' = Own(u)
    BY <1>1, <1>2 DEF Own
  <2>2. /\ IsFiniteSet(Pending(f)') /\ Cardinality(Pending(f)') = Cardinality(Pending(f)) - 1
    BY <1>1, <1>2, <1>5, PendingLeft
  <2>3. /\ IsFiniteSet(Pending(t)') /\ Cardinality(Pending(t)') = Cardinality(Pending(t)) + 1
    BY <1>3, <1>5, PendingJoined
  <2>4. /\ useCount[f] = Cardinality(Pending(f)) + Own(f) /\ Cardinality(Pending(f)) \in Nat
        /\ Own(f) \in {0, 1}
    BY <1>1, <1>2, CountTypes
  <2>5. /\ useCount[t] = Cardinality(Pending(t)) + Own(t) /\ Cardinality(Pending(t)) \in Nat
        /\ Own(t) \in {0, 1}
    BY CountTypes
  <2>6. useCount'[f] = Cardinality(Pending(f)') + Own(f)
    BY <1>9, <2>2, <2>4
  <2>7. useCount'[t] = Cardinality(Pending(t)') + Own(t)
    BY <1>9, <2>3, <2>5
  <2>8. \A u \in AllThreads : useCount[u] = Cardinality(Pending(u)) + Own(u) /\ IsFiniteSet(Pending(u))
    BY DEF DataCounted
  <2> QED
    BY <1>6, <1>9, <2>1, <2>2, <2>3, <2>6, <2>7, <2>8 DEF DataCounted
<1>12. QueuesLive' /\ TodoListed'
  BY <1>1, <1>2, <1>10, ListFrame
<1>13. TypeOK'
  BY <1>1, <1>2, <1>4, <1>9, <1>10 DEF TypeOK, Entries, JobRecords
<1>14. PlacesKept'
  BY <1>1, <1>2 DEF PlacesKept
<1>15. JobsPlaced'
  <2>1. \A k \in Jobs : job[k].state = "queued" => job'[k] = job[k]
    BY <1>1, <1>2, <1>4
  <2>2. \A k \in Jobs : job'[k].state # "none" => job'[k].thread \in AllThreads
    BY <1>4 DEF JobsPlaced
  <2> QED
    BY <1>1, <1>2, <2>1, <2>2, JobsFrame
<1>16. WorkPlaced' /\ LocksPlaced'
  <2>1. ASSUME NEW u \in AllThreads, work[u].job # Nobody PROVE job'[work[u].job].state = "running"
    <3>1. work[u].job \in Jobs /\ job[work[u].job].state = "running"
      BY <2>1, RunningJob
    <3> QED
      BY <1>4, <3>1
  <2> QED
    BY <1>1, <1>2, <2>1, WorkFrame
<1> QED
  BY <1>10, <1>11, <1>12, <1>13, <1>14, <1>15, <1>16

\* iejq_releaseGetLock.
LEMMA EndJobsKeeps ==
    ASSUME NEW t \in AllThreads, OwnerInv, EndJobs(t)
    PROVE  OwnerInv'
<1> USE DEF OwnerInv
<1> DEFINE q == work[t].on
<1>1. /\ pc[t] = "jobs" /\ work[t].job = Nobody
      /\ queue' = [queue EXCEPT ![q].getLock = Nobody]
      /\ UNCHANGED <<entryCount, useCount, exists, entry, job, todo, engine>>
  BY DEF EndJobs, dataVars
<1>2. q \in AllThreads
  BY <1>1, AtWork
<1>3. /\ \/ t \in Threads /\ pc' = [pc EXCEPT ![t] = "in"]
         \/ t = Scavenger /\ q = Scavenger /\ pc' = [pc EXCEPT ![t] = "next"]
         \/ t = Scavenger /\ q \in Threads /\ pc' = [pc EXCEPT ![t] = "finish"]
      /\ IF t = Scavenger /\ q # Scavenger THEN work' = work ELSE work' = [work EXCEPT ![t] = NoWork]
  BY <1>2, Everyone DEF EndJobs
<1>4. /\ pc' \in [AllThreads -> Places]
      /\ pc'[t] = IF t = Scavenger THEN IF q = Scavenger THEN "next" ELSE "finish" ELSE "in"
      /\ \A u \in AllThreads : u # t => pc'[u] = pc[u]
  BY <1>3, TypeParts, Everyone DEF Places
<1>5. /\ work' \in [AllThreads -> Works] /\ work'[t].job = Nobody
      /\ work'[t].on = IF t = Scavenger /\ q # Scavenger THEN q ELSE Nobody
      /\ \A u \in AllThreads : u # t => work'[u] = work[u]
  <2>1. work \in [AllThreads -> Works]
    BY TypeParts
  <2>2. CASE t = Scavenger /\ q # Scavenger
    BY <1>1, <1>3, <2>1, <2>2
  <2>3. CASE ~(t = Scavenger /\ q # Scavenger)
    <3>1. work' = [work EXCEPT ![t] = NoWork]
      BY <1>3, <2>3
    <3> QED
      BY <2>1, <2>3, <3>1, WorkEnded
  <2> QED
    BY <2>2, <2>3
<1> HIDE DEF q
<1>6. /\ queue' \in [AllThreads -> Records]
      /\ \A u \in AllThreads : /\ queue'[u].state = queue[u].state
                               /\ queue'[u].jobs = queue[u].jobs
                               /\ queue'[u].getLock = IF u = q THEN Nobody ELSE queue[u].getLock
  <2>1. queue \in [AllThreads -> Records]
    BY TypeParts
  <2>2. Nobody \in AllThreads \cup {Nobody}
    OBVIOUS
  <2>3. q \in AllThreads /\ queue' = [queue EXCEPT ![q].getLock = Nobody]
    BY <1>1, <1>2
  <2> HIDE DEF OwnerInv
  <2>4. queue' \in [AllThreads -> Records]
    BY <2>1, <2>2, <2>3 DEF Records
  <2>5. ASSUME NEW u \in AllThreads
        PROVE  /\ queue'[u].state = queue[u].state
               /\ queue'[u].jobs = queue[u].jobs
               /\ queue'[u].getLock = IF u = q THEN Nobody ELSE queue[u].getLock
    BY <2>1, <2>2, <2>3 DEF Records
  <2> QED
    BY <2>4, <2>5
<1>7. TypeOK'
  BY <1>1, <1>4, <1>5, <1>6 DEF TypeOK, Records, Works, Places
<1>8. PlacesKept'
  BY <1>1, <1>4, Everyone DEF PlacesKept
<1>9. DataCounted' /\ DataLives'
  BY <1>1, <1>4, DataFrame
<1>10. QueuesLive' /\ TodoListed'
  BY <1>1, <1>4, <1>6, ListFrame
<1>11. JobsPlaced'
  BY <1>1, <1>6 DEF JobsPlaced
<1>12. OwnWork'
  BY <1>1, <1>4, <1>5, Everyone DEF WorkPlaced, OwnWork
<1>13. ScavengerWork'
  BY <1>1, <1>2, <1>4, <1>5, Everyone DEF WorkPlaced, ScavengerWork, q
<1>14. JobsRun'
  BY <1>1, <1>4, <1>5 DEF WorkPlaced, JobsRun
<1>15. LocksPlaced'
  <2>1. queue[q].getLock = t
    BY <1>1, <1>2 DEF LocksPlaced, q
  <2>2. ASSUME NEW p \in AllThreads, NEW u \in AllThreads
        PROVE  queue'[p].getLock = u <=> pc'[u] = "jobs" /\ work'[u].on = p
    <3>1. queue[p].getLock = u <=> pc[u] = "jobs" /\ work[u].on = p
      BY DEF LocksPlaced
    <3>2. CASE u = t
      BY <1>4, <1>6, <3>1, <3>2, Everyone DEF q
    <3>3. CASE u # t
      BY <1>4, <1>5, <1>6, <2>1, <3>1, <3>3, Everyone
    <3> QED
      BY <3>2, <3>3
  <2> QED
    BY <2>2 DEF LocksPlaced
<1> QED
  BY <1>7, <1>8, <1>9, <1>10, <1>11, <1>12, <1>13, <1>14, <1>15 DEF WorkPlaced

\* ieut_acquireThreadDataReference on the thread's own data.
LEMMA StartAsyncKeeps ==
    ASSUME NEW t \in AllThreads, NEW j \in Jobs, OwnerInv, StartAsync(t, j)
    PROVE  OwnerInv'
<1> USE DEF OwnerInv
<1>1. /\ pc[t] = "in" \/ work[t].job # Nobody
      /\ job[j].state = "none"
      /\ useCount' = [useCount EXCEPT ![t] = @ + 1]
      /\ job' = [job EXCEPT ![j] = [state |-> "committing", thread |-> t]]
      /\ UNCHANGED <<entryCount, queue, pc, work, todo, engine, exists, entry>>
  BY DEF StartAsync, Acquire
<1>2. pc[t] \notin {"new", "ended"}
  BY <1>1, RunningJob
<1>3. useCount[t] \in Nat \ {0} /\ exists[t] = "live" /\ job[j].state = "none"
  BY <1>2, Used DEF StartAsync
<1>4. /\ useCount' \in [AllThreads -> Nat] /\ useCount'[t] = useCount[t] + 1
      /\ \A u \in AllThreads : u # t => useCount'[u] = useCount[u]
  BY <1>1, <1>3, TypeParts
<1>5. /\ job' \in [Jobs -> JobRecords] /\ job'[j].state = "committing" /\ job'[j].thread = t
      /\ \A k \in Jobs : k # j => job'[k] = job[k]
  BY <1>1, TypeParts DEF JobRecords
<1>6. TypeOK'
  BY <1>1, <1>4, <1>5 DEF TypeOK, JobRecords
<1>7. PlacesKept'
  BY <1>1 DEF PlacesKept
<1>8. DataCounted'
  <2>1. j \notin Pending(t) /\ Pending(t)' = Pending(t) \cup {j}
    BY <1>3, <1>5 DEF Pending
  <2>2. \A u \in AllThreads : u # t => Pending(u)' = Pending(u)
    BY <1>3, <1>5 DEF Pending
  <2>3. \A u \in AllThreads : Own(u)' = Own(u)
    BY <1>1 DEF Own
  <2>4. /\ IsFiniteSet(Pending(t)') /\ Cardinality(Pending(t)') = Cardinality(Pending(t)) + 1
    BY <2>1, PendingJoined
  <2>5. /\ useCount[t] = Cardinality(Pending(t)) + Own(t) /\ Cardinality(Pending(t)) \in Nat
        /\ Own(t) \in {0, 1}
    BY CountTypes
  <2>6. useCount'[t] = Cardinality(Pending(t)') + Own(t)
    BY <1>4, <2>4, <2>5
  <2>7. \A u \in AllThreads : useCount[u] = Cardinality(Pending(u)) + Own(u) /\ IsFiniteSet(Pending(u))
    BY DEF DataCounted
  <2> QED
    BY <1>4, <2>2, <2>3, <2>4, <2>6, <2>7 DEF DataCounted
<1>9. DataLives'
  <2>1. useCount'[t] # 0
    BY <1>3, <1>4
  <2> QED
    BY <1>1, <1>3, <1>4, <2>1 DEF DataLives
<1>10. QueuesLive' /\ TodoListed'
  BY <1>1, ListFrame
<1>11. JobsPlaced'
  <2>1. \A k \in Jobs : job[k].state = "queued" => job'[k] = job[k]
    BY <1>3, <1>5
  <2>2. \A k \in Jobs : job'[k].state # "none" => job'[k].thread \in AllThreads
    BY <1>5 DEF JobsPlaced
  <2> QED
    BY <1>1, <2>1, <2>2, JobsFrame
<1>12. WorkPlaced' /\ LocksPlaced'
  <2>1. ASSUME NEW u \in AllThreads, work[u].job # Nobody PROVE job'[work[u].job].state = "running"
    <3>1. work[u].job \in Jobs /\ job[work[u].job].state = "running"
      BY <2>1, RunningJob
    <3> QED
      BY <1>3, <1>5, <3>1
  <2> QED
    BY <1>1, <2>1, WorkFrame
<1> QED
  BY <1>6, <1>7, <1>8, <1>9, <1>10, <1>11, <1>12

\* The store calls back: the operation goes to the queue of a thread whose data
\* its reference has kept, or ends here.
LEMMA CommittedKeeps ==
    ASSUME NEW j \in Jobs, OwnerInv, Committed(j)
    PROVE  OwnerInv'
<1> USE DEF OwnerInv
<1>1. PICK t \in AllThreads : t = job[j].thread /\ job[j].state = "committing" /\ j \in Pending(t)
  BY DEF Committed, JobsPlaced, Pending
<1>2. UNCHANGED <<entryCount, pc, work, todo, engine>>
  BY DEF Committed
<1>3. \A u \in AllThreads : work[u].job # Nobody => work[u].job \in Jobs /\ job[work[u].job].state = "running"
  BY RunningJob
<1>4. CASE Len(queue[t].jobs) < QueueMax
  <2>1. /\ queue' = [queue EXCEPT ![t].jobs = Append(queue[t].jobs, j)]
        /\ job' = [job EXCEPT ![j].state = "queued"]
        /\ UNCHANGED <<useCount, exists, entry>>
    BY <1>1, <1>4 DEF Committed, dataVars
  <2>2. queue[t].jobs \in Seq(Jobs) /\ queue \in [AllThreads -> Records]
    BY TypeParts DEF Records
  <2>3. j \notin Content(queue[t].jobs) /\ Distinct(queue[t].jobs)
    BY <1>1 DEF JobsPlaced
  <2> DEFINE more == Append(queue[t].jobs, j)
  <2>4. more \in Seq(Jobs) /\ Content(more) = Content(queue[t].jobs) \union {j} /\ Distinct(more)
    BY <2>2, <2>3, ContentAppend
  <2>5. queue' = [queue EXCEPT ![t].jobs = more]
    BY <2>1
  <2> HIDE DEF more
  <2>6. /\ queue' \in [AllThreads -> Records]
        /\ \A u \in AllThreads : /\ queue'[u].state = queue[u].state
                                 /\ queue'[u].getLock = queue[u].getLock
                                 /\ queue'[u].jobs = IF u = t THEN more ELSE queue[u].jobs
    BY <2>2, <2>4, <2>5, JobsChanged
  <2>7. /\ job' \in [Jobs -> JobRecords] /\ job'[j].state = "queued"
        /\ \A k \in Jobs : job'[k].thread = job[k].thread
        /\ \A k \in Jobs : k # j => job'[k] = job[k]
    BY <2>1, TypeParts, JobStateChanged
  <2>8. TypeOK'
    BY <1>2, <2>1, <2>6, <2>7 DEF TypeOK, Records, JobRecords
  <2>9. PlacesKept'
    BY <1>2 DEF PlacesKept
  <2>10. DataCounted' /\ DataLives'
    <3>1. \A k \in Jobs : job'[k].state \in Active <=> job[k].state \in Active
      BY <1>1, <2>7 DEF Active
    <3> QED
      BY <1>2, <2>1, <2>7, <3>1, DataFrame
  <2>11. QueuesLive' /\ TodoListed'
    BY <1>2, <2>1, <2>6, ListFrame
  <2>12. JobsPlaced'
    <3>1. \A k \in Jobs : job'[k].state # "none" => job'[k].thread \in AllThreads
      BY <1>1, <2>7 DEF JobsPlaced
    <3>2. \A u \in AllThreads : Content(queue[u].jobs) \subseteq Jobs
      BY ContentOfSeq, TypeParts DEF Records
    <3>3. ASSUME NEW u \in AllThreads, NEW k \in Content(queue'[u].jobs)
          PROVE  job'[k].state = "queued" /\ job'[k].thread = u
      <4>1. CASE u = t /\ k = j
        BY <1>1, <2>7, <4>1
      <4>2. CASE ~(u = t /\ k = j)
        <5>1. k \in Content(queue[u].jobs)
          BY <2>4, <2>6, <3>3, <4>2
        <5>2. job[k].state = "queued" /\ job[k].thread = u /\ k # j /\ k \in Jobs
          BY <1>1, <3>2, <5>1 DEF JobsPlaced
        <5> QED
          BY <2>7, <5>2
      <4> QED
        BY <4>1, <4>2
    <3>4. \A u \in AllThreads : Distinct(queue'[u].jobs)
      BY <2>4, <2>6 DEF JobsPlaced
    <3> QED
      BY <3>1, <3>3, <3>4 DEF JobsPlaced
  <2>13. WorkPlaced' /\ LocksPlaced'
    <3>1. \A u \in AllThreads : work[u].job # Nobody => job'[work[u].job].state = "running"
      BY <1>1, <1>3, <2>7
    <3> QED
      BY <1>2, <2>6, <3>1, WorkFrame
  <2> QED
    BY <2>8, <2>9, <2>10, <2>11, <2>12, <2>13
<1>5. CASE ~(Len(queue[t].jobs) < QueueMax)
  <2>1. Release(t) /\ job' = [job EXCEPT ![j].state = "done"] /\ UNCHANGED queue
    BY <1>1, <1>5 DEF Committed
  <2>2. /\ useCount' \in [AllThreads -> Nat]
        /\ exists' \in [AllThreads -> {"none", "live", "freed"}]
        /\ entry' \in [AllThreads -> Entries]
        /\ job' \in [Jobs -> JobRecords]
        /\ \A k \in Jobs : job'[k].thread = job[k].thread
        /\ \A k \in Jobs : k # j => job'[k] = job[k]
        /\ DataCounted' /\ DataLives' /\ QueuesLive' /\ TodoListed'
    BY <1>1, <1>2, <2>1, OperationDone
  <2>3. TypeOK'
    BY <1>2, <2>1, <2>2 DEF TypeOK, Entries, JobRecords
  <2>4. PlacesKept'
    BY <1>2 DEF PlacesKept
  <2>5. JobsPlaced'
    <3>1. \A k \in Jobs : job[k].state = "queued" => job'[k] = job[k]
      BY <1>1, <2>2
    <3>2. \A k \in Jobs : job'[k].state # "none" => job'[k].thread \in AllThreads
      BY <1>1, <2>2 DEF JobsPlaced
    <3> QED
      BY <2>1, <3>1, <3>2, JobsFrame
  <2>6. WorkPlaced' /\ LocksPlaced'
    <3>1. \A u \in AllThreads : work[u].job # Nobody => job'[work[u].job].state = "running"
      BY <1>1, <1>3, <2>2
    <3> QED
      BY <1>2, <2>1, <3>1, WorkFrame
  <2> QED
    BY <2>2, <2>3, <2>4, <2>5, <2>6
<1> QED
  BY <1>4, <1>5

\* The scavenger takes the lock of a queue that nobody is at.
LEMMA ScavengerLocks ==
    ASSUME NEW q \in AllThreads, OwnerInv, pc[Scavenger] \in {"own", "next"},
           queue[q].getLock = Nobody, q = Scavenger \/ \E r \in BOOLEAN : <<q, r>> \in todo,
           queue' = [queue EXCEPT ![q].getLock = Scavenger],
           work' = [work EXCEPT ![Scavenger] = [NoWork EXCEPT !.on = q]],
           pc' = [pc EXCEPT ![Scavenger] = "jobs"],
           UNCHANGED <<entryCount, useCount, exists, entry, job, todo, engine>>
    PROVE  OwnerInv'
<1> USE DEF OwnerInv
<1>1. Scavenger \in AllThreads /\ Scavenger \notin Threads /\ Scavenger # Nobody
  BY Everyone
<1>2. /\ queue' \in [AllThreads -> Records]
      /\ \A u \in AllThreads : /\ queue'[u].state = queue[u].state
                               /\ queue'[u].jobs = queue[u].jobs
                               /\ queue'[u].getLock = IF u = q THEN Scavenger ELSE queue[u].getLock
  <2>1. queue \in [AllThreads -> Records] /\ Scavenger \in AllThreads \cup {Nobody}
    BY <1>1, TypeParts
  <2> HIDE DEF OwnerInv
  <2>2. queue' \in [AllThreads -> Records]
    BY <2>1 DEF Records
  <2>3. ASSUME NEW u \in AllThreads
        PROVE  /\ queue'[u].state = queue[u].state
               /\ queue'[u].jobs = queue[u].jobs
               /\ queue'[u].getLock = IF u = q THEN Scavenger ELSE queue[u].getLock
    BY <2>1 DEF Records
  <2> QED
    BY <2>2, <2>3
<1>3. /\ work' \in [AllThreads -> Works] /\ work'[Scavenger].on = q /\ work'[Scavenger].job = Nobody
      /\ \A u \in AllThreads : u # Scavenger => work'[u] = work[u]
  <2>1. work \in [AllThreads -> Works]
    BY TypeParts
  <2> QED
    BY <1>1, <2>1, WorkStarted
<1>4. /\ pc' \in [AllThreads -> Places] /\ pc'[Scavenger] = "jobs"
      /\ \A u \in AllThreads : u # Scavenger => pc'[u] = pc[u]
  BY <1>1, TypeParts, Moved DEF Places
<1>5. TypeOK'
  BY <1>2, <1>3, <1>4 DEF TypeOK, Records, Works, Places
<1>6. PlacesKept'
  BY <1>1, <1>4, Everyone DEF PlacesKept
<1>7. DataCounted' /\ DataLives'
  BY <1>1, <1>4, DataFrame
<1>8. QueuesLive' /\ TodoListed'
  BY <1>1, <1>2, <1>4, ListFrame
<1>9. JobsPlaced'
  BY <1>2 DEF JobsPlaced
<1>10. OwnWork'
  BY <1>1, <1>3, <1>4, Everyone DEF WorkPlaced, OwnWork
<1>11. ScavengerWork'
  BY <1>1, <1>3, <1>4, Everyone DEF ScavengerWork
<1>12. JobsRun'
  BY <1>1, <1>3, <1>4 DEF WorkPlaced, JobsRun
<1>13. LocksPlaced'
  <2>1. ASSUME NEW p \in AllThreads, NEW u \in AllThreads
        PROVE  queue'[p].getLock = u <=> pc'[u] = "jobs" /\ work'[u].on = p
    <3>1. queue[p].getLock = u <=> pc[u] = "jobs" /\ work[u].on = p
      BY DEF LocksPlaced
    <3>2. CASE u = Scavenger
      BY <1>2, <1>3, <1>4, <3>1, <3>2
    <3>3. CASE u # Scavenger
      BY <1>2, <1>3, <1>4, <3>1, <3>3, Everyone
    <3> QED
      BY <3>2, <3>3
  <2> QED
    BY <2>1 DEF LocksPlaced
<1> QED
  BY <1>5, <1>6, <1>7, <1>8, <1>9, <1>10, <1>11, <1>12, <1>13 DEF WorkPlaced

LEMMA ScavengeOwnKeeps ==
    ASSUME OwnerInv, ScavengeOwn
    PROVE  OwnerInv'
BY ScavengerLocks, Everyone DEF ScavengeOwn, dataVars

LEMMA ScavengeQueueKeeps ==
    ASSUME NEW t \in Threads, NEW removal \in BOOLEAN, OwnerInv, ScavengeQueue(t, removal)
    PROVE  OwnerInv'
<1>1. /\ t \in AllThreads /\ pc[Scavenger] = "next" /\ <<t, removal>> \in todo
      /\ UNCHANGED <<entryCount, useCount, exists, entry, job, engine>>
  BY Everyone DEF ScavengeQueue, dataVars
<1>2. CASE queue[t].getLock = Nobody
  <2>1. /\ queue' = [queue EXCEPT ![t].getLock = Scavenger]
        /\ work' = [work EXCEPT ![Scavenger] = [NoWork EXCEPT !.on = t]]
        /\ pc' = [pc EXCEPT ![Scavenger] = "jobs"] /\ UNCHANGED todo
    BY <1>2 DEF ScavengeQueue
  <2> QED
    BY <1>1, <1>2, <2>1, ScavengerLocks
<1>3. CASE queue[t].getLock # Nobody
  <2> USE DEF OwnerInv
  <2>1. /\ ~removal /\ todo' = todo \ {<<t, removal>>} /\ UNCHANGED <<queue, work, pc>>
    BY <1>3 DEF ScavengeQueue
  <2>2. /\ todo' \subseteq todo
        /\ \A u \in AllThreads : <<u, TRUE>> \in todo' <=> <<u, TRUE>> \in todo
    BY <2>1
  <2>3. TypeOK'
    BY <1>1, <2>1, <2>2 DEF TypeOK
  <2>4. PlacesKept'
    BY <1>1, <2>1 DEF PlacesKept
  <2>5. DataCounted' /\ DataLives'
    BY <1>1, <2>1, DataFrame
  <2>6. QueuesLive'
    BY <1>1, <2>1, <2>2 DEF QueuesLive
  <2>7. TodoListed'
    BY <1>1, <2>1, <2>2 DEF TodoListed
  <2>8. JobsPlaced'
    BY <1>1, <2>1 DEF JobsPlaced
  <2>9. OwnWork' /\ JobsRun' /\ LocksPlaced'
    BY <1>1, <2>1 DEF WorkPlaced, OwnWork, JobsRun, LocksPlaced
  <2>10. ScavengerWork'
    BY <1>1, <2>1, ThreadJobsAssumption DEF WorkPlaced, ScavengerWork
  <2> QED
    BY <2>3, <2>4, <2>5, <2>6, <2>7, <2>8, <2>9, <2>10 DEF WorkPlaced
<1> QED
  BY <1>2, <1>3

\* The new delay of a queue stays between one increment and the longest wait.
LEMMA DelayTypes ==
    ASSUME TypeOK, NEW t \in Watched, NEW d \in NewDelays(t)
    PROVE  d \in 1..MaxDelay
<1>1. entry[t].delay \in 1..MaxDelay /\ MaxDelay \in Nat \ {0}
  BY ThreadJobsAssumption, Everyone DEF TypeOK, Watched
<1>2. \/ d = entry[t].delay
      \/ entry[t].delay < MaxDelay /\ d = entry[t].delay + 1
      \/ d = MaxDelay \/ d = 1
      \/ entry[t].delay > 1 /\ d = entry[t].delay - 1
  BY DEF NewDelays
<1> QED
  BY <1>1, <1>2

\* The pass over the list takes the queues to be removed off it, and changes
\* nothing of the others but the figures it watches them by.
LEMMA ScannedEntries ==
    ASSUME OwnerInv, Scan
    PROVE  /\ entry' \in [AllThreads -> Entries]
           /\ \A t \in Removals : ~entry'[t].listed /\ ~entry'[t].removalRequested
           /\ \A t \in AllThreads : t \notin Removals =>
                  /\ entry'[t].listed = entry[t].listed
                  /\ entry'[t].removalRequested = entry[t].removalRequested
<1>1. PICK d \in [Watched -> UNION {NewDelays(t) : t \in Watched}] :
          /\ \A t \in Watched : d[t] \in NewDelays(t)
          /\ entry' = [t \in AllThreads |->
               CASE t \in Removals -> NoEntry
                 [] t \in Watched ->
                      [entry[t] EXCEPT
                          !.lastEntryCount = entryCount[t],
                          !.idle = IF Returned(t) \/ Drained(t) THEN 0 ELSE @,
                          !.delay = d[t]]
                 [] OTHER -> entry[t]]
  BY DEF Scan
<1>2. entry \in [AllThreads -> Entries] /\ entryCount \in [AllThreads -> 0..MaxEntries]
  BY TypeParts DEF OwnerInv
<1>3. Watched \cap Removals = {} /\ Watched \subseteq AllThreads /\ Removals \subseteq AllThreads
  BY Everyone DEF Watched, Removals
<1>4. ASSUME NEW t \in Removals
      PROVE  entry'[t] \in Entries /\ ~entry'[t].listed /\ ~entry'[t].removalRequested
  <2>1. entry'[t] = NoEntry
    BY <1>1, <1>3
  <2>2. NoEntry.listed = FALSE /\ NoEntry.removalRequested = FALSE
    BY DEF NoEntry
  <2>3. NoEntry \in Entries
    BY EntryTypes
  <2> QED
    BY <2>1, <2>2, <2>3
<1>5. ASSUME NEW t \in Watched
      PROVE  /\ entry'[t] \in Entries
             /\ entry'[t].listed = entry[t].listed
             /\ entry'[t].removalRequested = entry[t].removalRequested
  <2>1. PICK i : /\ i \in {0, entry[t].idle}
                 /\ entry'[t] = [entry[t] EXCEPT !.lastEntryCount = entryCount[t],
                                                 !.idle = i, !.delay = d[t]]
    <3>1. entry'[t] = [entry[t] EXCEPT !.lastEntryCount = entryCount[t],
                           !.idle = IF Returned(t) \/ Drained(t) THEN 0 ELSE @, !.delay = d[t]]
      BY <1>1, <1>3
    <3>2. CASE Returned(t) \/ Drained(t)
      BY <3>1, <3>2
    <3>3. CASE ~(Returned(t) \/ Drained(t))
      BY <3>1, <3>3
    <3> QED
      BY <3>2, <3>3
  <2>2. /\ entry[t] \in Entries /\ entry[t].idle \in 0..(MaxDelay + 1)
        /\ 0 \in 0..(MaxDelay + 1) /\ entryCount[t] \in 0..MaxEntries
    BY <1>2, <1>3, ThreadJobsAssumption DEF Entries
  <2>3. d[t] \in 1..MaxDelay
    BY <1>1, DelayTypes DEF OwnerInv
  <2>4. i \in 0..(MaxDelay + 1)
    BY <2>1, <2>2
  <2> QED
    BY <2>1, <2>2, <2>3, <2>4 DEF Entries
<1>6. ASSUME NEW t \in AllThreads, t \notin Removals, t \notin Watched
      PROVE  entry'[t] = entry[t]
  BY <1>1, <1>6
<1>7. DOMAIN entry' = AllThreads /\ entry' = [t \in AllThreads |-> entry'[t]]
  <2> DEFINE scanned(t) ==
               CASE t \in Removals -> NoEntry
                 [] t \in Watched ->
                      [entry[t] EXCEPT
                          !.lastEntryCount = entryCount[t],
                          !.idle = IF Returned(t) \/ Drained(t) THEN 0 ELSE @,
                          !.delay = d[t]]
                 [] OTHER -> entry[t]
  <2>1. entry' = [t \in AllThreads |-> scanned(t)]
    BY <1>1
  <2> HIDE DEF scanned
  <2> QED
    BY <2>1
<1>8. \A t \in AllThreads : entry'[t] \in Entries
  BY <1>2, <1>4, <1>5, <1>6
<1>9. entry' \in [AllThreads -> Entries]
  BY <1>7, <1>8
<1> QED
  BY <1>4, <1>5, <1>6, <1>9

LEMMA ScanKeeps ==
    ASSUME OwnerInv, Scan
    PROVE  OwnerInv'
<1> USE DEF OwnerInv
<1>1. /\ pc[Scavenger] = "scan" /\ engine # "destroyed" /\ todo = {}
      /\ UNCHANGED <<useCount, entryCount, exists, work, job, engine>>
      /\ Scavenger \in AllThreads /\ Scavenger \notin Threads
  BY Everyone DEF Scan, PlacesKept
<1>2. /\ pc' \in [AllThreads -> Places] /\ pc'[Scavenger] = "own"
      /\ \A u \in AllThreads : u # Scavenger => pc'[u] = pc[u]
  BY <1>1, TypeParts, Moved DEF Scan, Places
<1>3. /\ entry' \in [AllThreads -> Entries]
      /\ \A t \in Removals : ~entry'[t].listed /\ ~entry'[t].removalRequested
      /\ \A t \in AllThreads : t \notin Removals =>
             /\ entry'[t].listed = entry[t].listed
             /\ entry'[t].removalRequested = entry[t].removalRequested
  BY ScannedEntries
<1>4. /\ queue' \in [AllThreads -> Records]
      /\ \A u \in AllThreads : /\ queue'[u].state = queue[u].state
                               /\ queue'[u].jobs = queue[u].jobs
                               /\ queue'[u].getLock = queue[u].getLock
  <2>1. queue \in [AllThreads -> Records]
    BY TypeParts
  <2>2. queue' = [t \in AllThreads |->
                    IF t \in Watched /\ Overdue(t) /\ Extra
                    THEN [queue[t] EXCEPT !.ownerBlocked = FALSE] ELSE queue[t]]
    BY DEF Scan
  <2>3. ASSUME NEW t \in AllThreads
        PROVE  /\ queue'[t] \in Records /\ queue'[t].state = queue[t].state
               /\ queue'[t].jobs = queue[t].jobs /\ queue'[t].getLock = queue[t].getLock
    <3>1. queue'[t] = queue[t] \/ queue'[t] = [queue[t] EXCEPT !.ownerBlocked = FALSE]
      BY <2>2
    <3> QED
      BY <2>1, <3>1 DEF Records
  <2> QED
    BY <2>2, <2>3
<1>5. \A t \in Removals : t \in Threads /\ exists[t] = "freed"
  <2> SUFFICES ASSUME NEW t \in Removals PROVE t \in Threads /\ exists[t] = "freed"
    OBVIOUS
  <2>1. t \in AllThreads /\ entry[t].listed /\ entry[t].removalRequested
    BY DEF Removals
  <2>2. ~entry[Scavenger].removalRequested
    BY <1>1, Used
  <2>3. exists[t] # "live" /\ exists[t] # "none"
    BY <2>1 DEF DataLives
  <2>4. exists[t] \in {"none", "live", "freed"}
    BY <2>1 DEF TypeOK
  <2> QED
    BY <2>1, <2>2, <2>3, <2>4, Everyone
<1>6. /\ \A t \in AllThreads : <<t, TRUE>> \in todo' <=> t \in Removals
      /\ \A t \in AllThreads : <<t, FALSE>> \in todo' => t \in Watched
      /\ todo' \subseteq Threads \X BOOLEAN
  <2>1. todo' = {<<t, TRUE>> : t \in Removals} \cup
                {<<t, FALSE>> : t \in {u \in Watched : Drained(u)}}
    BY DEF Scan
  <2>2. Watched \subseteq Threads /\ Removals \subseteq Threads
    BY <1>5 DEF Watched
  <2>3. \A t \in AllThreads : <<t, TRUE>> \in todo' <=> t \in Removals
    BY <2>1
  <2>4. \A t \in AllThreads : <<t, FALSE>> \in todo' => t \in Watched
    BY <2>1
  <2>5. \A q \in todo' : q \in Threads \X BOOLEAN
    <3> SUFFICES ASSUME NEW q \in todo' PROVE q \in Threads \X BOOLEAN
      OBVIOUS
    <3>1. \/ \E t \in Removals : q = <<t, TRUE>>
          \/ \E t \in Watched : q = <<t, FALSE>>
      BY <2>1
    <3>2. \A t \in Threads, r \in BOOLEAN : <<t, r>> \in Threads \X BOOLEAN
      OBVIOUS
    <3>3. TRUE \in BOOLEAN /\ FALSE \in BOOLEAN
      OBVIOUS
    <3>4. PICK t \in Threads, r \in BOOLEAN : q = <<t, r>>
      BY <2>2, <3>1, <3>3, Zenon
    <3> QED
      BY <3>2, <3>4, Zenon
  <2> QED
    BY <2>3, <2>4, <2>5
<1>7. TypeOK'
  BY <1>1, <1>2, <1>3, <1>4, <1>6, TypeParts DEF TypeOK, Records, Entries, Places
<1>8. PlacesKept'
  BY <1>1, <1>2, Everyone DEF PlacesKept
<1>9. DataCounted'
  <2>1. \A u \in AllThreads : Pending(u)' = Pending(u)
    BY <1>1 DEF Pending
  <2>2. \A u \in AllThreads : Own(u)' = Own(u)
    BY <1>1, <1>2 DEF Own
  <2> QED
    BY <1>1, <2>1, <2>2 DEF DataCounted
<1>10. DataLives'
  <2>1. ASSUME NEW t \in AllThreads, t \in Removals
        PROVE  ~(entry'[t].listed /\ ~entry'[t].removalRequested) /\ exists'[t] # "live" /\ pc'[t] # "new"
    BY <1>1, <1>2, <1>3, <1>5, <2>1 DEF DataLives
  <2> QED
    BY <1>1, <1>2, <1>3, <2>1 DEF DataLives
<1>11. QueuesLive'
  <2>1. ASSUME NEW t \in AllThreads
        PROVE  entry[t].listed <=> entry'[t].listed \/ <<t, TRUE>> \in todo'
    BY <1>3, <1>6 DEF Removals
  <2>2. \A t \in AllThreads : <<t, TRUE>> \notin todo
    BY <1>1
  <2>3. \A t \in AllThreads : pc'[t] = "new" <=> pc[t] = "new"
    BY <1>1, <1>2
  <2> QED
    BY <1>1, <1>4, <2>1, <2>2, <2>3 DEF QueuesLive
<1>12. TodoListed'
  <2>1. ASSUME NEW t \in Threads, <<t, FALSE>> \in todo'
        PROVE  entry'[t].listed
    BY <1>3, <1>6, <2>1, Everyone DEF Watched, Removals
  <2>2. ASSUME NEW t \in Threads, <<t, TRUE>> \in todo'
        PROVE  ~entry'[t].listed /\ exists'[t] = "freed"
    BY <1>1, <1>3, <1>5, <1>6, <2>2, Everyone
  <2> QED
    BY <2>1, <2>2 DEF TodoListed
<1>13. JobsPlaced'
  BY <1>1, <1>4 DEF JobsPlaced
<1>14. OwnWork' /\ ScavengerWork' /\ JobsRun'
  <2>1. OwnWork'
    BY <1>1, <1>2, Everyone DEF WorkPlaced, OwnWork
  <2>2. ScavengerWork'
    BY <1>1, <1>2, ThreadJobsAssumption DEF WorkPlaced, ScavengerWork
  <2>3. JobsRun'
    BY <1>1, <1>2 DEF WorkPlaced, JobsRun
  <2> QED
    BY <2>1, <2>2, <2>3
<1>15. LocksPlaced'
  BY <1>1, <1>2, <1>4 DEF LocksPlaced
<1> QED
  BY <1>7, <1>8, <1>9, <1>10, <1>11, <1>12, <1>13, <1>14, <1>15 DEF WorkPlaced

\* iejq_freeJobQueue: a queue is freed when it is off the list and done with.
LEMMA FinishQueueKeeps ==
    ASSUME OwnerInv, FinishQueue
    PROVE  OwnerInv'
<1> USE DEF OwnerInv
<1>1. /\ Scavenger \in AllThreads /\ Scavenger \notin Threads /\ pc[Scavenger] = "finish"
      /\ UNCHANGED <<entryCount, useCount, exists, entry, job, engine>>
  BY Everyone DEF FinishQueue, dataVars
<1>2. PICK t \in Threads : t = work[Scavenger].on
  BY <1>1 DEF WorkPlaced, ScavengerWork
<1>3. /\ queue' = IF <<t, TRUE>> \in todo
                  THEN [queue EXCEPT ![t].state = "freed"] ELSE queue
      /\ todo' = {q \in todo : q[1] # t}
      /\ work' = [work EXCEPT ![Scavenger] = NoWork]
      /\ pc' = [pc EXCEPT ![Scavenger] = "next"]
  BY <1>2 DEF FinishQueue
<1>4. /\ pc' \in [AllThreads -> Places] /\ pc'[Scavenger] = "next"
      /\ \A u \in AllThreads : u # Scavenger => pc'[u] = pc[u]
  BY <1>1, <1>3, TypeParts, Moved DEF Places
<1>5. /\ work' \in [AllThreads -> Works]
      /\ work'[Scavenger].on = Nobody /\ work'[Scavenger].job = Nobody
      /\ \A u \in AllThreads : u # Scavenger => work'[u] = work[u]
  BY <1>1, <1>3, TypeParts, WorkEnded
<1>6. /\ todo' \subseteq todo /\ \A r : <<t, r>> \notin todo'
      /\ \A u \in AllThreads, r \in BOOLEAN : u # t => (<<u, r>> \in todo' <=> <<u, r>> \in todo)
  BY <1>3
<1>7. /\ queue' \in [AllThreads -> Records]
      /\ \A u \in AllThreads : /\ queue'[u].jobs = queue[u].jobs
                               /\ queue'[u].getLock = queue[u].getLock
                               /\ u # t => queue'[u].state = queue[u].state
      /\ queue'[t].state = IF <<t, TRUE>> \in todo THEN "freed" ELSE queue[t].state
  <2>1. queue \in [AllThreads -> Records] /\ t \in AllThreads
    BY TypeParts, Everyone
  <2>2. CASE <<t, TRUE>> \in todo
    <3>1. queue' = [queue EXCEPT ![t].state = "freed"]
      BY <1>3, <2>2
    <3> QED
      BY <2>1, <2>2, <3>1 DEF Records
  <2>3. CASE <<t, TRUE>> \notin todo
    BY <1>3, <2>1, <2>3
  <2> QED
    BY <2>2, <2>3
<1>8. TypeOK'
  <2>1. todo' \subseteq Threads \X BOOLEAN
    BY <1>6 DEF TypeOK
  <2> QED
    BY <1>1, <1>4, <1>5, <1>7, <2>1 DEF TypeOK, Records, Works, Places
<1>9. PlacesKept'
  BY <1>1, <1>4, Everyone DEF PlacesKept
<1>10. DataCounted' /\ DataLives'
  BY <1>1, <1>4, DataFrame
<1>11. QueuesLive'
  <2>1. \A u \in AllThreads : pc'[u] = "new" <=> pc[u] = "new"
    BY <1>1, <1>4
  <2>2. <<t, TRUE>> \in todo => ~entry[t].listed /\ pc[t] # "new"
    BY Everyone DEF TodoListed, DataLives
  <2>3. ASSUME NEW u \in AllThreads, pc'[u] = "new"
        PROVE  queue'[u].state = "none"
    BY <1>7, <2>1, <2>2, <2>3 DEF QueuesLive
  <2>4. ASSUME NEW u \in AllThreads, engine # "destroyed"
        PROVE  queue'[u].state = "live" <=> entry[u].listed \/ <<u, TRUE>> \in todo'
    <3>1. queue[u].state = "live" <=> entry[u].listed \/ <<u, TRUE>> \in todo
      BY <2>4 DEF QueuesLive
    <3>2. CASE u = t
      <4>1. CASE <<t, TRUE>> \in todo
        BY <1>6, <1>7, <2>2, <3>2, <4>1
      <4>2. CASE <<t, TRUE>> \notin todo
        BY <1>6, <1>7, <3>1, <3>2, <4>2
      <4> QED
        BY <4>1, <4>2
    <3>3. CASE u # t
      BY <1>6, <1>7, <3>1, <3>3
    <3> QED
      BY <3>2, <3>3
  <2> QED
    BY <1>1, <2>3, <2>4 DEF QueuesLive
<1>12. TodoListed'
  BY <1>1, <1>6 DEF TodoListed
<1>13. JobsPlaced'
  BY <1>1, <1>7 DEF JobsPlaced
<1>14. OwnWork'
  BY <1>1, <1>4, <1>5, Everyone DEF WorkPlaced, OwnWork
<1>15. ScavengerWork'
  BY <1>1, <1>4, <1>5, ThreadJobsAssumption DEF ScavengerWork
<1>16. JobsRun'
  BY <1>1, <1>4, <1>5 DEF WorkPlaced, JobsRun
<1>17. LocksPlaced'
  BY <1>1, <1>4, <1>5, <1>7 DEF LocksPlaced
<1> QED
  BY <1>8, <1>9, <1>10, <1>11, <1>12, <1>13, <1>14, <1>15, <1>16, <1>17 DEF WorkPlaced

LEMMA SleepKeeps ==
    ASSUME OwnerInv, Sleep
    PROVE  OwnerInv'
<1> USE DEF OwnerInv
<1>1. /\ Scavenger \in AllThreads /\ Scavenger \notin Threads /\ pc[Scavenger] = "next"
      /\ todo = {} /\ UNCHANGED <<useCount, entryCount, exists, queue, work, job, todo, engine>>
  BY Everyone DEF Sleep
<1>2. /\ pc' \in [AllThreads -> Places] /\ pc'[Scavenger] = "scan"
      /\ \A u \in AllThreads : u # Scavenger => pc'[u] = pc[u]
  BY <1>1, TypeParts, Moved DEF Sleep, Places
<1>3. /\ entry' \in [AllThreads -> Entries]
      /\ \A u \in AllThreads : /\ entry'[u].listed = entry[u].listed
                               /\ entry'[u].removalRequested = entry[u].removalRequested
  <2>1. entry' = [t \in AllThreads |->
                    IF entry[t].idle <= MaxDelay /\ t \in Watched
                    THEN [entry[t] EXCEPT !.idle = @ + 1] ELSE entry[t]]
    BY DEF Sleep
  <2>2. ASSUME NEW t \in AllThreads
        PROVE  /\ entry'[t] \in Entries /\ entry'[t].listed = entry[t].listed
               /\ entry'[t].removalRequested = entry[t].removalRequested
    <3>1. entry[t] \in Entries /\ entry[t].idle \in 0..(MaxDelay + 1)
      BY TypeParts DEF Entries
    <3>2. CASE entry[t].idle <= MaxDelay /\ t \in Watched
      <4>1. PICK i : i = entry[t].idle + 1
        OBVIOUS
      <4>2. entry'[t] = [entry[t] EXCEPT !.idle = i]
        BY <2>1, <3>2, <4>1
      <4>3. i \in 0..(MaxDelay + 1)
        BY <3>1, <3>2, <4>1, ThreadJobsAssumption
      <4> QED
        BY <3>1, <4>2, <4>3 DEF Entries
    <3>3. CASE ~(entry[t].idle <= MaxDelay /\ t \in Watched)
      BY <2>1, <3>1, <3>3
    <3> QED
      BY <3>2, <3>3
  <2> QED
    BY <2>1, <2>2
<1>4. TypeOK'
  BY <1>1, <1>2, <1>3 DEF TypeOK, Entries, Places
<1>5. PlacesKept'
  BY <1>1, <1>2, Everyone DEF PlacesKept
<1>6. DataCounted' /\ DataLives'
  BY <1>1, <1>2, <1>3, DataFrame
<1>7. QueuesLive' /\ TodoListed'
  BY <1>1, <1>2, <1>3, ListFrame
<1>8. JobsPlaced'
  BY <1>1 DEF JobsPlaced
<1>9. OwnWork'
  BY <1>1, <1>2, Everyone DEF WorkPlaced, OwnWork
<1>10. ScavengerWork'
  BY <1>1, <1>2 DEF WorkPlaced, ScavengerWork
<1>11. JobsRun'
  BY <1>1, <1>2 DEF WorkPlaced, JobsRun
<1>12. LocksPlaced'
  BY <1>1, <1>2 DEF LocksPlaced
<1> QED
  BY <1>4, <1>5, <1>6, <1>7, <1>8, <1>9, <1>10, <1>11, <1>12 DEF WorkPlaced

LEMMA StutterKeeps ==
    ASSUME OwnerInv, UNCHANGED vars
    PROVE  OwnerInv'
<1> USE DEF OwnerInv, vars
<1>1. TypeOK' /\ PlacesKept'
  BY DEF TypeOK, PlacesKept
<1>2. DataCounted' /\ DataLives'
  BY DataFrame
<1>3. QueuesLive' /\ TodoListed'
  BY ListFrame
<1>4. JobsPlaced'
  BY DEF JobsPlaced
<1>5. \A u \in AllThreads : work[u].job # Nobody => job'[work[u].job].state = "running"
  BY DEF WorkPlaced, JobsRun
<1>6. WorkPlaced' /\ LocksPlaced'
  BY <1>5, WorkFrame
<1> QED
  BY <1>1, <1>2, <1>3, <1>4, <1>6

LEMMA OwnerStep == OwnerInv /\ [Next]_vars => OwnerInv'
<1> SUFFICES ASSUME OwnerInv, [Next]_vars PROVE OwnerInv'
  OBVIOUS
<1>1. ASSUME NEW t \in Threads, ThreadStep(t) PROVE OwnerInv'
  BY <1>1, ThreadInitKeeps, EnterEngineKeeps, ThreadTermKeeps, TakeOwnLockKeeps DEF ThreadStep
<1>2. ASSUME NEW t \in AllThreads, JobStep(t) PROVE OwnerInv'
  BY <1>2, GetJobKeeps, AdoptJobKeeps, JobDoneKeeps, EndJobsKeeps DEF JobStep
<1>3. ASSUME NEW t \in AllThreads, NEW j \in Jobs, StartAsync(t, j) PROVE OwnerInv'
  BY <1>3, StartAsyncKeeps
<1>4. ASSUME NEW j \in Jobs, Committed(j) PROVE OwnerInv'
  BY <1>4, CommittedKeeps
<1>5. ASSUME ScavengerStep PROVE OwnerInv'
  BY <1>5, ScanKeeps, ScavengeOwnKeeps, FinishQueueKeeps, SleepKeeps, ScavengerEndsKeeps,
     ScavengeQueueKeeps DEF ScavengerStep
<1>6. ASSUME StopCallbacks \/ RequestEnd PROVE OwnerInv'
  BY <1>6, ShutdownKeeps
<1>7. ASSUME DestroyThreadJobs PROVE OwnerInv'
  BY <1>7, DestroyThreadJobsKeeps
<1>8. ASSUME UNCHANGED vars PROVE OwnerInv'
  BY <1>8, StutterKeeps
<1> QED
  BY <1>1, <1>2, <1>3, <1>4, <1>5, <1>6, <1>7, <1>8 DEF Next

LEMMA OwnerInvariant == Spec => []OwnerInv
BY OwnerInit, OwnerStep, PTL DEF Spec

-----------------------------------------------------------------------------
(* What the invariant says about queues and data.                           *)

\* The queues of the round, and those that someone is at work on, are live.
LEMMA RoundLive ==
    ASSUME OwnerInv, NEW t \in Threads, NEW r \in BOOLEAN, <<t, r>> \in todo
    PROVE  queue[t].state = "live"
<1>1. engine # "destroyed"
  BY DEF OwnerInv, PlacesKept
<1>2. entry[t].listed \/ <<t, TRUE>> \in todo
  <2>1. CASE r = TRUE
    BY <2>1
  <2>2. CASE r = FALSE
    BY <2>2 DEF OwnerInv, TodoListed
  <2> QED
    BY <2>1, <2>2
<1> QED
  BY <1>1, <1>2, Everyone DEF OwnerInv, QueuesLive

LEMMA WorkLive ==
    ASSUME OwnerInv, NEW t \in AllThreads, work[t].on # Nobody
    PROVE  work[t].on \in AllThreads /\ queue[work[t].on].state = "live"
<1>1. work[t].on \in AllThreads
  BY TypeParts DEF OwnerInv, Works
<1>2. CASE t \in Threads
  <2>1. pc[t] = "jobs" /\ work[t].on = t
    BY <1>2 DEF OwnerInv, WorkPlaced, OwnWork
  <2>2. engine = "up"
    BY <1>2, <2>1 DEF OwnerInv, PlacesKept
  <2> QED
    BY <2>1, <2>2, Used
<1>3. CASE t = Scavenger
  <2>1. pc[Scavenger] \in {"jobs", "finish"}
    BY <1>3 DEF OwnerInv, WorkPlaced, ScavengerWork
  <2>2. engine # "destroyed"
    BY <2>1 DEF OwnerInv, PlacesKept
  <2>3. CASE work[t].on = Scavenger
    BY <1>3, <2>1, <2>2, <2>3, Used
  <2>4. CASE work[t].on \in Threads
    <3>1. PICK r \in BOOLEAN : <<work[t].on, r>> \in todo
      BY <1>3, <2>4 DEF OwnerInv, WorkPlaced, ScavengerWork
    <3> QED
      BY <1>1, <2>4, <3>1, RoundLive
  <2> QED
    BY <1>1, <2>3, <2>4, Everyone
<1> QED
  BY <1>2, <1>3, Everyone

LEMMA OwnerCounts == OwnerInv => ReferencesCounted
BY DEF OwnerInv, DataCounted, ReferencesCounted, Own

LEMMA OwnerNoUseAfterFree == OwnerInv => NoUseAfterFree
<1> SUFFICES ASSUME OwnerInv PROVE NoUseAfterFree
  OBVIOUS
<1>1. ASSUME NEW j \in Jobs, job[j].state \in {"committing", "queued"}
      PROVE  /\ exists[job[j].thread] = "live"
             /\ engine # "destroyed" => queue[job[j].thread].state = "live"
  <2>1. job[j].thread \in AllThreads
    BY <1>1 DEF OwnerInv, JobsPlaced
  <2>2. j \in Pending(job[j].thread)
    BY <1>1 DEF Pending
  <2> QED
    BY <2>1, <2>2, Used
<1>2. \A t \in AllThreads : work[t].on # Nobody => queue[work[t].on].state = "live"
  BY WorkLive
<1>3. \A t \in Watched : exists[t] = "live"
  BY Everyone DEF OwnerInv, DataLives, Watched
<1>4. ASSUME NEW q \in todo PROVE queue[q[1]].state = "live"
  <2>1. PICK t \in Threads, r \in BOOLEAN : q = <<t, r>>
    BY DEF OwnerInv, TypeOK
  <2>2. queue[t].state = "live"
    BY <2>1, RoundLive
  <2> QED
    BY <2>1, <2>2
<1> QED
  BY <1>1, <1>2, <1>3, <1>4 DEF NoUseAfterFree

LEMMA OwnerFreedEmpty == OwnerInv => FreedQueuesEmpty
<1> SUFFICES ASSUME OwnerInv, engine # "destroyed", NEW t \in AllThreads, queue[t].state = "freed"
             PROVE  queue[t].jobs = << >> /\ queue[t].getLock = Nobody /\ Pending(t) = {}
  BY DEF FreedQueuesEmpty
<1>1. ~entry[t].listed
  BY DEF OwnerInv, QueuesLive
<1>2. Pending(t) = {}
  <2>1. Pending(t) \subseteq Jobs
    BY DEF Pending
  <2> QED
    BY <1>1, <2>1, Used
<1>3. queue[t].jobs = << >>
  <2>1. queue[t].jobs \in Seq(Jobs)
    BY TypeParts DEF OwnerInv, Records
  <2>2. \A j \in Content(queue[t].jobs) : j \in Jobs /\ job[j].state = "queued" /\ job[j].thread = t
    BY <2>1, ContentOfSeq DEF OwnerInv, JobsPlaced
  <2>3. Content(queue[t].jobs) = {}
    BY <1>2, <2>2 DEF Pending
  <2> QED
    BY <2>1, <2>3, ContentOfSeq
<1>4. queue[t].getLock = Nobody
  <2> SUFFICES ASSUME queue[t].getLock # Nobody PROVE FALSE
    OBVIOUS
  <2>1. PICK u \in AllThreads : queue[t].getLock = u
    BY TypeParts DEF OwnerInv, Records
  <2>2. work[u].on = t /\ t # Nobody
    BY <2>1, Everyone DEF OwnerInv, LocksPlaced
  <2> QED
    BY <2>2, WorkLive
<1> QED
  BY <1>2, <1>3, <1>4

\* The data and the job queue of a thread live exactly as long as anyone has use
\* for them (ieut_acquireThreadDataReference, ieut_releaseThreadDataReference,
\* ietj_removeThreadJobQueue): for any number of threads, operations and jobs, and
\* whatever comes first of the end of a thread, the callback of the store, the
\* scavenger and the shutdown, the references are those of the thread and of the
\* operations that are still to come back to it, nobody touches a freed queue or
\* the data of a thread that has gone, and no queue is freed with a job on it.
THEOREM OwnershipKept == Spec => []OwnershipExact
<1>1. OwnerInv => OwnershipExact
  BY OwnerCounts, OwnerNoUseAfterFree, OwnerFreedEmpty DEF OwnerInv, OwnershipExact
<1> QED
  BY <1>1, OwnerInvariant, PTL
=============================================================================
