------------------------------ MODULE JobQueue ------------------------------
(***************************************************************************)
(* The job queue of one engine thread (jobQueue.c): a ring of slots, each a *)
(* function and its arguments, that one thread fills and others empty with  *)
(* no lock in common.                                                       *)
(*                                                                          *)
(* The put end has no lock (IEJQ_JOBQUEUE_PUTLOCK is not defined): the store *)
(* calls back all commits of one stream, and those the callbacks make in    *)
(* turn, on one thread, so a queue has one putter.  The get end is used by   *)
(* the owner and by the scavenger, under getLock.  Each step is one access  *)
(* to shared memory; the write and read barriers and the volatile array keep *)
(* them in program order.                                                   *)
(***************************************************************************)
EXTENDS Naturals, Sequences

CONSTANTS Getters,    \* threads that empty the queue: its owner, the scavenger
          Scavenger,  \* the one that is sure to come back (threadJobs.c)
          JobMax,     \* IEJQ_JOB_MAX
          MaxJobs,    \* bound on the jobs offered in a behaviour
          NoThread    \* nobody holds getLock

ASSUME JobQueueAssumption == /\ JobMax \in Nat /\ JobMax >= 3
                             /\ MaxJobs \in Nat
                             /\ NoThread \notin Getters
                             /\ Scavenger \in Getters

iejqNullJob == 0
iejqJobSeperator == MaxJobs + 1   \* never the address of a function

Slots == 0..(JobMax - 1)
Jobs == 1..MaxJobs

VARIABLES func,       \* slot -> the function of its job, or one of the two marks
          args,       \* slot -> the arguments of its job
          putPos, getPos,
          putter,     \* step of iejq_addJob the putter is at
          offered,    \* number of jobs offered: job n is the nth
          refused,    \* jobs whose iejq_addJob gave ISMRC_DestinationFull
          getLock,    \* who holds the get lock
          getter,     \* step of iejq_getJob the holder is at, and its locals
          taken       \* jobs got, as <<function, arguments>>, oldest first

vars == <<func, args, putPos, getPos, putter, offered, refused,
          getLock, getter, taken>>

putVars == <<putPos, putter, offered, refused>>
getVars == <<getPos, getLock, getter, taken>>

\* iejq_createJobQueue: slot 0 is the separator, both positions are 1.
Init == /\ func = [s \in Slots |-> IF s = 0 THEN iejqJobSeperator ELSE iejqNullJob]
        /\ args = [s \in Slots |-> 0]
        /\ putPos = 1 /\ getPos = 1
        /\ putter = "idle" /\ offered = 0 /\ refused = {}
        /\ getLock = NoThread
        /\ getter = [at |-> "idle", func |-> 0, args |-> 0, pos |-> 0, called |-> FALSE]
        /\ taken = <<>>

\* Both ends step round the ring.
NextPos(pos) == IF pos < JobMax - 1 THEN pos + 1 ELSE 0
PrevPos(pos) == IF pos = 0 THEN JobMax - 1 ELSE pos - 1

(* ------------------------------ iejq_addJob ------------------------------ *)

\* Fault: the separator does not stop the putter.
AddJobOverSeparator ==
    /\ putter = "idle"
    /\ offered < MaxJobs
    /\ offered' = offered + 1
    /\ IF func[putPos] \in {iejqNullJob, iejqJobSeperator}
       THEN putter' = "args" /\ UNCHANGED refused
       ELSE refused' = refused \cup {offered'} /\ UNCHANGED putter
    /\ UNCHANGED <<func, args, putPos, getVars>>

AddJob ==
    /\ putter = "idle"
    /\ offered < MaxJobs
    /\ offered' = offered + 1
    /\ IF func[putPos] = iejqNullJob
       THEN putter' = "args" /\ UNCHANGED refused
       ELSE refused' = refused \cup {offered'} /\ UNCHANGED putter
    /\ UNCHANGED <<func, args, putPos, getVars>>

\* The arguments, a write barrier, the function that announces them.
WriteJob ==
    /\ \/ /\ putter = "args"
          /\ args' = [args EXCEPT ![putPos] = offered]
          /\ putter' = "func"
          /\ UNCHANGED func
       \/ /\ putter = "func"
          /\ func' = [func EXCEPT ![putPos] = offered]
          /\ putter' = "pos"
          /\ UNCHANGED args
    /\ UNCHANGED <<putPos, offered, refused, getVars>>

AdvancePutPos == /\ putter = "pos"
                 /\ putPos' = NextPos(putPos)
                 /\ putter' = "idle"
                 /\ UNCHANGED <<func, args, offered, refused, getVars>>

(* ------------------------------ iejq_getJob ------------------------------ *)

\* iejq_takeGetLock, or an iejq_tryTakeGetLock that succeeds.
TakeGetLock(g) == /\ getLock = NoThread
                  /\ getLock' = g
                  /\ UNCHANGED <<func, args, putVars, getPos, getter, taken>>

\* ISMRC_NoMsgAvail, or the caller has done as many jobs as it wants to, one at
\* least (ietj_processJobQueue_internal).
ReleaseGetLock(g) == /\ getLock = g
                     /\ getter.at = "idle"
                     /\ func[getPos] = iejqNullJob \/ getter.called
                     /\ getLock' = NoThread
                     /\ getter' = [getter EXCEPT !.called = FALSE]
                     /\ UNCHANGED <<func, args, putVars, getPos, taken>>

\* Fault: only the owner of the queue takes jobs off it.
GetJobOwner(g) == /\ getLock = g
                  /\ g # Scavenger
                  /\ getter.at = "idle"
                  /\ func[getPos] # iejqNullJob
                  /\ getter' = [getter EXCEPT !.at = "args", !.func = func[getPos],
                                              !.pos = getPos]
                  /\ UNCHANGED <<func, args, putVars, getPos, getLock, taken>>

GetJob(g) == /\ getLock = g
             /\ getter.at = "idle"
             /\ func[getPos] # iejqNullJob
             /\ getter' = [getter EXCEPT !.at = "args", !.func = func[getPos],
                                         !.pos = getPos]
             /\ UNCHANGED <<func, args, putVars, getPos, getLock, taken>>

ReadArgs(g) == /\ getLock = g
               /\ getter.at = "args"
               /\ getter' = [getter EXCEPT !.at = "pos", !.args = args[getter.pos]]
               /\ UNCHANGED <<func, args, putVars, getPos, getLock, taken>>

AdvanceGetPos(g) == /\ getLock = g
                    /\ getter.at = "pos"
                    /\ getPos' = NextPos(getter.pos)
                    /\ getter' = [getter EXCEPT !.at = "mark"]
                    /\ UNCHANGED <<func, args, putVars, getLock, taken>>

\* Fault: the slot is given back at once, with no separator left behind.
MarkNull(g) == /\ getLock = g
               /\ getter.at = "mark"
               /\ func' = [func EXCEPT ![getter.pos] = iejqNullJob]
               /\ getter' = [getter EXCEPT !.at = "clear"]
               /\ UNCHANGED <<args, putVars, getPos, getLock, taken>>

MarkSeparator(g) == /\ getLock = g
                    /\ getter.at = "mark"
                    /\ func' = [func EXCEPT ![getter.pos] = iejqJobSeperator]
                    /\ getter' = [getter EXCEPT !.at = "clear"]
                    /\ UNCHANGED <<args, putVars, getPos, getLock, taken>>

\* The old separator is freed; the caller gets the job and calls it.
ClearSeparator(g) == /\ getLock = g
                     /\ getter.at = "clear"
                     /\ func' = [func EXCEPT ![PrevPos(getter.pos)] = iejqNullJob]
                     /\ taken' = Append(taken, <<getter.func, getter.args>>)
                     /\ getter' = [getter EXCEPT !.at = "idle", !.called = TRUE]
                     /\ UNCHANGED <<args, putVars, getPos, getLock>>

Put == AddJob \/ WriteJob \/ AdvancePutPos
Got(g) == GetJob(g) \/ ReadArgs(g) \/ AdvanceGetPos(g) \/ MarkSeparator(g)
              \/ ClearSeparator(g)
Get(g) == TakeGetLock(g) \/ ReleaseGetLock(g) \/ Got(g)

Next == Put \/ \E g \in Getters : Get(g)

Spec == Init /\ [][Next]_vars

\* A putter finishes its add, whoever holds the get lock goes on until the queue
\* is empty or its batch is done, and the scavenger comes back for ever.
FairSpec == /\ Spec
            /\ WF_vars(WriteJob \/ AdvancePutPos)
            /\ \A g \in Getters : WF_vars(Got(g) \/ ReleaseGetLock(g))
            /\ WF_vars(TakeGetLock(Scavenger))

(* ------------------------------- Properties ------------------------------ *)

TypeOK == /\ func \in [Slots -> 0..(MaxJobs + 1)]
          /\ args \in [Slots -> 0..MaxJobs]
          /\ putPos \in Slots /\ getPos \in Slots
          /\ putter \in {"idle", "args", "func", "pos"}
          /\ offered \in 0..MaxJobs /\ refused \subseteq Jobs
          /\ getLock \in Getters \cup {NoThread}
          /\ getter \in [at : {"idle", "args", "pos", "mark", "clear"},
                         func : 0..(MaxJobs + 1), args : 0..MaxJobs, pos : Slots,
                         called : BOOLEAN]
          /\ taken \in Seq((0..(MaxJobs + 1)) \X (0..MaxJobs))

\* The jobs the putter has published, oldest first: those offered, less those
\* refused, less the one whose function is not yet written.
Published == {j \in 1..offered : j \notin refused
                                 /\ (putter \in {"args", "func"} => j # offered)}

\* The jobs got, the one in the getter's hands included.
Removed == {taken[n][1] : n \in 1..Len(taken)}
               \cup (IF getter.at = "idle" THEN {} ELSE {getter.func})

\* A job that a getter takes off the ring (iejq_getJob) is called with the
\* arguments it was added with: the arguments are written before the function
\* that announces them and read after it, so no call mixes two jobs.
JobsIntact == \A n \in 1..Len(taken) : taken[n][1] = taken[n][2]

\* A getter never takes the separator for a job: getPos stays ahead of it while
\* the separator moves up behind the getter, although iejq_getJob only tests
\* for the null job before it calls what it found.
SeparatorNeverCalled == getter.at # "idle" => getter.func \in Jobs

\* The putter never writes a slot that still holds a job, the separator, or a
\* job that a getter is copying (the separator "stops the putter looping around
\* and overwriting entries that haven't been got").
NoOverwrite == putter = "args" =>
                   /\ func[putPos] = iejqNullJob
                   /\ getter.at \in {"args", "pos", "mark"} => getter.pos # putPos

\* What waits in the ring: the jobs from the slot after those the getters have
\* taken up to where the putter will publish next.
Distance(from, to) == IF from <= to THEN to - from ELSE to + JobMax - from
Ahead(pos, n) == IF pos + n < JobMax THEN pos + n ELSE pos + n - JobMax

First == IF getter.at = "idle" THEN getPos ELSE NextPos(getter.pos)
Publishing == IF putter = "pos" THEN NextPos(putPos) ELSE putPos

Waiting == [n \in 1..Distance(First, Publishing) |-> func[Ahead(First, n - 1)]]

\* The functions that getters have called, and the one in the hands of a getter.
Called == [n \in DOMAIN taken |-> taken[n][1]]
Handed == IF getter.at = "idle" THEN Called ELSE Append(Called, getter.func)

Fifo == INSTANCE JobFifo WITH
            buffer <- Waiting,
            offered <- offered - (IF putter \in {"args", "func"} THEN 1 ELSE 0),
            taken <- Handed

\* The ring and its two positions, lock-free as they are, are a bounded FIFO:
\* jobs leave once, in order, and an add is refused only when the ring is full
\* but for the slot that a getter is giving back.
ImplementsFifo == Fifo!Spec

\* A job that iejq_addJob accepted is taken in the end, whether or not the owner
\* of the queue ever comes back to the engine: the scavenger comes.
AcceptedJobsRun == \A j \in Jobs : j \in Published ~> j \in Removed

\* The three things a getter and the putter of one slot rely on, with no lock in
\* common: a job comes out whole, the separator never comes out, and nothing is
\* written over.
RingSafe == TypeOK /\ JobsIntact /\ SeparatorNeverCalled /\ NoOverwrite
=============================================================================
