--------------------------- MODULE JobQueueProofs ---------------------------
(***************************************************************************)
(* Proofs about the job queue of jobQueue.c, for a ring of any size, any   *)
(* number of jobs and any set of getters: the ring is safe (RingSafe) and  *)
(* is a bounded FIFO (ImplementsFifo).                                     *)
(*                                                                         *)
(* The argument measures the ring from First, the slot after the jobs that *)
(* getters have taken.  In that direction come the waiting jobs, then the  *)
(* empty slots, then the separator, and last the slot of the job in the    *)
(* hands of a getter, if there is one (RingLayout).  Whatever the putter   *)
(* and the getter do between two accesses, the separator keeps the end     *)
(* where the putter publishes from passing the end where getters take.     *)
(***************************************************************************)
EXTENDS JobQueue, SequenceTheorems, TLAPS

Busy == IF getter.at = "idle" THEN 1 ELSE 2

\* How many jobs wait, and how far a slot is from the first of them.
Count == Distance(First, Publishing)
From(s) == Distance(First, s)

\* The ring, from First on: waiting jobs with the arguments they were added
\* with, empty slots, and the separator.
RingLayout ==
    /\ Count <= JobMax - Busy
    /\ \A s \in Slots :
         /\ From(s) < Count => func[s] \in Jobs /\ args[s] = func[s]
         /\ Count <= From(s) /\ From(s) < JobMax - Busy => func[s] = iejqNullJob
         /\ From(s) = JobMax - Busy => func[s] = iejqJobSeperator

\* What the holder of the get lock has copied is what its slot holds.
GetterInv ==
    /\ getter.at # "idle" => getter.func \in Jobs
    /\ getter.at \in {"args", "pos"} => getter.pos = getPos
    /\ getter.at \in {"mark", "clear"} => getPos = NextPos(getter.pos)
    /\ getter.at \in {"args", "pos", "mark"} =>
         func[getter.pos] = getter.func /\ args[getter.pos] = getter.func
    /\ getter.at = "clear" => func[getter.pos] = iejqJobSeperator
    /\ getter.at \in {"pos", "mark", "clear"} => getter.args = getter.func

\* The putter has found its slot empty, and then written the arguments.
PutterInv ==
    /\ putter \in {"args", "func"} => offered \in Jobs /\ func[putPos] = iejqNullJob
    /\ putter = "func" => args[putPos] = offered

RingInv == TypeOK /\ RingLayout /\ GetterInv /\ PutterInv /\ JobsIntact

-----------------------------------------------------------------------------
(* Walking round the ring.                                                  *)

\* Both ends stay on the ring when they step (jobQueue.c, NextPos).
LEMMA PosTypes ==
    ASSUME NEW p \in Slots
    PROVE  /\ NextPos(p) \in Slots /\ PrevPos(p) \in Slots
           /\ PrevPos(NextPos(p)) = p /\ NextPos(p) # p /\ PrevPos(p) # p
           /\ PrevPos(p) # NextPos(p)
BY JobQueueAssumption DEF NextPos, PrevPos, Slots

\* A distance tells the slots apart.
LEMMA DistanceTypes ==
    ASSUME NEW a \in Slots, NEW b \in Slots, NEW c \in Slots
    PROVE  /\ Distance(a, b) \in 0..(JobMax - 1)
           /\ Distance(a, b) = 0 <=> a = b
           /\ Distance(a, b) = Distance(a, c) <=> b = c
BY JobQueueAssumption DEF Distance, Slots

\* What a step of the putter's end does to distances.
LEMMA DistanceToNext ==
    ASSUME NEW a \in Slots, NEW b \in Slots
    PROVE  Distance(a, NextPos(b)) =
               IF Distance(a, b) = JobMax - 1 THEN 0 ELSE Distance(a, b) + 1
BY JobQueueAssumption DEF Distance, NextPos, Slots

\* What a step of the getters' end does to distances.
LEMMA DistanceFromNext ==
    ASSUME NEW a \in Slots, NEW b \in Slots
    PROVE  Distance(NextPos(a), b) = IF a = b THEN JobMax - 1 ELSE Distance(a, b) - 1
BY JobQueueAssumption DEF Distance, NextPos, Slots

\* The two slots behind the getters' end.
LEMMA DistanceBehind ==
    ASSUME NEW p \in Slots
    PROVE  /\ Distance(p, PrevPos(p)) = JobMax - 1
           /\ Distance(NextPos(p), p) = JobMax - 1
           /\ Distance(NextPos(p), PrevPos(p)) = JobMax - 2
BY JobQueueAssumption DEF Distance, NextPos, PrevPos, Slots

\* Ahead undoes Distance, and steps with the getters' end.
LEMMA AheadTypes ==
    ASSUME NEW a \in Slots, NEW n \in 0..(JobMax - 1)
    PROVE  /\ Ahead(a, n) \in Slots
           /\ Distance(a, Ahead(a, n)) = n
           /\ Ahead(a, 0) = a
           /\ n + 1 < JobMax => Ahead(NextPos(a), n) = Ahead(a, n + 1)
BY JobQueueAssumption DEF Distance, Ahead, NextPos, Slots

LEMMA AheadOfDistance ==
    ASSUME NEW a \in Slots, NEW b \in Slots
    PROVE  Ahead(a, Distance(a, b)) = b
BY JobQueueAssumption DEF Distance, Ahead, Slots

-----------------------------------------------------------------------------
(* The invariant is inductive.                                              *)

\* iejq_createJobQueue makes an empty ring.
LEMMA RingInit == Init => RingInv
<1> SUFFICES ASSUME Init PROVE RingInv
  OBVIOUS
<1>1. TypeOK
  BY JobQueueAssumption DEF Init, TypeOK, Slots, Jobs, iejqNullJob, iejqJobSeperator
<1>2. First = 1 /\ Publishing = 1 /\ Busy = 1 /\ 1 \in Slots
  BY JobQueueAssumption DEF Init, First, Publishing, Busy, Slots
<1>3. Count = 0 /\ 0 <= JobMax - 1
  BY <1>2, DistanceTypes, JobQueueAssumption DEF Count
<1>4. \A s \in Slots : /\ From(s) \in 0..(JobMax - 1)
                       /\ From(s) = JobMax - 1 <=> s = 0
  BY <1>2, JobQueueAssumption DEF From, Distance, Slots
<1>5. RingLayout
  BY <1>2, <1>3, <1>4, JobQueueAssumption DEF Init, RingLayout
<1> QED
  BY <1>1, <1>5 DEF Init, RingInv, GetterInv, PutterInv, JobsIntact

\* The positions that the layout is measured from are slots.
LEMMA EndsOnRing ==
    ASSUME TypeOK
    PROVE  /\ First \in Slots /\ Publishing \in Slots
           /\ Count \in 0..(JobMax - 1)
           /\ \A s \in Slots : From(s) \in 0..(JobMax - 1)
<1>1. First \in Slots /\ Publishing \in Slots
  BY PosTypes DEF TypeOK, First, Publishing
<1> QED
  BY <1>1, DistanceTypes DEF Count, From

\* When neither end moves, only the slots that are written matter.
LEMMA LayoutUnmoved ==
    ASSUME RingLayout, First' = First, Publishing' = Publishing, Busy' = Busy,
           \A s \in Slots : func'[s] = func[s],
           \A s \in Slots : func[s] # iejqNullJob => args'[s] = args[s]
    PROVE  RingLayout'
<1>1. Count' = Count /\ \A s \in Slots : From(s)' = From(s)
  BY DEF Count, From, Distance
<1>2. iejqNullJob \notin Jobs
  BY DEF iejqNullJob, Jobs
<1> QED
  BY <1>1, <1>2 DEF RingLayout

LEMMA AddJobKeepsRing == RingInv /\ AddJob => RingInv'
<1> SUFFICES ASSUME RingInv, AddJob PROVE RingInv'
  OBVIOUS
<1> USE DEF RingInv
<1>1. TypeOK'
  <2>1. offered' \in Jobs /\ offered' \in 0..MaxJobs
    BY JobQueueAssumption DEF AddJob, TypeOK, Jobs
  <2>2. refused' \subseteq Jobs /\ putter' \in {"idle", "args", "func", "pos"}
    BY <2>1 DEF AddJob, TypeOK
  <2> QED
    BY <2>1, <2>2 DEF AddJob, TypeOK, getVars
<1>2. First' = First /\ Publishing' = Publishing /\ Busy' = Busy
  BY DEF AddJob, First, Publishing, Busy, getVars
<1>3. RingLayout'
  BY <1>2, LayoutUnmoved DEF AddJob
<1>4. GetterInv'
  BY DEF AddJob, GetterInv, getVars
<1>5. PutterInv'
  BY JobQueueAssumption DEF AddJob, PutterInv, TypeOK, Jobs
<1>6. JobsIntact'
  BY DEF AddJob, JobsIntact, getVars
<1> QED
  BY <1>1, <1>3, <1>4, <1>5, <1>6

\* The arguments go into an empty slot; then the function fills the first of
\* the empty slots.
LEMMA WriteJobKeepsRing == RingInv /\ WriteJob => RingInv'
<1> SUFFICES ASSUME RingInv, WriteJob PROVE RingInv'
  OBVIOUS
<1> USE DEF RingInv
<1>1. TypeOK'
  <2>1. offered \in 0..MaxJobs /\ offered \in 0..(MaxJobs + 1)
    BY JobQueueAssumption DEF TypeOK
  <2>2. /\ func \in [Slots -> 0..(MaxJobs + 1)] /\ args \in [Slots -> 0..MaxJobs]
        /\ \/ UNCHANGED func /\ args' = [args EXCEPT ![putPos] = offered]
           \/ UNCHANGED args /\ func' = [func EXCEPT ![putPos] = offered]
    BY DEF WriteJob, TypeOK
  <2>3. func' \in [Slots -> 0..(MaxJobs + 1)] /\ args' \in [Slots -> 0..MaxJobs]
    BY <2>1, <2>2
  <2>4. putter' \in {"idle", "args", "func", "pos"}
    BY DEF WriteJob
  <2> QED
    BY <2>2, <2>3, <2>4 DEF WriteJob, TypeOK, getVars
<1>2. First' = First /\ Busy' = Busy /\ getter' = getter /\ putPos' = putPos
  BY DEF WriteJob, First, Busy, getVars
<1>3. func[putPos] = iejqNullJob /\ offered \in Jobs
  BY DEF WriteJob, PutterInv
<1>4. putPos \in Slots /\ Publishing = putPos
  BY DEF WriteJob, TypeOK, Publishing
<1>5. iejqNullJob \notin Jobs /\ iejqJobSeperator \notin Jobs /\ iejqNullJob # iejqJobSeperator
  BY JobQueueAssumption DEF iejqNullJob, iejqJobSeperator, Jobs
<1>6. getter.at \in {"args", "pos", "mark", "clear"} => getter.pos # putPos
  BY <1>3, <1>5 DEF GetterInv
<1>7. GetterInv'
  BY <1>2, <1>4, <1>6 DEF WriteJob, GetterInv, TypeOK, getVars
<1>8. JobsIntact'
  BY DEF WriteJob, JobsIntact, getVars
<1>9. CASE putter = "args"
  <2>1. Publishing' = Publishing /\ func' = func
    BY <1>9 DEF WriteJob, Publishing
  <2>2. RingLayout'
    BY <1>2, <1>3, <1>9, <2>1, LayoutUnmoved DEF WriteJob, TypeOK
  <2>3. PutterInv'
    BY <1>2, <1>3, <1>4, <1>9, <2>1 DEF WriteJob, PutterInv, TypeOK
  <2> QED
    BY <1>1, <1>7, <1>8, <2>2, <2>3
<1>10. CASE putter = "func"
  <2>1. /\ func' = [func EXCEPT ![putPos] = offered] /\ args' = args
        /\ putter' = "pos"
    BY <1>10 DEF WriteJob
  <2>2. Publishing' = NextPos(putPos) /\ args[putPos] = offered
    BY <1>2, <1>10, <2>1 DEF Publishing, PutterInv
  <2>3. First \in Slots /\ Count = From(putPos) /\ Count \in 0..(JobMax - 1)
    BY <1>4, EndsOnRing DEF Count, From
  <2>4. Count < JobMax - Busy
    BY <1>3, <1>4, <1>5, <2>3, JobQueueAssumption DEF RingLayout, Busy
  <2>5. Count' = Count + 1 /\ \A s \in Slots : From(s)' = From(s)
    BY <1>2, <1>4, <2>2, <2>3, <2>4, DistanceToNext, JobQueueAssumption DEF Count, From, Busy
  <2>6. \A s \in Slots : From(s) \in Nat /\ (From(s) = Count => s = putPos)
    BY <1>4, <2>3, EndsOnRing, DistanceTypes DEF From
  <2>7. \A s \in Slots : s # putPos => func'[s] = func[s] /\ From(s) # Count
    BY <2>1, <2>6 DEF TypeOK
  <2>8. func'[putPos] = offered
    BY <1>4, <2>1 DEF TypeOK
  <2>9. RingLayout'
    BY <1>2, <1>3, <2>1, <2>2, <2>3, <2>4, <2>5, <2>6, <2>7, <2>8, JobQueueAssumption
    DEF RingLayout, Busy
  <2>10. PutterInv'
    BY <2>1 DEF PutterInv
  <2> QED
    BY <1>1, <1>7, <1>8, <2>9, <2>10
<1> QED
  BY <1>9, <1>10 DEF WriteJob

\* The putter's position catches up with what it has published.
LEMMA AdvancePutPosKeepsRing == RingInv /\ AdvancePutPos => RingInv'
<1> SUFFICES ASSUME RingInv, AdvancePutPos PROVE RingInv'
  OBVIOUS
<1> USE DEF RingInv
<1>1. TypeOK'
  BY PosTypes DEF AdvancePutPos, TypeOK, getVars
<1>2. First' = First /\ Publishing' = Publishing /\ Busy' = Busy
  BY DEF AdvancePutPos, First, Publishing, Busy, getVars
<1>3. RingLayout'
  BY <1>2, LayoutUnmoved DEF AdvancePutPos
<1> QED
  BY <1>1, <1>3 DEF AdvancePutPos, GetterInv, PutterInv, JobsIntact, getVars

\* Taking the get lock, and giving it up, leave the ring alone.
LEMMA GetLockKeepsRing ==
    ASSUME NEW g \in Getters
    PROVE  RingInv /\ (TakeGetLock(g) \/ ReleaseGetLock(g)) => RingInv'
<1> SUFFICES ASSUME RingInv, TakeGetLock(g) \/ ReleaseGetLock(g) PROVE RingInv'
  OBVIOUS
<1> USE DEF RingInv
<1>1. /\ UNCHANGED <<func, args, putVars, getPos, taken>>
      /\ getLock' \in Getters \cup {NoThread}
  BY DEF TakeGetLock, ReleaseGetLock
<1>2. /\ getter' \in [at : {"idle", "args", "pos", "mark", "clear"},
                      func : 0..(MaxJobs + 1), args : 0..MaxJobs, pos : Slots,
                      called : BOOLEAN]
      /\ getter'.at = getter.at /\ getter'.func = getter.func
      /\ getter'.args = getter.args /\ getter'.pos = getter.pos
  BY DEF TakeGetLock, ReleaseGetLock, TypeOK
<1>3. TypeOK'
  BY <1>1, <1>2 DEF TypeOK, putVars
<1>4. First' = First /\ Publishing' = Publishing /\ Busy' = Busy
  BY <1>1, <1>2 DEF First, Publishing, Busy, putVars
<1>5. RingLayout'
  BY <1>1, <1>4, LayoutUnmoved
<1> QED
  BY <1>1, <1>2, <1>3, <1>5 DEF GetterInv, PutterInv, JobsIntact, putVars

\* A getter finds the first waiting job: no empty slot, and not the separator,
\* is first in the ring while a job waits.
LEMMA FirstJobFound ==
    ASSUME RingInv, getter.at = "idle", func[getPos] # iejqNullJob
    PROVE  Count > 0 /\ First = getPos /\ func[getPos] \in Jobs /\ args[getPos] = func[getPos]
<1>1. getPos \in Slots /\ First = getPos /\ Busy = 1
  BY DEF RingInv, TypeOK, First, Busy
<1>2. From(getPos) = 0 /\ Count \in Nat
  BY <1>1, DistanceTypes, EndsOnRing DEF From, RingInv
<1>3. Count > 0
  BY <1>1, <1>2, JobQueueAssumption DEF RingInv, RingLayout
<1> QED
  BY <1>1, <1>2, <1>3 DEF RingInv, RingLayout

LEMMA GetJobKeepsRing ==
    ASSUME NEW g \in Getters
    PROVE  RingInv /\ GetJob(g) => RingInv'
<1> SUFFICES ASSUME RingInv, GetJob(g) PROVE RingInv'
  OBVIOUS
<1> USE DEF RingInv
<1>1. /\ UNCHANGED <<func, args, putVars, getPos, getLock, taken>>
      /\ getter.at = "idle" /\ getPos \in Slots
  BY DEF GetJob, TypeOK
<1>2. Count > 0 /\ First = getPos /\ func[getPos] \in Jobs /\ args[getPos] = func[getPos]
  BY <1>1, FirstJobFound DEF GetJob
<1>3. /\ getter' \in [at : {"idle", "args", "pos", "mark", "clear"},
                      func : 0..(MaxJobs + 1), args : 0..MaxJobs, pos : Slots,
                      called : BOOLEAN]
      /\ getter'.at = "args" /\ getter'.func = func[getPos] /\ getter'.pos = getPos
  BY <1>1 DEF GetJob, TypeOK
<1>4. TypeOK'
  BY <1>1, <1>3 DEF TypeOK, putVars
<1>5. First' = NextPos(getPos) /\ Publishing' = Publishing /\ Busy = 1 /\ Busy' = 2
  BY <1>1, <1>3 DEF First, Publishing, Busy, putVars
<1>6. Count \in Nat /\ \A s \in Slots : From(s) \in Nat
  BY EndsOnRing
<1>7. Count' = Count - 1
  BY <1>1, <1>2, <1>5, EndsOnRing, DistanceFromNext, DistanceTypes DEF Count
<1>8. \A s \in Slots : From(s)' = IF s = getPos THEN JobMax - 1 ELSE From(s) - 1
  BY <1>1, <1>2, <1>5, DistanceFromNext DEF From
<1>9. RingLayout'
  BY <1>1, <1>2, <1>5, <1>6, <1>7, <1>8, JobQueueAssumption DEF RingLayout
<1>10. GetterInv'
  BY <1>1, <1>2, <1>3 DEF GetterInv
<1> QED
  BY <1>1, <1>4, <1>9, <1>10 DEF PutterInv, JobsIntact, putVars

LEMMA ReadArgsKeepsRing ==
    ASSUME NEW g \in Getters
    PROVE  RingInv /\ ReadArgs(g) => RingInv'
<1> SUFFICES ASSUME RingInv, ReadArgs(g) PROVE RingInv'
  OBVIOUS
<1> USE DEF RingInv
<1>1. /\ UNCHANGED <<func, args, putVars, getPos, getLock, taken>>
      /\ getter.at = "args" /\ getter.pos \in Slots
  BY DEF ReadArgs, TypeOK
<1>2. /\ getter' \in [at : {"idle", "args", "pos", "mark", "clear"},
                      func : 0..(MaxJobs + 1), args : 0..MaxJobs, pos : Slots,
                      called : BOOLEAN]
      /\ getter'.at = "pos" /\ getter'.func = getter.func
      /\ getter'.args = args[getter.pos] /\ getter'.pos = getter.pos
  BY <1>1 DEF ReadArgs, TypeOK
<1>3. TypeOK'
  BY <1>1, <1>2 DEF TypeOK, putVars
<1>4. First' = First /\ Publishing' = Publishing /\ Busy' = Busy
  BY <1>1, <1>2 DEF First, Publishing, Busy, putVars
<1>5. RingLayout'
  BY <1>1, <1>4, LayoutUnmoved
<1>6. GetterInv'
  BY <1>1, <1>2 DEF GetterInv
<1> QED
  BY <1>1, <1>3, <1>5, <1>6 DEF PutterInv, JobsIntact, putVars

LEMMA AdvanceGetPosKeepsRing ==
    ASSUME NEW g \in Getters
    PROVE  RingInv /\ AdvanceGetPos(g) => RingInv'
<1> SUFFICES ASSUME RingInv, AdvanceGetPos(g) PROVE RingInv'
  OBVIOUS
<1> USE DEF RingInv
<1>1. /\ UNCHANGED <<func, args, putVars, getLock, taken>>
      /\ getter.at = "pos" /\ getter.pos \in Slots /\ getPos' = NextPos(getter.pos)
  BY DEF AdvanceGetPos, TypeOK
<1>2. /\ getter' \in [at : {"idle", "args", "pos", "mark", "clear"},
                      func : 0..(MaxJobs + 1), args : 0..MaxJobs, pos : Slots,
                      called : BOOLEAN]
      /\ getter'.at = "mark" /\ getter'.func = getter.func
      /\ getter'.args = getter.args /\ getter'.pos = getter.pos
  BY <1>1 DEF AdvanceGetPos, TypeOK
<1>3. TypeOK'
  BY <1>1, <1>2, PosTypes DEF TypeOK, putVars
<1>4. First' = First /\ Publishing' = Publishing /\ Busy' = Busy
  BY <1>1, <1>2 DEF First, Publishing, Busy, putVars
<1>5. RingLayout'
  BY <1>1, <1>4, LayoutUnmoved
<1>6. GetterInv'
  BY <1>1, <1>2 DEF GetterInv
<1> QED
  BY <1>1, <1>3, <1>5, <1>6 DEF PutterInv, JobsIntact, putVars

\* The slot of the job in hand becomes the new separator; it lies behind the
\* old one, out of the layout.
LEMMA MarkSeparatorKeepsRing ==
    ASSUME NEW g \in Getters
    PROVE  RingInv /\ MarkSeparator(g) => RingInv'
<1> SUFFICES ASSUME RingInv, MarkSeparator(g) PROVE RingInv'
  OBVIOUS
<1> USE DEF RingInv
<1>1. /\ UNCHANGED <<args, putVars, getPos, getLock, taken>>
      /\ getter.at = "mark" /\ getter.pos \in Slots
      /\ func' = [func EXCEPT ![getter.pos] = iejqJobSeperator]
  BY DEF MarkSeparator, TypeOK
<1>2. /\ getter' \in [at : {"idle", "args", "pos", "mark", "clear"},
                      func : 0..(MaxJobs + 1), args : 0..MaxJobs, pos : Slots,
                      called : BOOLEAN]
      /\ getter'.at = "clear" /\ getter'.func = getter.func
      /\ getter'.args = getter.args /\ getter'.pos = getter.pos
  BY <1>1 DEF MarkSeparator, TypeOK
<1>3. func' \in [Slots -> 0..(MaxJobs + 1)]
  BY <1>1, JobQueueAssumption DEF TypeOK, iejqJobSeperator
<1>4. TypeOK'
  BY <1>1, <1>2, <1>3 DEF TypeOK, putVars
<1>5. /\ First = NextPos(getter.pos) /\ First' = First
      /\ Publishing' = Publishing /\ Busy = 2 /\ Busy' = 2
  BY <1>1, <1>2 DEF First, Publishing, Busy, putVars
<1>6. Count' = Count /\ \A s \in Slots : From(s)' = From(s)
  BY <1>5 DEF Count, From
<1>7. From(getter.pos) = JobMax - 1
  BY <1>1, <1>5, DistanceBehind DEF From
<1>8. \A s \in Slots : From(s) # JobMax - 1 => func'[s] = func[s]
  BY <1>1, <1>7 DEF TypeOK
<1>9. Count \in Nat /\ \A s \in Slots : From(s) \in Nat
  BY EndsOnRing
<1>10. RingLayout'
  BY <1>1, <1>5, <1>6, <1>8, <1>9, JobQueueAssumption DEF RingLayout
<1>11. getter.func \in Jobs /\ func[getter.pos] = getter.func
  BY <1>1 DEF GetterInv
<1>12. PutterInv'
  BY <1>1, <1>11, JobQueueAssumption DEF PutterInv, putVars, TypeOK, Jobs, iejqNullJob
<1>13. GetterInv'
  BY <1>1, <1>2 DEF GetterInv, TypeOK
<1> QED
  BY <1>1, <1>4, <1>10, <1>12, <1>13 DEF JobsIntact

\* The old separator joins the empty slots, and the new one takes its place.
LEMMA ClearSeparatorKeepsRing ==
    ASSUME NEW g \in Getters
    PROVE  RingInv /\ ClearSeparator(g) => RingInv'
<1> SUFFICES ASSUME RingInv, ClearSeparator(g) PROVE RingInv'
  OBVIOUS
<1> USE DEF RingInv
<1> DEFINE old == PrevPos(getter.pos)
<1>1. /\ UNCHANGED <<args, putVars, getPos, getLock>>
      /\ getter.at = "clear" /\ getter.pos \in Slots /\ old \in Slots
      /\ func' = [func EXCEPT ![old] = iejqNullJob]
      /\ taken' = Append(taken, <<getter.func, getter.args>>)
  BY PosTypes DEF ClearSeparator, TypeOK
<1>2. /\ getter' \in [at : {"idle", "args", "pos", "mark", "clear"},
                      func : 0..(MaxJobs + 1), args : 0..MaxJobs, pos : Slots,
                      called : BOOLEAN]
      /\ getter'.at = "idle"
  BY <1>1 DEF ClearSeparator, TypeOK
<1>3. func' \in [Slots -> 0..(MaxJobs + 1)]
  BY <1>1, JobQueueAssumption DEF TypeOK, iejqNullJob
<1>4. <<getter.func, getter.args>> \in (0..(MaxJobs + 1)) \X (0..MaxJobs)
  BY DEF TypeOK
<1>5. taken' \in Seq((0..(MaxJobs + 1)) \X (0..MaxJobs))
  BY <1>1, <1>4 DEF TypeOK
<1>6. TypeOK'
  BY <1>1, <1>2, <1>3, <1>5 DEF TypeOK, putVars
<1>7. /\ First = NextPos(getter.pos) /\ First' = First
      /\ Publishing' = Publishing /\ Busy = 2 /\ Busy' = 1
  BY <1>1, <1>2 DEF First, Publishing, Busy, putVars, GetterInv
<1>8. Count' = Count /\ \A s \in Slots : From(s)' = From(s)
  BY <1>7 DEF Count, From
<1>9. From(getter.pos) = JobMax - 1 /\ From(old) = JobMax - 2
  BY <1>1, <1>7, DistanceBehind DEF From
<1>10. \A s \in Slots : /\ From(s) = JobMax - 1 => s = getter.pos
                        /\ From(s) = JobMax - 2 => s = old
  <2>1. First \in Slots
    BY EndsOnRing
  <2>2. \A s, u \in Slots : From(s) = From(u) => s = u
    BY <2>1, DistanceTypes DEF From
  <2> QED
    BY <1>1, <1>9, <2>2
<1>11. /\ Count \in Nat /\ \A s \in Slots : From(s) \in 0..(JobMax - 1)
       /\ old # getter.pos
  BY <1>1, EndsOnRing, PosTypes
<1>12. /\ func'[old] = iejqNullJob /\ func'[getter.pos] = iejqJobSeperator
       /\ \A s \in Slots : s # old => func'[s] = func[s]
  BY <1>1, <1>11 DEF TypeOK, GetterInv
<1>13. RingLayout'
  BY <1>1, <1>7, <1>8, <1>9, <1>10, <1>11, <1>12, JobQueueAssumption DEF RingLayout
<1>14. GetterInv'
  BY <1>2 DEF GetterInv
<1>15. PutterInv'
  BY <1>1, <1>12 DEF PutterInv, putVars, TypeOK
<1>16. JobsIntact'
  <2>1. getter.func = getter.args
    BY <1>1 DEF GetterInv
  <2>2. /\ Len(taken) \in Nat /\ Len(taken') = Len(taken) + 1
        /\ taken'[Len(taken) + 1] = <<getter.func, getter.args>>
        /\ \A n \in 1..Len(taken) : taken'[n] = taken[n]
    BY <1>1, <1>4 DEF TypeOK
  <2> QED
    BY <2>1, <2>2 DEF JobsIntact
<1> QED
  BY <1>6, <1>13, <1>14, <1>15, <1>16

\* No step of the putter or of a getter breaks the layout of the ring.
LEMMA RingStep == RingInv /\ [Next]_vars => RingInv'
<1> SUFFICES ASSUME RingInv, [Next]_vars PROVE RingInv'
  OBVIOUS
<1>1. CASE Put
  BY <1>1, AddJobKeepsRing, WriteJobKeepsRing, AdvancePutPosKeepsRing DEF Put
<1>2. ASSUME NEW g \in Getters, Get(g) PROVE RingInv'
  BY <1>2, GetLockKeepsRing, GetJobKeepsRing, ReadArgsKeepsRing, AdvanceGetPosKeepsRing,
     MarkSeparatorKeepsRing, ClearSeparatorKeepsRing DEF Get, Got
<1>3. CASE UNCHANGED vars
  <2>1. UNCHANGED <<First, Publishing, Busy>>
    BY <1>3 DEF vars, First, Publishing, Busy
  <2>2. RingLayout'
    BY <1>3, <2>1, LayoutUnmoved DEF vars, RingInv
  <2> QED
    BY <1>3, <2>2 DEF vars, RingInv, TypeOK, GetterInv, PutterInv, JobsIntact
<1> QED
  BY <1>1, <1>2, <1>3 DEF Next

LEMMA RingInvariant == Spec => []RingInv
BY RingInit, RingStep, PTL DEF Spec

\* A job comes out of the ring of jobQueue.c with the arguments it was added
\* with, the separator is never called, and the putter writes over nothing that
\* a getter has yet to take, whatever the size of the ring.
THEOREM RingIsSafe == Spec => []RingSafe
<1>1. RingInv => RingSafe
  <2> SUFFICES ASSUME RingInv PROVE SeparatorNeverCalled /\ NoOverwrite
    BY DEF RingInv, RingSafe
  <2>1. SeparatorNeverCalled
    BY DEF RingInv, GetterInv, SeparatorNeverCalled
  <2>2. iejqNullJob \notin Jobs
    BY DEF iejqNullJob, Jobs
  <2>3. NoOverwrite
    BY <2>2 DEF RingInv, GetterInv, PutterInv, NoOverwrite
  <2> QED
    BY <2>1, <2>3
<1> QED
  BY <1>1, RingInvariant, PTL

-----------------------------------------------------------------------------
(* The ring is a FIFO: every step is a step of JobFifo or none.             *)

\* n slots of the ring from a on, as a sequence.
Segment(f, a, n) == [i \in 1..n |-> f[Ahead(a, i - 1)]]

LEMMA SegmentTypes ==
    ASSUME NEW S, NEW f \in [Slots -> S], NEW a \in Slots, NEW n \in 0..(JobMax - 1)
    PROVE  /\ Segment(f, a, n) \in Seq(S) /\ Len(Segment(f, a, n)) = n
           /\ \A i \in 1..n : Segment(f, a, n)[i] = f[Ahead(a, i - 1)]
<1>1. n \in Nat /\ \A i \in 1..n : f[Ahead(a, i - 1)] \in S
  <2> SUFFICES ASSUME NEW i \in 1..n PROVE f[Ahead(a, i - 1)] \in S
    BY JobQueueAssumption
  <2>1. i - 1 \in 0..(JobMax - 1)
    BY JobQueueAssumption
  <2> QED
    BY <2>1, AheadTypes
<1>2. Segment(f, a, n) \in [1..n -> S]
  BY <1>1 DEF Segment
<1> QED
  BY <1>1, <1>2 DEF Segment

\* A job published behind the others is appended.
LEMMA SegmentGrows ==
    ASSUME NEW S, NEW f \in [Slots -> S], NEW a \in Slots,
           NEW n \in Nat, n + 1 \in 0..(JobMax - 1)
    PROVE  Segment(f, a, n + 1) = Append(Segment(f, a, n), f[Ahead(a, n)])
<1>1. n \in 0..(JobMax - 1)
  BY JobQueueAssumption
<1>2. f[Ahead(a, n)] \in S
  BY <1>1, AheadTypes
<1> DEFINE s == Segment(f, a, n)
           t == Segment(f, a, n + 1)
           u == Append(s, f[Ahead(a, n)])
<1>3. s \in Seq(S) /\ Len(s) = n /\ \A i \in 1..n : s[i] = f[Ahead(a, i - 1)]
  BY <1>1, SegmentTypes, ZenonT(60)
<1>4. t \in Seq(S) /\ Len(t) = n + 1 /\ \A i \in 1..(n + 1) : t[i] = f[Ahead(a, i - 1)]
  BY SegmentTypes, ZenonT(60)
<1> HIDE DEF s, t
<1>5. u \in Seq(S) /\ Len(u) = n + 1
  BY <1>2, <1>3
<1>6. \A i \in 1..(n + 1) : u[i] = IF i = n + 1 THEN f[Ahead(a, n)] ELSE s[i]
  BY <1>2, <1>3
<1>7. \A i \in 1..(n + 1) : u[i] = t[i]
  BY <1>3, <1>4, <1>6
<1> HIDE DEF u
<1> QED
  BY <1>4, <1>5, <1>7, SeqEqual DEF s, t, u

\* A job taken is the head; the others are the tail.
LEMMA SegmentShrinks ==
    ASSUME NEW S, NEW f \in [Slots -> S], NEW a \in Slots,
           NEW n \in 1..(JobMax - 1)
    PROVE  /\ Segment(f, a, n) # <<>> /\ Head(Segment(f, a, n)) = f[a]
           /\ Segment(f, NextPos(a), n - 1) = Tail(Segment(f, a, n))
<1> DEFINE s == Segment(f, a, n)
           t == Segment(f, NextPos(a), n - 1)
<1>1. n \in 0..(JobMax - 1) /\ n - 1 \in 0..(JobMax - 1) /\ NextPos(a) \in Slots
  BY JobQueueAssumption, PosTypes
<1>2. s \in Seq(S) /\ Len(s) = n /\ \A i \in 1..n : s[i] = f[Ahead(a, i - 1)]
  BY <1>1, SegmentTypes, ZenonT(60)
<1>3. /\ t \in Seq(S) /\ Len(t) = n - 1
      /\ \A i \in 1..(n - 1) : t[i] = f[Ahead(NextPos(a), i - 1)]
  BY <1>1, SegmentTypes, ZenonT(60)
<1>4. Ahead(a, 0) = a
  BY JobQueueAssumption DEF Ahead, Slots
<1>5. \A i \in 1..(n - 1) : Ahead(NextPos(a), i - 1) = Ahead(a, (i + 1) - 1)
  BY JobQueueAssumption DEF Ahead, NextPos, Slots
<1> HIDE DEF s, t
<1>6. s # <<>> /\ Head(s) = f[a]
  BY <1>2, <1>4
<1>7. /\ Tail(s) \in Seq(S) /\ Len(Tail(s)) = n - 1
      /\ \A i \in 1..(n - 1) : Tail(s)[i] = s[i + 1]
  BY <1>2, <1>6, HeadTailProperties
<1>8. \A i \in 1..(n - 1) : t[i] = Tail(s)[i]
  <2> SUFFICES ASSUME NEW i \in 1..(n - 1) PROVE t[i] = Tail(s)[i]
    OBVIOUS
  <2>1. i + 1 \in 1..n
    OBVIOUS
  <2>2. s[i + 1] = f[Ahead(a, (i + 1) - 1)]
    BY <1>2, <2>1
  <2>3. t[i] = f[Ahead(a, (i + 1) - 1)]
    BY <1>3, <1>5
  <2> QED
    BY <1>7, <2>2, <2>3
<1>9. t = Tail(s)
  BY <1>3, <1>7, <1>8, SeqEqual
<1> QED
  BY <1>6, <1>9 DEF s, t

\* Slots beyond the segment do not matter.
LEMMA SegmentSame ==
    ASSUME NEW f, NEW h, NEW a \in Slots, NEW n \in 0..(JobMax - 1),
           \A s \in Slots : Distance(a, s) < n => f[s] = h[s]
    PROVE  Segment(f, a, n) = Segment(h, a, n)
<1> SUFFICES ASSUME NEW i \in 1..n PROVE f[Ahead(a, i - 1)] = h[Ahead(a, i - 1)]
  BY DEF Segment
<1>1. i - 1 \in 0..(JobMax - 1) /\ i - 1 < n
  BY JobQueueAssumption
<1> QED
  BY <1>1, AheadTypes

LEMMA WaitingIsSegment == Waiting = Segment(func, First, Count)
BY DEF Waiting, Segment, Count

\* The offers that the abstract queue has seen: the putter's last one is seen
\* when its function is written.
Offers == offered - (IF putter \in {"args", "func"} THEN 1 ELSE 0)

LEMMA FifoInit == Init => Fifo!Init
<1> SUFFICES ASSUME Init PROVE Fifo!Init
  OBVIOUS
<1>1. First = 1 /\ Publishing = 1 /\ 1 \in Slots
  BY JobQueueAssumption DEF Init, First, Publishing, Slots
<1>2. Distance(First, Publishing) = 0
  BY <1>1, DistanceTypes
<1>3. Waiting = <<>>
  BY <1>2 DEF Waiting
<1>4. Handed = <<>>
  BY DEF Init, Handed, Called
<1>5. putter = "idle" /\ offered = 0 /\ refused = {}
  BY DEF Init
<1>6. Offers = 0
  <2>1. (IF putter \in {"args", "func"} THEN 1 ELSE 0) = 0
    BY <1>5
  <2>2. offered - 0 = 0
    BY <1>5
  <2> QED
    BY <2>1, <2>2 DEF Offers
<1> QED
  BY <1>3, <1>4, <1>5, <1>6 DEF Fifo!Init, Offers

\* Steps that neither publish a job nor take one.
LEMMA FifoStutters ==
    ASSUME TypeOK, First' = First, Publishing' = Publishing,
           \A s \in Slots : From(s) < Count => func'[s] = func[s],
           UNCHANGED <<Handed, refused, Offers>>
    PROVE  UNCHANGED Fifo!vars
<1>1. Count' = Count
  BY DEF Count, Distance
<1>2. First \in Slots /\ Count \in 0..(JobMax - 1)
  BY EndsOnRing
<1>3. Segment(func', First, Count) = Segment(func, First, Count)
  BY <1>2, SegmentSame DEF From
<1>4. Waiting' = Segment(func', First, Count)
  BY <1>1, WaitingIsSegment DEF Waiting, Segment, Count
<1>5. Waiting' = Waiting
  BY <1>3, <1>4, WaitingIsSegment
<1> QED
  BY <1>5 DEF Fifo!vars, Offers

\* iejq_addJob goes ahead only on an empty slot, and refuses only when the ring
\* is full but for the separator and the slot of the job in hand.
LEMMA AddJobIsFifo == RingInv /\ AddJob => Fifo!Refuse \/ UNCHANGED Fifo!vars
<1> SUFFICES ASSUME RingInv, AddJob PROVE Fifo!Refuse \/ UNCHANGED Fifo!vars
  OBVIOUS
<1> USE DEF RingInv
<1>1. /\ First' = First /\ Publishing' = Publishing /\ func' = func
      /\ Handed' = Handed /\ Publishing = putPos /\ putPos \in Slots
  BY DEF AddJob, First, Publishing, Handed, Called, TypeOK, getVars
<1>2. /\ offered \in Nat /\ offered < MaxJobs /\ offered' = offered + 1
      /\ Offers = offered
  BY DEF AddJob, Offers, TypeOK
<1>3. CASE func[putPos] = iejqNullJob
  <2>1. Offers' = Offers /\ refused' = refused
    BY <1>2, <1>3 DEF AddJob, Offers
  <2> QED
    BY <1>1, <2>1, FifoStutters
<1>4. CASE func[putPos] # iejqNullJob
  <2>1. putter' = putter /\ refused' = refused \cup {offered'} /\ Offers' = offered'
    BY <1>2, <1>4 DEF AddJob, Offers
  <2>2. First \in Slots /\ Count = From(putPos) /\ Count \in 0..(JobMax - 1)
    BY <1>1, EndsOnRing DEF Count, From
  <2>3. Count >= JobMax - 2
    BY <1>1, <1>4, <2>2, JobQueueAssumption DEF RingLayout, Busy
  <2>4. Len(Waiting) = Count
    <3>1. func \in [Slots -> 0..(MaxJobs + 1)]
      BY DEF TypeOK
    <3>2. Len(Segment(func, First, Count)) = Count
      BY <2>2, <3>1, SegmentTypes
    <3> QED
      BY <3>2, WaitingIsSegment
  <2>5. Waiting' = Waiting
    BY <1>1 DEF Waiting, Distance
  <2> QED
    BY <1>1, <1>2, <2>1, <2>3, <2>4, <2>5 DEF Fifo!Refuse, Offers
<1> QED
  BY <1>3, <1>4

\* Writing the function publishes the job: the abstract queue adds it.
LEMMA WriteJobIsFifo == RingInv /\ WriteJob => Fifo!Add \/ UNCHANGED Fifo!vars
<1> SUFFICES ASSUME RingInv, WriteJob PROVE Fifo!Add \/ UNCHANGED Fifo!vars
  OBVIOUS
<1> USE DEF RingInv
<1>1. /\ First' = First /\ putPos' = putPos /\ offered' = offered /\ refused' = refused
      /\ Handed' = Handed /\ Publishing = putPos /\ putPos \in Slots
      /\ func[putPos] = iejqNullJob /\ offered \in Jobs
  BY DEF WriteJob, First, Publishing, Handed, Called, TypeOK, PutterInv, getVars
<1>2. CASE putter = "args"
  <2>1. Publishing' = Publishing /\ func' = func /\ Offers' = Offers
    BY <1>1, <1>2 DEF WriteJob, Publishing, Offers
  <2> QED
    BY <1>1, <2>1, FifoStutters
<1>3. CASE putter = "func"
  <2>1. func' = [func EXCEPT ![putPos] = offered] /\ putter' = "pos"
    BY <1>3 DEF WriteJob
  <2>2. Publishing' = NextPos(putPos) /\ Offers = offered - 1 /\ Offers' = offered
    BY <1>1, <1>3, <2>1 DEF Publishing, Offers, Jobs
  <2>3. First \in Slots /\ Count = Distance(First, putPos) /\ Count \in 0..(JobMax - 1)
    BY <1>1, EndsOnRing DEF Count
  <2>4. Count < JobMax - 1
    <3>1. iejqNullJob \notin Jobs /\ iejqNullJob # iejqJobSeperator
      BY JobQueueAssumption DEF iejqNullJob, iejqJobSeperator, Jobs
    <3> QED
      BY <1>1, <2>3, <3>1, JobQueueAssumption DEF RingLayout, Busy, From
  <2>5. Count' = Count + 1
    BY <1>1, <2>2, <2>3, <2>4, DistanceToNext, JobQueueAssumption DEF Count
  <2>6. func' \in [Slots -> 0..(MaxJobs + 1)] /\ func \in [Slots -> 0..(MaxJobs + 1)]
    BY <1>1, <2>1, JobQueueAssumption DEF TypeOK, Jobs
  <2>7. Waiting' = Segment(func', First, Count + 1)
    BY <1>1, <2>5 DEF Waiting, Segment, Count
  <2>8. Segment(func', First, Count + 1)
            = Append(Segment(func', First, Count), func'[Ahead(First, Count)])
    <3>1. Count \in Nat /\ Count + 1 \in 0..(JobMax - 1)
      BY <2>3, <2>4, JobQueueAssumption
    <3> HIDE DEF RingInv
    <3> QED
      BY <2>3, <2>6, <3>1, SegmentGrows
  <2>9. func'[Ahead(First, Count)] = offered
    BY <1>1, <2>1, <2>3, <2>6, AheadOfDistance
  <2>10. \A s \in Slots : Distance(First, s) < Count => func'[s] = func[s]
    BY <1>1, <2>1, <2>3, <2>6
  <2>11. Segment(func', First, Count) = Segment(func, First, Count)
    BY <2>3, <2>10, SegmentSame
  <2>12. Waiting' = Append(Waiting, offered)
    BY <2>7, <2>8, <2>9, <2>11, WaitingIsSegment
  <2>13. Len(Waiting) = Count
    BY <2>3, <2>6, WaitingIsSegment, SegmentTypes
  <2>14. Offers < MaxJobs /\ Offers' = Offers + 1
    BY <1>1, <2>2, JobQueueAssumption DEF Jobs
  <2> QED
    BY <1>1, <2>2, <2>4, <2>12, <2>13, <2>14 DEF Fifo!Add, Offers
<1> QED
  BY <1>2, <1>3 DEF WriteJob

LEMMA AdvancePutPosIsFifo == RingInv /\ AdvancePutPos => UNCHANGED Fifo!vars
<1> SUFFICES ASSUME RingInv, AdvancePutPos PROVE UNCHANGED Fifo!vars
  OBVIOUS
<1>1. First' = First /\ Publishing' = Publishing /\ func' = func
  BY DEF AdvancePutPos, First, Publishing, getVars
<1>2. UNCHANGED <<Handed, refused, Offers>>
  BY DEF AdvancePutPos, Handed, Called, Offers, getVars
<1> QED
  BY <1>1, <1>2, FifoStutters DEF RingInv

\* Taking the get lock or giving it up, and the steps in which a getter copies
\* the arguments and moves getPos and the separator, are not seen.
LEMMA GetLockIsFifo ==
    ASSUME NEW g \in Getters, RingInv,
           TakeGetLock(g) \/ ReleaseGetLock(g) \/ ReadArgs(g)
    PROVE  UNCHANGED Fifo!vars
<1>1. /\ UNCHANGED <<func, args, putVars, getPos, taken>>
      /\ getter'.func = getter.func /\ getter'.pos = getter.pos
      /\ getter'.at = "idle" <=> getter.at = "idle"
  BY DEF TakeGetLock, ReleaseGetLock, ReadArgs, RingInv, TypeOK
<1>2. First' = First /\ Publishing' = Publishing
  BY <1>1 DEF First, Publishing, putVars
<1>3. UNCHANGED <<Handed, refused, Offers>>
  BY <1>1 DEF Handed, Called, Offers, putVars
<1> QED
  BY <1>1, <1>2, <1>3, FifoStutters DEF RingInv

LEMMA AdvanceGetPosIsFifo ==
    ASSUME NEW g \in Getters, RingInv, AdvanceGetPos(g)
    PROVE  UNCHANGED Fifo!vars
<1>1. /\ UNCHANGED <<func, args, putVars, taken>> /\ getter.at = "pos"
      /\ getter'.func = getter.func /\ getter'.pos = getter.pos
      /\ getter'.at = "mark"
  BY DEF AdvanceGetPos, RingInv, TypeOK
<1>2. First' = First /\ Publishing' = Publishing
  BY <1>1 DEF First, Publishing, putVars
<1>3. UNCHANGED <<Handed, refused, Offers>>
  BY <1>1 DEF Handed, Called, Offers, putVars
<1> QED
  BY <1>1, <1>2, <1>3, FifoStutters DEF RingInv

LEMMA MarkSeparatorIsFifo ==
    ASSUME NEW g \in Getters, RingInv, MarkSeparator(g)
    PROVE  UNCHANGED Fifo!vars
<1>1. /\ UNCHANGED <<putVars, taken>> /\ getter.at = "mark" /\ getter.pos \in Slots
      /\ getter'.func = getter.func /\ getter'.pos = getter.pos
      /\ getter'.at = "clear" /\ func \in [Slots -> 0..(MaxJobs + 1)]
      /\ func' = [func EXCEPT ![getter.pos] = iejqJobSeperator]
  BY DEF MarkSeparator, RingInv, TypeOK
<1>2. First' = First /\ Publishing' = Publishing /\ First = NextPos(getter.pos)
  BY <1>1 DEF First, Publishing, putVars
<1>3. UNCHANGED <<Handed, refused, Offers>>
  BY <1>1 DEF Handed, Called, Offers, putVars
<1>4. From(getter.pos) = JobMax - 1 /\ Count \in 0..(JobMax - 1)
  BY <1>1, <1>2, DistanceBehind, EndsOnRing DEF From, RingInv
<1>5. \A s \in Slots : From(s) < Count => func'[s] = func[s]
  BY <1>1, <1>4, JobQueueAssumption
<1> QED
  BY <1>2, <1>3, <1>5, FifoStutters DEF RingInv

\* The job called is the one that was in hand.
LEMMA CalledGrows ==
    ASSUME NEW S, NEW t \in Seq(S), NEW e \in S
    PROVE  [n \in DOMAIN Append(t, e) |-> Append(t, e)[n][1]]
               = Append([n \in DOMAIN t |-> t[n][1]], e[1])
<1> DEFINE u == Append(t, e)
           a == [n \in DOMAIN u |-> u[n][1]]
           c == [n \in DOMAIN t |-> t[n][1]]
           T == {x[1] : x \in S}
<1>1. /\ Len(t) \in Nat /\ DOMAIN t = 1..Len(t) /\ \A n \in 1..Len(t) : t[n] \in S
      /\ u \in Seq(S) /\ Len(u) = Len(t) + 1 /\ DOMAIN u = 1..(Len(t) + 1)
      /\ \A n \in 1..Len(t) : u[n] = t[n]
      /\ u[Len(t) + 1] = e
  OBVIOUS
<1>2. \A n \in 1..(Len(t) + 1) : u[n] \in S
  BY <1>1
<1> HIDE DEF u
<1>3. c \in [1..Len(t) -> T] /\ \A n \in 1..Len(t) : c[n] = t[n][1]
  BY <1>1
<1>4. a \in [1..(Len(t) + 1) -> T] /\ \A n \in 1..(Len(t) + 1) : a[n] = u[n][1]
  BY <1>1, <1>2
<1>5. e[1] \in T
  OBVIOUS
<1> HIDE DEF a, c, T
<1>6. c \in Seq(T) /\ Len(c) = Len(t) /\ a \in Seq(T) /\ Len(a) = Len(t) + 1
  <2>1. ASSUME NEW m \in Nat, NEW f \in [1..m -> T] PROVE f \in Seq(T) /\ Len(f) = m
    OBVIOUS
  <2>2. Len(t) \in Nat /\ Len(t) + 1 \in Nat
    BY <1>1
  <2> QED
    BY <1>3, <1>4, <2>1, <2>2
<1> DEFINE b == Append(c, e[1])
<1>7. /\ b \in Seq(T) /\ Len(b) = Len(t) + 1 /\ b[Len(t) + 1] = e[1]
      /\ \A n \in 1..Len(t) : b[n] = c[n]
  BY <1>5, <1>6
<1> HIDE DEF b
<1>8. \A n \in 1..(Len(t) + 1) : a[n] = b[n]
  <2>1. a[Len(t) + 1] = b[Len(t) + 1]
    BY <1>1, <1>4, <1>7
  <2>2. ASSUME NEW n \in 1..Len(t) PROVE a[n] = b[n]
    <3>1. n \in 1..(Len(t) + 1)
      BY <1>1
    <3> QED
      BY <1>1, <1>3, <1>4, <1>7, <3>1
  <2> QED
    BY <1>1, <2>1, <2>2
<1>9. a = b
  BY <1>6, <1>7, <1>8, SeqEqual
<1> QED
  BY <1>9 DEF a, b, c, u

LEMMA ClearSeparatorIsFifo ==
    ASSUME NEW g \in Getters, RingInv, ClearSeparator(g)
    PROVE  UNCHANGED Fifo!vars
<1> DEFINE old == PrevPos(getter.pos)
           job == <<getter.func, getter.args>>
           All == (0..(MaxJobs + 1)) \X (0..MaxJobs)
<1>1. /\ UNCHANGED <<putVars, getPos>> /\ getter.at = "clear"
      /\ getter.pos \in Slots /\ getPos = NextPos(getter.pos)
      /\ getter'.at = "idle" /\ func \in [Slots -> 0..(MaxJobs + 1)]
      /\ func' = [func EXCEPT ![old] = iejqNullJob]
      /\ taken' = Append(taken, job) /\ taken \in Seq(All) /\ job \in All
  BY DEF ClearSeparator, RingInv, TypeOK, GetterInv
<1>2. /\ First' = First /\ Publishing' = Publishing /\ First = NextPos(getter.pos)
      /\ Busy = 2
  BY <1>1 DEF First, Publishing, putVars, Busy
<1>3. Handed' = Handed
  <2>1. Handed = Append(Called, getter.func) /\ Handed' = Called'
    BY <1>1 DEF Handed
  <2>2. [n \in DOMAIN Append(taken, job) |-> Append(taken, job)[n][1]]
            = Append([n \in DOMAIN taken |-> taken[n][1]], job[1])
    <3> HIDE DEF job, All
    <3> QED
      BY <1>1, CalledGrows
  <2>3. Called' = Append(Called, job[1])
    BY <1>1, <2>2 DEF Called
  <2> QED
    BY <2>1, <2>3
<1>4. UNCHANGED <<refused, Offers>>
  BY <1>1 DEF Offers, putVars
<1>5. /\ From(old) = JobMax - 2 /\ Count \in 0..(JobMax - 1) /\ old \in Slots
      /\ Count <= JobMax - 2
  BY <1>1, <1>2, DistanceBehind, EndsOnRing, PosTypes DEF From, RingInv, RingLayout
<1>6. \A s \in Slots : From(s) < Count => func'[s] = func[s]
  BY <1>1, <1>5, JobQueueAssumption
<1> QED
  BY <1>2, <1>3, <1>4, <1>6, FifoStutters DEF RingInv

\* Reading a function that is not null takes the oldest waiting job.
LEMMA GetJobIsFifo ==
    ASSUME NEW g \in Getters, RingInv, GetJob(g)
    PROVE  Fifo!Take
<1>1. /\ UNCHANGED <<func, putVars, getPos, taken>> /\ getter.at = "idle"
      /\ func[getPos] # iejqNullJob /\ getPos \in Slots
      /\ getter'.at = "args" /\ getter'.func = func[getPos] /\ getter'.pos = getPos
      /\ func \in [Slots -> 0..(MaxJobs + 1)]
  BY DEF GetJob, RingInv, TypeOK
<1>2. Count > 0 /\ First = getPos
  BY <1>1, FirstJobFound
<1>3. First' = NextPos(First) /\ Publishing' = Publishing
  BY <1>1, <1>2 DEF First, Publishing, putVars
<1>4. Count \in 1..(JobMax - 1) /\ First \in Slots /\ Publishing \in Slots
  BY <1>2, EndsOnRing DEF RingInv
<1>5. Count' = Count - 1
  BY <1>2, <1>3, <1>4, DistanceFromNext, DistanceTypes DEF Count
<1>6. Waiting' = Segment(func, NextPos(First), Count - 1)
  BY <1>1, <1>3, <1>5 DEF Waiting, Segment, Count
<1>7. /\ Segment(func, First, Count) # <<>>
      /\ Head(Segment(func, First, Count)) = func[First]
      /\ Segment(func, NextPos(First), Count - 1) = Tail(Segment(func, First, Count))
  BY <1>1, <1>4, SegmentShrinks
<1>8. Waiting # <<>> /\ Head(Waiting) = func[getPos] /\ Waiting' = Tail(Waiting)
  BY <1>2, <1>6, <1>7, WaitingIsSegment
<1>9. Handed' = Append(Handed, func[getPos])
  BY <1>1 DEF Handed, Called
<1>10. UNCHANGED <<Offers, refused>>
  BY <1>1 DEF Offers, putVars
<1> QED
  BY <1>8, <1>9, <1>10 DEF Fifo!Take, Offers

LEMMA FifoStep == RingInv /\ [Next]_vars => [Fifo!Next]_(Fifo!vars)
<1> SUFFICES ASSUME RingInv, [Next]_vars PROVE Fifo!Next \/ UNCHANGED Fifo!vars
  OBVIOUS
<1>1. CASE Put
  BY <1>1, AddJobIsFifo, WriteJobIsFifo, AdvancePutPosIsFifo DEF Put, Fifo!Next
<1>2. ASSUME NEW g \in Getters, Get(g) PROVE Fifo!Next \/ UNCHANGED Fifo!vars
  BY <1>2, GetLockIsFifo, AdvanceGetPosIsFifo, MarkSeparatorIsFifo, ClearSeparatorIsFifo,
     GetJobIsFifo DEF Get, Got, Fifo!Next
<1>3. CASE UNCHANGED vars
  BY <1>3 DEF vars, Fifo!vars, Waiting, First, Publishing, Handed, Called
<1> QED
  BY <1>1, <1>2, <1>3 DEF Next

\* The ring of jobQueue.c, with no lock between the putter and the getters, is a
\* bounded first-in first-out queue: every job accepted is taken once, in the
\* order of the offers, and an offer is refused only when the ring is full but
\* for the separator and one slot that a getter is giving back.
THEOREM RingIsFifo == Spec => ImplementsFifo
BY FifoInit, FifoStep, RingInvariant, PTL DEF Spec, ImplementsFifo, Fifo!Spec
=============================================================================
