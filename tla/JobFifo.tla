------------------------------- MODULE JobFifo -------------------------------
(***************************************************************************)
(* What a job queue promises to the threads that use it: a bounded first-in *)
(* first-out buffer.  A job is taken once, in the order in which jobs were  *)
(* added; an add is refused only when the buffer is (nearly) full.          *)
(***************************************************************************)
EXTENDS Naturals, Sequences

CONSTANTS JobMax,     \* IEJQ_JOB_MAX, the slots of the ring
          MaxJobs     \* bound on the jobs offered in a behaviour

VARIABLES buffer,     \* jobs added and not yet taken, oldest first
          offered,    \* number of jobs offered so far; job n is the nth offer
          refused,    \* the jobs whose offer was refused
          taken       \* the jobs taken, oldest first

vars == <<buffer, offered, refused, taken>>

Init == buffer = <<>> /\ offered = 0 /\ refused = {} /\ taken = <<>>

Add == /\ offered < MaxJobs
       /\ Len(buffer) < JobMax - 1
       /\ offered' = offered + 1
       /\ buffer' = Append(buffer, offered')
       /\ UNCHANGED <<refused, taken>>

\* One slot is the separator, and one more may be in the hands of a getter.
Refuse == /\ offered < MaxJobs
          /\ Len(buffer) >= JobMax - 2
          /\ offered' = offered + 1
          /\ refused' = refused \cup {offered'}
          /\ UNCHANGED <<buffer, taken>>

Take == /\ buffer # <<>>
        /\ buffer' = Tail(buffer)
        /\ taken' = Append(taken, Head(buffer))
        /\ UNCHANGED <<offered, refused>>

Next == Add \/ Refuse \/ Take

Spec == Init /\ [][Next]_vars
=============================================================================
