---------------------------- MODULE MCThreadJobs ----------------------------
(***************************************************************************)
(* Instances of ThreadJobs for TLC.  A behaviour has either one thread     *)
(* that starts two jobs and enters twice, or two threads that enter once   *)
(* and one job.  Only calls of the engine are held back, and nothing is    *)
(* assumed to make them, so the filter takes no fair step away.            *)
(***************************************************************************)
EXTENDS ThreadJobs

CONSTANTS t1, t2, j1, j2

Came == {t \in Threads : pc[t] # "new"}
Started == {j \in Jobs : job[j].state # "none"}

\* Threads are alike, and so are jobs: they come in this order.
InTurn == t2 \in Came => t1 \in Came
JobsInTurn == j2 \in Started => j1 \in Started

WithinMix == \/ Cardinality(Came) <= 1
             \/ Cardinality(Started) <= 1 /\ \A t \in Threads : entryCount[t] <= 1

MixNext == Next /\ InTurn' /\ JobsInTurn' /\ WithinMix'
MixSpec == Init /\ [][MixNext]_vars /\ Fairness
=============================================================================
