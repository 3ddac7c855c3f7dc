------------------------ MODULE SchedulerRefinement ------------------------
(***************************************************************************)
(* CpuScheduler implements two smaller specifications: SchedulerLoop, on   *)
(* which liveness is checked, and the queue of jobs, which says what the   *)
(* whole is for.                                                           *)
(***************************************************************************)
EXTENDS CpuScheduler

\* The idle wait with its passes and seconds is one place of the loop; a tick is
\* pending when TIMESF is no longer the value a thread has read.
Loop == INSTANCE SchedulerLoop
        WITH Operator <- Commands # {}, Algorithms <- {Algorithm}, algorithm <- Algorithm,
             cpu <- IF cpu = "spin" THEN "idle" ELSE cpu,
             ticked <- cpu = "wait" /\ timesf # t0,
             late <- {j \in Job : phase[j] = "tick" /\ timesf # seen[j]},
             left <- [j \in Job |-> IF burstLeft[j] < 0 THEN -1 ELSE burstLeft[j]]

\* Every step of the threads is a step of the loop that forgets the clock's value:
\* nothing the loop leaves out decides what a thread does next.
ImplementsLoop == Loop!Spec

\* FIFO and round robin: the PCB that delete has copied to FQ no longer waits,
\* although it is unlinked only in the next critical section.
Queue == INSTANCE JobQueue
         WITH inserted <- {j \in Job : phase[j] = "queued"},
              ready <- IF cpu = "unlink" THEN Tail(rq) ELSE rq, done <- fq,
              Rotates <- Algorithm = "RR"

\* FIFO and round robin implement the queue of jobs, whatever the operator does:
\* no job is lost, finished twice, overtaken, or sent back but by a rotation.
ImplementsQueue == Queue!Spec
=============================================================================
