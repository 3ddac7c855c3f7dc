-------------------------- MODULE MCCpuScheduler --------------------------
(* Instances of CpuScheduler for TLC. *)
EXTENDS SchedulerRefinement, TLC

JobSymmetry == Permutations(Job)

\* Inputs for one of the two keys, the other left at 1.
Bursts(S) == [burst : S, priority : {1}]
Priorities(S) == [burst : {1}, priority : S]

ShortBursts == Bursts({1, 2})
LongBursts == Bursts({2, 3})
BurstsOrClose == Bursts({0, 1, 2})

\* What src/client.c sends last.
EndMark == [burst |-> -1, priority |-> -1]
LongBurstsOrEnd == LongBursts \cup {EndMark}
PriorityOrClose == Priorities({0, 1, 2})

(* States that differ only in values nobody reads again are explored once:   *)
(* of seen and t0 only the comparison with TIMESF counts (TIMESF never comes *)
(* back to an old value), a thread's local counts only where it is in use,   *)
(* of frozen counts done in comparison with FQ, the rest while stop is set.  *)
LiveView ==
  <<clockVars, stop, flagRun, console, IF console = "queue" THEN before ELSE 0,
    IF stop = 1 THEN frozen ELSE <<>>, frozen.done = Len(fq),
    phase, {j \in Job : phase[j] = "tick" /\ seen[j] # timesf}, burst, priority, burstLeft,
    queueVars, fq, finishedJobs, cpuOcioso, busy, cpu, job,
    IF cpu \in Executing \ {"unlink"} THEN i ELSE 0,
    cpu \in {"spin", "wait"} /\ t0 = timesf, cpu = "spin" /\ spun, finished>>

\* For the properties that also read the times in the PCBs.
TimedView == <<LiveView, startTime, endTime>>
===========================================================================
