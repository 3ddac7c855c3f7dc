-------------------------- MODULE MCSchedulerLoop --------------------------
(* Instances of SchedulerLoop for TLC. *)
EXTENDS SchedulerLoop

\* Jobs of two and three ticks, a refused one, and what src/client.c sends last.
FewTicksOrEnd ==
  [burst : {2, 3}, priority : {1}] \cup
  {[burst |-> 0, priority |-> 1], [burst |-> -1, priority |-> -1]}
===========================================================================
