---------------------------- MODULE JobScheduler ----------------------------
(***************************************************************************)
(* The operations of src/jobscheduler.h on the ready queue, one critical   *)
(* section of cpu_mutex each, as operators on its value: "queue" is the    *)
(* sequence of PCBs reachable from RQ->head and "last" the PCB that        *)
(* RQ->last points to, which need not be the last one of the sequence.     *)
(***************************************************************************)
EXTENDS Integers, SequencesExt

CONSTANT NULL

(* Definitions whose name ends in Mutant are none of the code's: each is a   *)
(* plausible slip in the definition that follows it, and shows that the      *)
(* properties tell the two apart.                                            *)

insertAtHeadMutant(queue, last, pcb) == <<pcb>> \o queue

\* insert: with two or more PCBs it links through RQ->last, so a PCB inserted
\* behind a stale RQ->last is not reachable from RQ->head.  Line 54 has then
\* written into a freed cell, or into the PCB that malloc has put there since:
\* the sequences say nothing of what the lists are from then on (PcbList does),
\* and the specifications that use them end there.
insert(queue, last, pcb) ==
    IF Len(queue) <= 1 \/ last = queue[Len(queue)]
    THEN Append(queue, pcb)
    ELSE queue

Position(queue, pcb) == CHOOSE k \in DOMAIN queue : queue[k] = pcb

unlinkHeadOnlyMutant(queue, pcb) ==
    IF queue # <<>> /\ Head(queue) = pcb THEN Tail(queue) ELSE queue

\* delete, its second part: unlink the PCB and free it.
unlink(queue, pcb) ==
    IF queue # <<>> /\ Head(queue) = pcb THEN Tail(queue)
    ELSE IF pcb \in Range(queue) THEN RemoveAt(queue, Position(queue, pcb))
    ELSE queue

\* delete resets RQ->last for a PCB that is first; when the PCB is further down
\* line 109 compares RQ->last with it and assigns nothing.
unlinkedLast(queue, last, pcb) ==
    IF queue # <<>> /\ Head(queue) = pcb /\ last = pcb THEN NULL ELSE last

moveFirstToLast(queue) == Append(Tail(queue), Head(queue))

\* What a scan that keeps the first PCB with a strictly smaller key returns,
\* as a set of at most one PCB.
EarliestLeast(queue, key) ==
    {queue[k] : k \in {n \in DOMAIN queue :
        \A m \in DOMAIN queue : /\ key[queue[n]] <= key[queue[m]]
                                /\ m < n => key[queue[n]] < key[queue[m]]}}

getSJF(queue, burst) == EarliestLeast(queue, burst)

getHPF(queue, priority) == EarliestLeast(queue, priority)
=============================================================================
