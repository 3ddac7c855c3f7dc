------------------------------ MODULE JobQueue ------------------------------
(***************************************************************************)
(* What the queues of src/jobscheduler.h promise together: the jobs that   *)
(* wait, in their order, and the jobs that are finished.  A job enters at  *)
(* the end, only the first one is finished, and only round robin sends the *)
(* first one back to the end.  Pointers, cells, the mutex and the moment   *)
(* in which delete has a job in both lists are the implementation's.       *)
(***************************************************************************)
EXTENDS SequencesExt

CONSTANTS Job,      \* the jobs that may arrive
          Rotates   \* whether the algorithm is round robin

VARIABLES inserted, ready, done   \* all jobs that have arrived; the two queues

queues == <<inserted, ready, done>>

Init == inserted = {} /\ ready = <<>> /\ done = <<>>

Insert ==
  \E j \in Job \ inserted :
    inserted' = inserted \cup {j} /\ ready' = Append(ready, j) /\ UNCHANGED done

Finish ==
  /\ ready # <<>>
  /\ done' = Append(done, Head(ready)) /\ ready' = Tail(ready)
  /\ UNCHANGED inserted

MoveFirstToLast ==
  /\ Rotates /\ ready # <<>>
  /\ ready' = Append(Tail(ready), Head(ready)) /\ UNCHANGED <<inserted, done>>

Next == Insert \/ Finish \/ MoveFirstToLast

Spec == Init /\ [][Next]_queues
=============================================================================
