------------------------------ MODULE PcbList ------------------------------
(***************************************************************************)
(* The queues of src/jobscheduler.h as they are in memory: PCBs that       *)
(* malloc and free hand out and take back, linked by "next", and the two   *)
(* listings of window_thread (src/server.c) that walk them without         *)
(* cpu_mutex.  The CPU thread and the handlers have the steps they have in *)
(* CpuScheduler; how long a job executes, and whether it ends, is left     *)
(* open here.                                                              *)
(*                                                                         *)
(* Definitions whose name ends in Mutant are slips in the one that follows. *)
(*                                                                         *)
(* A step is a critical section, but for moveFirstToLast: its assignments  *)
(* are steps of their own, because the listings see what is between them.  *)
(***************************************************************************)
EXTENDS Integers, SequencesExt

CONSTANTS NULL,
  Job,        \* the jobs that may be inserted
  Addr,       \* the addresses that malloc may return
  Algorithms, \* main starts one of "FIFO", "RR", or "SJF" for the two that search
  Commands,   \* the commands the operator may type
  MaxRows     \* bound: rows of one listing

ASSUME HeapAssumption == IsFiniteSet(Addr) /\ NULL \notin Addr \cup Job
ASSUME AlgorithmAssumption == Algorithms \subseteq {"FIFO", "RR", "SJF"}
ASSUME CommandsAssumption == Commands \subseteq {"freeze", "unfreeze", "queue", "stop"}

VARIABLES
  algorithm,                           \* argv[1]
  pid, next, freed,                    \* the PCBs, and which addresses are free
  rqHead, rqLast, fqHead, fqLast, finishedJobs,
  phase, held,                         \* handlers and their pcb
  cpu, job, finished, copy,            \* the CPU thread; copy is delete's pcb2
  stop, console, before, tmp, rows,    \* window_thread; rows: what the listing printed
  up, calm                             \* the process lives; history, see Calm

heapVars == <<pid, next, freed>>
readyVars == <<rqHead, rqLast>>
finishVars == <<fqHead, fqLast, finishedJobs>>
handlerVars == <<phase, held>>
cpuVars == <<cpu, job, finished, copy>>
consoleVars == <<stop, console, before, tmp, rows, up, calm>>
vars == <<algorithm, heapVars, readyVars, finishVars, handlerVars, cpuVars, consoleVars>>

Init ==
  /\ algorithm \in Algorithms
  /\ pid = [a \in Addr |-> NULL] /\ next = [a \in Addr |-> NULL] /\ freed = Addr
  /\ rqHead = NULL /\ rqLast = NULL /\ fqHead = NULL /\ fqLast = NULL /\ finishedJobs = 0
  /\ phase = [j \in Job |-> "held"] /\ held = [j \in Job |-> NULL]
  /\ cpu = "loop" /\ job = NULL /\ finished = FALSE /\ copy = NULL
  /\ stop = 0 /\ console = "prompt" /\ before = 0 /\ tmp = NULL /\ rows = <<>>
  /\ up = TRUE /\ calm = FALSE
-----------------------------------------------------------------------------
(* The cells that one meets from a first one by following next, each once.   *)

Steps(from) ==
  LET step[n \in 0..Cardinality(Addr)] ==
        IF n = 0 THEN from ELSE IF step[n - 1] = NULL THEN NULL ELSE next[step[n - 1]]
  IN  step

Reached(from) == Range(Steps(from)) \ {NULL}

Walk(from) == [k \in 1..Cardinality(Reached(from)) |-> Steps(from)[k - 1]]

Pids(cells) == [k \in DOMAIN cells |-> pid[cells[k]]]

\* malloc: any free cell, with what is left in it until the PCB is filled.
Malloc(a) == a \in freed /\ freed' = freed \ {a}

\* What free does to its argument: the first words of the cell (the pid) become
\* the allocator's; next stays readable until the cell is handed out again.
Free(a) == freed' = freed \cup {a} /\ pid' = [pid EXCEPT ![a] = NULL]

\* The cell behind which insert (and delete, for FQ) links the new one.
Tailmost(head, last) == IF next[head] = NULL THEN head ELSE last
-----------------------------------------------------------------------------
(* handle_connection, from its test of stop to the end of insert.            *)

AwaitGo(j) ==
  /\ phase[j] = "held" /\ stop = 0
  /\ phase' = [phase EXCEPT ![j] = "args"]
  /\ UNCHANGED <<heapVars, readyVars, finishVars, held, cpuVars, consoleVars>>

Fill(j) ==
  /\ phase[j] = "args" /\ phase' = [phase EXCEPT ![j] = "link"]
  /\ \E a \in Addr : /\ Malloc(a)
                     /\ held' = [held EXCEPT ![j] = a]
                     /\ pid' = [pid EXCEPT ![a] = j] /\ next' = [next EXCEPT ![a] = NULL]
  /\ UNCHANGED <<readyVars, finishVars, cpuVars, consoleVars>>

\* The CPU thread has cpu_mutex inside moveFirstToLast.
CpuLocks == cpu \in {"rehead", "cut"}

Link(j) ==
  /\ phase[j] = "link" /\ phase' = [phase EXCEPT ![j] = "queued"] /\ ~CpuLocks
  /\ IF rqHead = NULL
     THEN rqHead' = held[j] /\ UNCHANGED next
     ELSE next' = [next EXCEPT ![Tailmost(rqHead, rqLast)] = held[j]] /\ UNCHANGED rqHead
  /\ rqLast' = held[j] /\ held' = [held EXCEPT ![j] = NULL]
  /\ UNCHANGED <<pid, freed, finishVars, cpuVars, consoleVars>>

handle_connection(j) == AwaitGo(j) \/ Fill(j) \/ Link(j)
-----------------------------------------------------------------------------
(* The CPU thread. *)

CpuGoto(here, there) == cpu = here /\ cpu' = there

ListsOnly == UNCHANGED <<handlerVars, consoleVars>>

Resume == /\ CpuGoto("loop", "ready") /\ stop = 0 /\ rqHead # NULL
          /\ ListsOnly /\ UNCHANGED <<heapVars, readyVars, finishVars, job, finished, copy>>

Drained == /\ CpuGoto("ready", "loop") /\ (rqHead = NULL \/ stop = 1)
           /\ ListsOnly /\ UNCHANGED <<heapVars, readyVars, finishVars, job, finished, copy>>

GoOn == /\ CpuGoto("ready", "pick") /\ rqHead # NULL /\ stop = 0
        /\ ListsOnly /\ UNCHANGED <<heapVars, readyVars, finishVars, job, finished, copy>>

\* getSJF and getHPF may return any PCB that is reachable: the keys are left open.
Pick == /\ CpuGoto("pick", "exec")
        /\ job' \in IF algorithm = "SJF" THEN Reached(rqHead) ELSE {rqHead}
        /\ ListsOnly /\ UNCHANGED <<heapVars, readyVars, finishVars, finished, copy>>

\* A burst has ended, a quantum has ended, or stop was seen.
Execute == /\ CpuGoto("exec", "verify")
           /\ finished' \in IF algorithm = "RR" THEN BOOLEAN ELSE {TRUE}
           /\ ListsOnly /\ UNCHANGED <<heapVars, readyVars, finishVars, job, copy>>

VerifyMutant ==   \* stop is not tested again
  /\ cpu = "verify" /\ cpu' = IF finished THEN "stats" ELSE "relink"
  /\ ListsOnly /\ UNCHANGED <<heapVars, readyVars, finishVars, job, finished, copy>>

Verify == /\ cpu = "verify"
          /\ cpu' = IF stop = 1 THEN "loop" ELSE IF finished THEN "stats" ELSE "relink"
          /\ ListsOnly /\ UNCHANGED <<heapVars, readyVars, finishVars, job, finished, copy>>

Stats == /\ CpuGoto("stats", "copy")
         /\ finishedJobs' = finishedJobs + 1
         /\ ListsOnly /\ UNCHANGED <<heapVars, readyVars, fqHead, fqLast, job, finished, copy>>

\* delete: the copy for FQ takes over the PCB's next, a cell of the ready queue.
Copy == /\ CpuGoto("copy", "append")
        /\ \E a \in Addr : /\ Malloc(a) /\ copy' = a
                           /\ pid' = [pid EXCEPT ![a] = pid[job]]
                           /\ next' = [next EXCEPT ![a] = next[job]]
        /\ ListsOnly /\ UNCHANGED <<readyVars, finishVars, job, finished>>

DeleteAppendMutant ==   \* FQ->last is not set for the first one
  /\ CpuGoto("append", "unlink")
  /\ IF fqHead = NULL
     THEN fqHead' = copy /\ UNCHANGED <<next, fqLast>>
     ELSE /\ next' = [next EXCEPT ![Tailmost(fqHead, fqLast)] = copy]
          /\ fqLast' = copy /\ UNCHANGED fqHead
  /\ copy' = NULL
  /\ ListsOnly /\ UNCHANGED <<pid, freed, readyVars, finishedJobs, job, finished>>

DeleteAppend ==
  /\ CpuGoto("append", "unlink")
  /\ IF fqHead = NULL
     THEN fqHead' = copy /\ UNCHANGED next
     ELSE next' = [next EXCEPT ![Tailmost(fqHead, fqLast)] = copy] /\ UNCHANGED fqHead
  /\ fqLast' = copy /\ copy' = NULL
  /\ ListsOnly /\ UNCHANGED <<pid, freed, readyVars, finishedJobs, job, finished>>

DeleteFirstMutant ==   \* the first PCB is not freed
  /\ CpuGoto("unlink", "ready") /\ rqHead = job
  /\ rqHead' = next[job] /\ rqLast' = IF rqLast = job THEN NULL ELSE rqLast
  /\ ListsOnly /\ UNCHANGED <<heapVars, finishVars, job, finished, copy>>

DeleteFirst ==
  /\ CpuGoto("unlink", "ready") /\ rqHead = job
  /\ rqHead' = next[job] /\ rqLast' = IF rqLast = job THEN NULL ELSE rqLast
  /\ Free(job)
  /\ ListsOnly /\ UNCHANGED <<next, finishVars, job, finished, copy>>

DeleteOther == /\ CpuGoto("unlink", "search") /\ rqHead # job
               /\ ListsOnly /\ UNCHANGED <<heapVars, readyVars, finishVars, job, finished, copy>>

DeleteSearchMutant ==   \* line 109 in place of the unlinking
  /\ CpuGoto("search", "ready")
  /\ \E a \in Reached(rqHead) :
       /\ next[a] = job
       /\ IF next[job] = NULL THEN rqLast' = a /\ UNCHANGED next
          ELSE next' = [next EXCEPT ![a] = next[job]] /\ UNCHANGED rqLast
  /\ Free(job)
  /\ ListsOnly /\ UNCHANGED <<rqHead, finishVars, job, finished, copy>>

Preceding == {a \in Reached(rqHead) : next[a] = job}

\* Line 109 compares RQ->last and leaves it as it is.  A PCB that insert has cut
\* off behind a stale RQ->last is not found, and not freed.
DeleteSearch ==
  /\ CpuGoto("search", "ready")
  /\ IF Preceding = {} THEN UNCHANGED heapVars
     ELSE Free(job) /\ \E a \in Preceding : next' = [next EXCEPT ![a] = next[job]]
  /\ ListsOnly /\ UNCHANGED <<readyVars, finishVars, job, finished, copy>>

RelinkMutant ==   \* RQ->last stays
  /\ CpuGoto("relink", "rehead")
  /\ next' = [next EXCEPT ![rqLast] = rqHead]
  /\ ListsOnly /\ UNCHANGED <<pid, freed, readyVars, finishVars, job, finished, copy>>

\* moveFirstToLast, by assignments.
Relink == /\ CpuGoto("relink", "rehead")
          /\ next' = [next EXCEPT ![rqLast] = rqHead] /\ rqLast' = rqHead
          /\ ListsOnly /\ UNCHANGED <<pid, freed, rqHead, finishVars, job, finished, copy>>

Rehead == /\ CpuGoto("rehead", "cut")
          /\ rqHead' = next[rqHead]
          /\ ListsOnly /\ UNCHANGED <<heapVars, rqLast, finishVars, job, finished, copy>>

Cut == /\ CpuGoto("cut", "ready")
       /\ next' = [next EXCEPT ![rqLast] = NULL]
       /\ ListsOnly /\ UNCHANGED <<pid, freed, readyVars, finishVars, job, finished, copy>>

Cpu == \/ Resume \/ Drained \/ GoOn \/ Pick \/ Execute \/ Verify \/ Stats \/ Copy
       \/ DeleteAppend \/ DeleteFirst \/ DeleteOther \/ DeleteSearch
       \/ Relink \/ Rehead \/ Cut
-----------------------------------------------------------------------------
(* window_thread.  A row is printed, half a second passes, the pointer moves *)
(* on.                                                                       *)

ServerOnly == UNCHANGED <<heapVars, readyVars, finishVars, handlerVars, cpuVars>>

\* The CPU thread does not touch the lists: it waits, or its next test is one of
\* stop.
Calm == cpu \notin {"stats", "copy", "append", "unlink", "search", "relink", "rehead", "cut"}

\* Back at the prompt; the locals of the command's block are gone.
Prompt == /\ console' = "prompt" /\ before' = 0 /\ tmp' = NULL /\ rows' = <<>> /\ calm' = FALSE
          /\ ServerOnly /\ UNCHANGED up

SetStop == /\ console = "prompt"
           /\ \/ "freeze" \in Commands /\ stop' = 1
              \/ "unfreeze" \in Commands /\ stop' = 0
           /\ ServerOnly /\ UNCHANGED <<console, before, tmp, rows, up, calm>>

QueueCommandMutant ==   \* counts who has set stop
  /\ "queue" \in Commands /\ console = "prompt"
  /\ before' = stop /\ stop' = stop + 1 /\ console' = "queue"
  /\ ServerOnly /\ UNCHANGED <<tmp, rows, up, calm>>

QueueCommand == /\ "queue" \in Commands /\ console = "prompt"
                /\ before' = stop /\ stop' = 1 /\ console' = "queue"
                /\ ServerOnly /\ UNCHANGED <<tmp, rows, up, calm>>

QueueBegin == /\ console = "queue" /\ console' = "entry"
              /\ tmp' = rqHead /\ calm' = Calm
              /\ ServerOnly /\ UNCHANGED <<stop, before, rows, up>>

QueueEntry == /\ console = "entry" /\ tmp # NULL /\ Len(rows) < MaxRows
              /\ console' = "entered" /\ rows' = Append(rows, pid[tmp])
              /\ ServerOnly /\ UNCHANGED <<stop, before, tmp, up, calm>>

QueueNext == /\ console = "entered" /\ console' = "entry"
             /\ tmp' = next[tmp]
             /\ ServerOnly /\ UNCHANGED <<stop, before, rows, up, calm>>

QueueEnd == /\ console = "entry" /\ tmp = NULL
            /\ stop' = before /\ Prompt

StopCommand == /\ "stop" \in Commands /\ console = "prompt"
               /\ stop' = 1 /\ console' = "stop"
               /\ ServerOnly /\ UNCHANGED <<before, tmp, rows, up, calm>>

TableBegin == /\ console = "stop"
              /\ IF finishedJobs = 0 THEN Prompt
                 ELSE /\ console' = "row" /\ tmp' = fqHead /\ calm' = Calm
                      /\ ServerOnly /\ UNCHANGED <<before, rows, up>>
              /\ UNCHANGED stop

\* The row of a NULL pointer ends the process.
TableRow == /\ console = "row" /\ Len(rows) # finishedJobs
            /\ console' = "printed"
            /\ IF tmp = NULL THEN up' = FALSE /\ UNCHANGED rows
               ELSE rows' = Append(rows, pid[tmp]) /\ UNCHANGED up
            /\ ServerOnly /\ UNCHANGED <<stop, before, tmp, calm>>

TableNext == /\ console = "printed" /\ console' = "row"
             /\ tmp' = next[tmp]
             /\ ServerOnly /\ UNCHANGED <<stop, before, rows, up, calm>>

TableEnd == /\ console = "row" /\ Len(rows) = finishedJobs
            /\ UNCHANGED stop /\ Prompt

window_thread == \/ SetStop
                 \/ QueueCommand \/ QueueBegin \/ QueueEntry \/ QueueNext \/ QueueEnd
                 \/ StopCommand \/ TableBegin \/ TableRow \/ TableNext \/ TableEnd
-----------------------------------------------------------------------------
Next == /\ up /\ UNCHANGED algorithm
        /\ window_thread \/ Cpu \/ \E j \in Job : handle_connection(j)

Spec == Init /\ [][Next]_vars
-----------------------------------------------------------------------------
\* The cells of FQ: the first ones from FQ.head, as many as delete has appended.
\* What the last of them took over as its next belongs to the ready queue.
Appended == finishedJobs - IF cpu \in {"copy", "append"} THEN 1 ELSE 0

FqCells == SubSeq(Walk(fqHead), 1, Min({Appended, Cardinality(Reached(fqHead))}))

\* The types of the variables.
TypeOK ==
  /\ pid \in [Addr -> Job \cup {NULL}] /\ next \in [Addr -> Addr \cup {NULL}] /\ freed \subseteq Addr
  /\ {rqHead, rqLast, fqHead, fqLast, job, copy, tmp} \subseteq Addr \cup {NULL}
  /\ finishedJobs \in Nat /\ finished \in BOOLEAN /\ up \in BOOLEAN /\ calm \in BOOLEAN
  /\ phase \in [Job -> {"held", "args", "link", "queued"}] /\ held \in [Job -> Addr \cup {NULL}]
  /\ cpu \in {"loop", "ready", "pick", "exec", "verify", "stats", "copy", "append", "unlink",
              "search", "relink", "rehead", "cut"}
  /\ stop \in {0, 1} /\ before \in {0, 1} /\ rows \in Seq(Job \cup {NULL})
  /\ console \in {"prompt", "queue", "entry", "entered", "stop", "row", "printed"}

\* The jobs in the cells: between delete's two critical sections the finished one
\* is first in both lists; inside moveFirstToLast the list is a ring.
Queue == INSTANCE JobQueue
         WITH inserted <- {j \in Job : phase[j] = "queued"},
              ready <- IF cpu = "unlink" THEN Tail(Pids(Walk(rqHead))) ELSE
                       IF cpu = "cut" THEN Pids(Walk(rqHead)) ELSE
                       IF cpu = "rehead" THEN Append(Tail(Pids(Walk(rqHead))), pid[rqHead])
                       ELSE Pids(Walk(rqHead)),
              done <- Pids(FqCells), Rotates <- "RR" \in Algorithms

\* With first-come-first-served and round robin the links of the cells implement
\* the queue of jobs: insert, delete and moveFirstToLast, each with its special
\* cases for lists of no and one cell and its copies of next, agree.
ImplementsQueue ==
  Queue!Init /\ [][\/ Queue!Insert \/ Queue!Finish
                   \/ algorithm = "RR" /\ Queue!MoveFirstToLast
                   \/ algorithm = "SJF"]_(Queue!queues)

\* No pointer leads from either head to a PCB that has been freed, although
\* delete leaves RQ->last on the PCB it frees.
ReachableAlive ==
  /\ Reached(rqHead) \cap freed = {} /\ Range(FqCells) \cap freed = {}
  /\ Reached(rqHead) \cap Range(FqCells) = {}

\* malloc and free are balanced: what is allocated is in one of the queues or
\* in the hands of the one thread that fills or appends it.
EveryCellOwned ==
  algorithm # "SJF" =>
    Addr \ freed = (Reached(rqHead) \cup Range(FqCells) \cup Range(held) \cup {copy}) \ {NULL}

\* A listing of "queue" that begins while the CPU thread is away from the lists
\* shows the ready queue from its head on and stands on no freed PCB, although
\* handlers may go on inserting.  Not with SJF and HPF: behind a stale RQ->last
\* insert writes into whatever cell that is by now, one just shown included.
CalmListing ==
  console \in {"entry", "entered"} /\ calm /\ algorithm # "SJF" =>
    /\ IsPrefix(rows, Pids(Walk(rqHead))) /\ tmp \notin freed
    /\ tmp = NULL => Len(rows) <= Cardinality(Reached(rqHead))

\* A table of "stop" that begins while the CPU thread is away from the lists has
\* a row for each of the finished jobs, in the order in which they finished, and
\* for no other, although the next of FQ's last PCB points into the ready queue.
\* Not with SJF and HPF: the cell behind the stale RQ->last may be one of FQ.
CalmTable ==
  console \in {"row", "printed"} /\ calm /\ algorithm # "SJF" =>
    /\ up /\ IsPrefix(rows, Pids(FqCells)) /\ finishedJobs = Len(FqCells)
    /\ Range(rows) \cap (Range(Pids(Walk(rqHead))) \cup {NULL}) = {}
=============================================================================
