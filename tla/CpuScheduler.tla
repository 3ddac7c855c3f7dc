---------------------------- MODULE CpuScheduler ----------------------------
(***************************************************************************)
(* The server's threads over one ready queue: the CPU thread running the   *)
(* algorithm of the command line (src/cpuscheduler.h), the timer thread    *)
(* that advances TIMESF, the console thread that sets and clears "stop",   *)
(* and one handle_connection thread per open connection (src/server.c).    *)
(*                                                                         *)
(* A step is one access to shared state: a critical section of cpu_mutex   *)
(* (the operators of JobScheduler), or a read or write made without it.    *)
(* Output to the screen under win_mutex is left out: no thread holds both  *)
(* mutexes, and none keeps win_mutex while it waits for another.           *)
(***************************************************************************)
EXTENDS JobScheduler

CONSTANTS
  Job,          \* the jobs that clients may send
  Inputs,       \* the [burst, priority] values they may carry
  Algorithm,    \* argv[1]: "FIFO", "SJF", "HPF" or "RR"
  Quantum,      \* argv[2] of RR (cpuinfo->rrQ)
  Connections,  \* bound: handle_connection threads working on a job at a time
  Commands,     \* the commands the operator may type
  MaxTime       \* bound: last value of TIMESF

ASSUME JobAssumption == IsFiniteSet(Job) /\ NULL \notin Job
ASSUME InputsAssumption == Inputs \subseteq [burst : Int, priority : Int]
ASSUME AlgorithmAssumption == Algorithm \in {"FIFO", "SJF", "HPF", "RR"}
ASSUME QuantumAssumption == Quantum \in Int
ASSUME ConnectionsAssumption == Connections \in Nat
ASSUME CommandsAssumption == Commands \subseteq {"freeze", "unfreeze", "queue", "exit"}
ASSUME TimeAssumption == MaxTime \in Nat

VARIABLES
  timesf, timer,                           \* TIMESF; where start_time_thread is
  stop, before, flagRun, console,          \* the flags, "queue"'s copy; console thread
  phase, seen,                             \* per job: its handler's place and tempTime
  burst, priority, startTime, burstLeft, endTime,            \* fields of the PCBs
  rq, last, fq, finishedJobs, cpuOcioso,   \* RQ's list and RQ->last, FQ's list, counters
  cpu, job, i, t0, spun, finished,         \* the CPU thread and its locals
  arrived, busy, frozen                    \* history, see below

(* arrived: the jobs in the order insert linked them; busy: ticks the CPU    *)
(* spent executing; frozen: time, finished jobs and arrivals when stop was   *)
(* last set (done is -1 before the first time).  No action reads them.       *)

clockVars == <<timesf, timer>>
consoleVars == <<stop, before, flagRun, console, frozen>>
handlerVars == <<phase, seen>>
inputVars == <<burst, priority, startTime>>
queueVars == <<rq, last, arrived>>
finishVars == <<fq, finishedJobs, endTime>>
localVars == <<job, i, t0, spun, finished>>
workVars == <<burstLeft, busy, cpuOcioso>>
vars == <<clockVars, consoleVars, handlerVars, inputVars, queueVars,
          finishVars, cpu, localVars, workVars>>
-----------------------------------------------------------------------------
Init ==
  /\ timesf = 0 /\ timer = "check"
  /\ stop = 0 /\ before = 0 /\ flagRun = 1 /\ console = "prompt"
  /\ phase = [j \in Job |-> "unsent"] /\ seen = [j \in Job |-> 0]
  /\ burst = [j \in Job |-> 0] /\ priority = [j \in Job |-> 0]
  /\ startTime = [j \in Job |-> 0] /\ burstLeft = [j \in Job |-> 0]
  /\ endTime = [j \in Job |-> 0]
  /\ rq = <<>> /\ last = NULL /\ fq = <<>> /\ finishedJobs = 0 /\ cpuOcioso = 0
  /\ cpu = "loop" /\ job = NULL /\ i = 0 /\ t0 = 0 /\ spun = FALSE /\ finished = FALSE
  /\ arrived = <<>> /\ busy = 0 /\ frozen = [time |-> 0, done |-> -1, linked |-> 0]
-----------------------------------------------------------------------------
(* start_time_thread.  A frozen timer thread starts its successor and ends;  *)
(* the successor waits for stop = 0: one thread, back at its first test.     *)

TimerTestMutant ==   \* an endless loop: stop is not tested
  /\ timer = "check"
  /\ timer' = "sleep"
  /\ UNCHANGED <<timesf, consoleVars, handlerVars, inputVars, queueVars,
                 finishVars, cpu, localVars, workVars>>

TimerTest ==
  /\ timer = "check" /\ stop = 0
  /\ timer' = "sleep"
  /\ UNCHANGED <<timesf, consoleVars, handlerVars, inputVars, queueVars,
                 finishVars, cpu, localVars, workVars>>

TimerTick ==
  /\ timer = "sleep" /\ timesf < MaxTime
  /\ timesf' = timesf + 1 /\ timer' = "check"
  /\ UNCHANGED <<consoleVars, handlerVars, inputVars, queueVars,
                 finishVars, cpu, localVars, workVars>>

start_time_thread == TimerTest \/ TimerTick
-----------------------------------------------------------------------------
(* window_thread: what its commands do to "stop" and "flagRun".  "stop" and  *)
(* "freeze" set stop, "restart" and "unfreeze" clear it; "queue" sets it     *)
(* during its listing and puts the old value back.  "exit" (or control-D)    *)
(* clears flagRun; exit() follows and may end the process before any next    *)
(* step.  The listings are not modelled.                                     *)

SetStop(value) ==
  /\ stop' = value
  /\ frozen' = IF stop = 0 /\ value = 1
               THEN [time |-> timesf, done |-> Len(fq), linked |-> Len(arrived)]
               ELSE frozen
  /\ UNCHANGED <<clockVars, handlerVars, inputVars, queueVars,
                 finishVars, cpu, localVars, workVars>>

FreezeMutant ==   \* counts the freezes
  /\ "freeze" \in Commands /\ console = "prompt"
  /\ SetStop(stop + 1)
  /\ UNCHANGED <<before, flagRun, console>>

Freeze ==
  /\ "freeze" \in Commands /\ console = "prompt"
  /\ SetStop(1)
  /\ UNCHANGED <<before, flagRun, console>>

Unfreeze ==
  /\ "unfreeze" \in Commands /\ console = "prompt"
  /\ SetStop(0)
  /\ UNCHANGED <<before, flagRun, console>>

QueueBegin ==
  /\ "queue" \in Commands /\ console = "prompt"
  /\ before' = stop /\ console' = "queue"
  /\ SetStop(1)
  /\ UNCHANGED flagRun

QueueEnd ==
  /\ console = "queue"
  /\ console' = "prompt"
  /\ SetStop(before)
  /\ UNCHANGED <<before, flagRun>>

ExitCommand ==
  /\ "exit" \in Commands /\ console = "prompt"
  /\ flagRun' = 0 /\ console' = "exit"
  /\ UNCHANGED <<stop, before, frozen, clockVars, handlerVars, inputVars, queueVars,
                 finishVars, cpu, localVars, workVars>>

window_thread == Freeze \/ Unfreeze \/ QueueBegin \/ QueueEnd \/ ExitCommand
-----------------------------------------------------------------------------
(* handle_connection, the part of its loop that serves the job j.  After the *)
(* tick the handler ends, the job in its hand, if flagRun is 0 or if the     *)
(* burst or the priority is.                                                 *)

Serving == {j \in Job : phase[j] \in {"tick", "held", "args", "link"}}

Goto(j, here, there) == phase[j] = here /\ phase' = [phase EXCEPT ![j] = there]

Receive(j) ==
  /\ Cardinality(Serving) < Connections
  /\ Goto(j, "unsent", "tick")
  /\ \E in \in Inputs : /\ burst' = [burst EXCEPT ![j] = in.burst]
                        /\ priority' = [priority EXCEPT ![j] = in.priority]
  /\ seen' = [seen EXCEPT ![j] = timesf]
  /\ UNCHANGED <<clockVars, consoleVars, startTime, queueVars,
                 finishVars, cpu, localVars, workVars>>

AwaitTick(j) ==
  /\ timesf # seen[j]
  /\ Goto(j, "tick", IF flagRun = 0 \/ burst[j] = 0 \/ priority[j] = 0
                     THEN "closed" ELSE "held")
  /\ UNCHANGED <<clockVars, consoleVars, seen, inputVars, queueVars,
                 finishVars, cpu, localVars, workVars>>

AwaitGoMutant(j) ==   \* does not wait for stop = 0
  /\ Goto(j, "held", "args")
  /\ UNCHANGED <<clockVars, consoleVars, seen, inputVars, queueVars,
                 finishVars, cpu, localVars, workVars>>

AwaitGo(j) ==
  /\ stop = 0
  /\ Goto(j, "held", "args")
  /\ UNCHANGED <<clockVars, consoleVars, seen, inputVars, queueVars,
                 finishVars, cpu, localVars, workVars>>

\* The call of insert: its arguments are read and the PCB filled before the lock.
FillPcb(j) ==
  /\ Goto(j, "args", "link")
  /\ startTime' = [startTime EXCEPT ![j] = timesf]
  /\ burstLeft' = [burstLeft EXCEPT ![j] = burst[j]]
  /\ UNCHANGED <<clockVars, consoleVars, seen, burst, priority, queueVars,
                 finishVars, cpu, localVars, busy, cpuOcioso>>

LinkMutant(j) ==   \* RQ->last is set only by the first insert
  /\ Goto(j, "link", "queued")
  /\ rq' = insert(rq, last, j) /\ last' = IF rq = <<>> THEN j ELSE last
  /\ arrived' = Append(arrived, j)
  /\ UNCHANGED <<clockVars, consoleVars, seen, inputVars,
                 finishVars, cpu, localVars, workVars>>

Link(j) ==
  /\ Goto(j, "link", "queued")
  /\ rq' = insert(rq, last, j) /\ last' = j
  /\ arrived' = Append(arrived, j)
  /\ UNCHANGED <<clockVars, consoleVars, seen, inputVars,
                 finishVars, cpu, localVars, workVars>>

handle_connection(j) == Receive(j) \/ AwaitTick(j) \/ AwaitGo(j) \/ FillPcb(j) \/ Link(j)
-----------------------------------------------------------------------------
(* The CPU thread: the loop that all four algorithms have around their jobs. *)

CpuGoto(here, there) == cpu = here /\ cpu' = there

CpuOnly == UNCHANGED <<clockVars, consoleVars, handlerVars, inputVars, queueVars>>

Resume ==
  /\ CpuGoto("loop", "idle") /\ stop = 0
  /\ CpuOnly /\ UNCHANGED <<finishVars, localVars, workVars>>

IdleEnter ==
  /\ CpuGoto("idle", "spin") /\ rq = <<>>
  /\ t0' = timesf /\ spun' = FALSE
  /\ CpuOnly /\ UNCHANGED <<finishVars, job, i, finished, workVars>>

\* A hundred passes of the polling loop, after which "time >= 1".
IdleSpin ==
  /\ CpuGoto("spin", "spin") /\ t0 = timesf /\ rq = <<>> /\ ~spun
  /\ spun' = TRUE
  /\ CpuOnly /\ UNCHANGED <<finishVars, job, i, t0, finished, workVars>>

IdleExitMutant ==   \* a hundred passes end the second
  /\ CpuGoto("spin", "idle") /\ (t0 # timesf \/ rq # <<>> \/ spun)
  /\ cpuOcioso' = IF spun THEN cpuOcioso + 1 ELSE cpuOcioso
  /\ CpuOnly /\ UNCHANGED <<finishVars, localVars, burstLeft, busy>>

IdleExit ==
  /\ CpuGoto("spin", "idle") /\ (t0 # timesf \/ rq # <<>>)
  /\ cpuOcioso' = IF spun THEN cpuOcioso + 1 ELSE cpuOcioso
  /\ CpuOnly /\ UNCHANGED <<finishVars, localVars, burstLeft, busy>>

IdleLeave ==
  /\ CpuGoto("idle", "ready") /\ rq # <<>>
  /\ CpuOnly /\ UNCHANGED <<finishVars, localVars, workVars>>

Drained ==
  /\ CpuGoto("ready", "loop") /\ (rq = <<>> \/ stop = 1)
  /\ CpuOnly /\ UNCHANGED <<finishVars, localVars, workVars>>

GoOn ==
  /\ CpuGoto("ready", "pick") /\ rq # <<>> /\ stop = 0
  /\ CpuOnly /\ UNCHANGED <<finishVars, localVars, workVars>>

PickMutant(candidates) ==   \* the flag of the last quantum is kept
  /\ CpuGoto("pick", "exec")
  /\ job' \in candidates /\ i' = 0
  /\ CpuOnly /\ UNCHANGED <<finishVars, t0, spun, finished, workVars>>

Pick(candidates) ==
  /\ CpuGoto("pick", "exec")
  /\ job' \in candidates /\ i' = 0 /\ finished' = FALSE
  /\ CpuOnly /\ UNCHANGED <<finishVars, t0, spun, workVars>>

ExecTestMutant(limit) ==   \* one tick short
  /\ cpu = "exec"
  /\ cpu' = IF i + 1 < limit /\ stop = 0 THEN "read" ELSE "verify"
  /\ CpuOnly /\ UNCHANGED <<finishVars, localVars, workVars>>

\* The head of "while(i < limit)" and the test of stop inside it.
ExecTest(limit) ==
  /\ cpu = "exec"
  /\ cpu' = IF i < limit /\ stop = 0 THEN "read" ELSE "verify"
  /\ CpuOnly /\ UNCHANGED <<finishVars, localVars, workVars>>

ReadClockMutant ==   \* the clock is read once, before the loop
  /\ CpuGoto("read", "wait")
  /\ t0' = IF i = 0 THEN timesf ELSE t0
  /\ CpuOnly /\ UNCHANGED <<finishVars, job, i, spun, finished, workVars>>

ReadClock ==
  /\ CpuGoto("read", "wait")
  /\ t0' = timesf
  /\ CpuOnly /\ UNCHANGED <<finishVars, job, i, spun, finished, workVars>>

Interrupted ==
  /\ CpuGoto("verify", "loop") /\ stop = 1
  /\ CpuOnly /\ UNCHANGED <<finishVars, localVars, workVars>>

Stats ==
  /\ CpuGoto("stats", "append")
  /\ endTime' = [endTime EXCEPT ![job] = timesf]
  /\ finishedJobs' = finishedJobs + 1
  /\ CpuOnly /\ UNCHANGED <<fq, localVars, workVars>>

\* delete: two critical sections, with cpu_mutex released between them.
DeleteAppend ==
  /\ CpuGoto("append", "unlink")
  /\ fq' = Append(fq, job)
  /\ CpuOnly /\ UNCHANGED <<finishedJobs, endTime, localVars, workVars>>

DeleteUnlink ==
  /\ CpuGoto("unlink", "ready")
  /\ rq' = unlink(rq, job) /\ last' = unlinkedLast(rq, last, job)
  /\ UNCHANGED <<clockVars, consoleVars, handlerVars, inputVars, arrived,
                 finishVars, localVars, workVars>>

CpuLoop == \/ Resume \/ IdleEnter \/ IdleSpin \/ IdleExit \/ IdleLeave \/ Drained
           \/ GoOn \/ ReadClock \/ Interrupted \/ Stats \/ DeleteAppend \/ DeleteUnlink
-----------------------------------------------------------------------------
(* fifo, shortestJobFirst and highestPriorityFirst run the whole burst.      *)

BatchTickMutant ==   \* preemptive: chooses again after every tick
  /\ CpuGoto("wait", IF i + 1 < burst[job] THEN "ready" ELSE "exec") /\ timesf # t0
  /\ i' = i + 1 /\ busy' = busy + 1
  /\ CpuOnly /\ UNCHANGED <<finishVars, job, t0, spun, finished, burstLeft, cpuOcioso>>

BatchTick ==
  /\ CpuGoto("wait", "exec") /\ timesf # t0
  /\ i' = i + 1 /\ busy' = busy + 1
  /\ CpuOnly /\ UNCHANGED <<finishVars, job, t0, spun, finished, burstLeft, cpuOcioso>>

BatchVerify ==
  /\ CpuGoto("verify", "stats") /\ stop = 0
  /\ CpuOnly /\ UNCHANGED <<finishVars, localVars, workVars>>

BatchMutant ==   \* stop is tested only where the thread sleeps
  \/ CpuLoop \/ (cpu = "exec" /\ ExecTest(burst[job])) \/ BatchTick
  \/ /\ CpuGoto("ready", "pick") /\ rq # <<>>
     /\ CpuOnly /\ UNCHANGED <<finishVars, localVars, workVars>>
  \/ /\ CpuGoto("verify", "stats")
     /\ CpuOnly /\ UNCHANGED <<finishVars, localVars, workVars>>

Batch == CpuLoop \/ (cpu = "exec" /\ ExecTest(burst[job])) \/ BatchTick \/ BatchVerify

fifoMutant == Algorithm = "FIFO" /\ (Batch \/ Pick({last}))

fifo == Algorithm = "FIFO" /\ (Batch \/ Pick({Head(rq)}))

shortestJobFirst == Algorithm = "SJF" /\ (Batch \/ Pick(getSJF(rq, burst)))

highestPriorityFirst == Algorithm = "HPF" /\ (Batch \/ Pick(getHPF(rq, priority)))
-----------------------------------------------------------------------------
(* roundRobin runs a quantum and counts burstLeft down to exactly 0.         *)

QuantumTick ==
  /\ cpu = "wait" /\ timesf # t0
  /\ i' = i + 1 /\ busy' = busy + 1
  /\ burstLeft' = [burstLeft EXCEPT ![job] = @ - 1]
  /\ IF burstLeft[job] = 1 THEN cpu' = "verify" /\ finished' = TRUE
                           ELSE cpu' = "exec" /\ UNCHANGED finished
  /\ CpuOnly /\ UNCHANGED <<finishVars, job, t0, spun, cpuOcioso>>

QuantumVerifyMutant ==   \* a used-up quantum goes before the end of the job
  /\ cpu = "verify" /\ stop = 0
  /\ cpu' = IF i < Quantum /\ finished THEN "stats" ELSE "rotate"
  /\ CpuOnly /\ UNCHANGED <<finishVars, localVars, workVars>>

QuantumVerify ==
  /\ cpu = "verify" /\ stop = 0
  /\ cpu' = IF finished THEN "stats" ELSE "rotate"
  /\ CpuOnly /\ UNCHANGED <<finishVars, localVars, workVars>>

RotateMutant ==   \* RQ->last stays
  /\ CpuGoto("rotate", "ready")
  /\ rq' = moveFirstToLast(rq)
  /\ UNCHANGED <<clockVars, consoleVars, handlerVars, inputVars, last, arrived,
                 finishVars, localVars, workVars>>

Rotate ==
  /\ CpuGoto("rotate", "ready")
  /\ rq' = moveFirstToLast(rq) /\ last' = Head(rq)
  /\ UNCHANGED <<clockVars, consoleVars, handlerVars, inputVars, arrived,
                 finishVars, localVars, workVars>>

roundRobin ==
  /\ Algorithm = "RR"
  /\ \/ CpuLoop \/ ExecTest(Quantum) \/ QuantumTick \/ QuantumVerify \/ Rotate
     \/ Pick({Head(rq)})
-----------------------------------------------------------------------------
\* A job that insert has queued is in the ready queue until it is finished
\* (insert, delete and moveFirstToLast between them lose no PCB).
NoJobLost == \A j \in Job : phase[j] = "queued" => j \in Range(rq) \cup Range(fq)

(* The model ends with its clock and with the process.  It also ends with    *)
(* the first job lost: that insert has written through a dangling RQ->last   *)
(* into a cell which malloc may have given away, to a PCB being filled or to *)
(* one of FQ, and what the lists are from then on is PcbList's matter.       *)
Ended == (timesf = MaxTime \/ flagRun = 0 \/ ~NoJobLost) /\ UNCHANGED vars

Next == \/ /\ NoJobLost
           /\ \/ start_time_thread \/ window_thread
              \/ \E j \in Job : handle_connection(j)
              \/ fifo \/ shortestJobFirst \/ highestPriorityFirst \/ roundRobin
        \/ Ended

Spec == Init /\ [][Next]_vars
-----------------------------------------------------------------------------
Executing == {"exec", "read", "wait", "verify", "stats", "append", "unlink", "rotate"}

ClockType == timesf \in Nat /\ timer \in {"check", "sleep"}
ConsoleType ==
  /\ stop \in {0, 1} /\ before \in {0, 1} /\ flagRun \in {0, 1}
  /\ console \in {"prompt", "queue", "exit"}
  /\ frozen \in [time : Nat, done : Int, linked : Nat]
HandlerType ==
  /\ phase \in [Job -> {"unsent", "tick", "held", "args", "link", "queued", "closed"}]
  /\ seen \in [Job -> Nat]
InputType ==
  burst \in [Job -> Int] /\ priority \in [Job -> Int] /\ startTime \in [Job -> Nat]
QueueType == rq \in Seq(Job) /\ last \in Job \cup {NULL} /\ arrived \in Seq(Job)
FinishType == fq \in Seq(Job) /\ finishedJobs \in Nat /\ endTime \in [Job -> Nat]
CpuType == cpu \in Executing \cup {"loop", "idle", "spin", "ready", "pick"}
LocalType ==
  job \in Job \cup {NULL} /\ i \in Nat /\ t0 \in Nat /\ spun \in BOOLEAN /\ finished \in BOOLEAN
WorkType == burstLeft \in [Job -> Int] /\ busy \in Nat /\ cpuOcioso \in Nat

\* The types of the variables.
TypeOK == /\ ClockType /\ ConsoleType /\ HandlerType /\ InputType /\ QueueType
          /\ FinishType /\ CpuType /\ LocalType /\ WorkType

\* No job is finished twice, and finishedJobs is the length of FQ's list except
\* between the increment and delete's append, where it is one ahead: under every
\* algorithm, until an insert through a dangling RQ->last may write into FQ's list.
FinishedOnce ==
  /\ \A m, n \in DOMAIN fq : fq[m] = fq[n] => m = n
  /\ finishedJobs = IF cpu = "append" THEN Len(fq) + 1 ELSE Len(fq)

\* The job on the CPU stays at the head of the ready queue while others arrive:
\* fifo and roundRobin use RQ->head again when they delete or move it.
RunningAtHead == cpu \in Executing => rq # <<>> /\ Head(rq) = job

\* FIFO finishes the jobs in the order in which insert linked them, whatever
\* the operator does to stop.
FinishInOrder == IsPrefix(fq, arrived)

\* No time is booked twice: idle seconds and executed ticks together exceed
\* TIMESF by at most one second per job, the one in which the job ended a wait.
TimeAccounted == cpuOcioso + busy <= timesf + Len(fq) + 1

\* While stop is set TIMESF advances at most once more: the timer is inside
\* sleep(1) at most once when the flag is set.
FrozenClock == stop = 1 => timesf <= frozen.time + 1

\* While stop is set the CPU finishes at most the job it had already verified.
FrozenCpu == stop = 1 => Len(fq) <= frozen.done + 1

\* While stop is set every connection inserts at most the one job that had
\* already passed its test of stop.
FrozenQueue == stop = 1 => Len(arrived) <= frozen.linked + Connections

\* A finished job spent at least its burst in the system, so that the waiting
\* time computed for it is not negative.
WaitingTimeOK == \A j \in Range(fq) : endTime[j] - startTime[j] >= burst[j]

\* A job that waits in roundRobin's queue still has burst left to count down:
\* one at 0 or below would never again be seen to finish.  A job that came with
\* a negative burst, such as the client's last one (client.c:196, which nobody
\* refuses), is there from the start.
QueuedHasBurstLeft ==
  cpu \in {"loop", "ready", "pick"} =>
    \A j \in Range(rq) : burst[j] >= 0 => burstLeft[j] > 0

Ahead(queue, j, k) == \E m, n \in DOMAIN queue : m < n /\ queue[m] = j /\ queue[n] = k

\* roundRobin lets a job pass another one only after the other has used up its
\* quantum ("could not finish in the quantum ... goes to the end of the queue").
PassedAfterQuantum ==
  [][\A j, k \in Job :
       Ahead(rq, j, k) /\ Ahead(rq', k, j) => j = job /\ i >= Quantum]_vars

\* "executes it until it finishes": the CPU takes another job only after it has
\* finished the previous one, and what it finishes has had its whole burst.  The
\* code keeps the second part only where stop is left alone: a flag set at line
\* 79 and cleared before line 90 finishes the job early, so that one job per
\* setting of stop, the next to finish, is excepted.
RunsUntilFinished ==
  [][/\ cpu = "pick" /\ job # NULL /\ job' # job => job \in Range(fq)
     /\ \A j \in Range(fq') \ Range(fq) : i >= burst[j] \/ frozen.done = Len(fq)]_vars
=============================================================================
