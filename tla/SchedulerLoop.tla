--------------------------- MODULE SchedulerLoop ---------------------------
(***************************************************************************)
(* The threads of CpuScheduler for ever: without a bound on the clock.     *)
(* Nobody in src/cpuscheduler.h or in handle_connection uses the value of  *)
(* TIMESF to decide anything; a thread only waits until it differs from    *)
(* the value it has read.  That difference is kept ("ticked" for the CPU,  *)
(* "late" for the handlers), the value is not, and with it go the times    *)
(* and counters that are reported and never tested.  CpuScheduler          *)
(* implements this specification (SchedulerRefinement); here it gets the   *)
(* fairness of the threads.  flagRun has no place here: the process that   *)
(* clears it is about to end, and all it does to the others is that a      *)
(* handler may still drop its job.                                         *)
(***************************************************************************)
EXTENDS JobScheduler

CONSTANTS Job, Inputs, Quantum, Connections,
          Algorithms,   \* main starts the thread of one of these
          Operator      \* whether someone types commands

VARIABLES
  algorithm,             \* argv[1]
  timer, stop,           \* start_time_thread's place, the flag
  phase, late,           \* handlers; those whose tempTime is no longer TIMESF
  burst, priority, left, \* fields of the PCBs; left is burstLeft, see Left
  rq, last, fq,          \* the two lists and RQ->last
  cpu, job, i, finished, \* the CPU thread
  ticked                 \* in the wait for a tick: TIMESF # tempTime2

handlerVars == <<phase, late, burst, priority>>
queueVars == <<rq, last>>
cpuVars == <<cpu, job, i, finished, ticked>>
threads == <<timer, stop, handlerVars, left, queueVars, fq, cpuVars>>
vars == <<algorithm, threads>>

\* roundRobin tests burstLeft for 0 after it has decremented it: one that is
\* below 0 stays there (2^31 ticks before the int wraps).
Left(n) == IF n < 0 THEN -1 ELSE n

Init ==
  /\ algorithm \in Algorithms
  /\ timer = "check" /\ stop = 0
  /\ phase = [j \in Job |-> "unsent"] /\ late = {}
  /\ burst = [j \in Job |-> 0] /\ priority = [j \in Job |-> 0] /\ left = [j \in Job |-> 0]
  /\ rq = <<>> /\ last = NULL /\ fq = <<>>
  /\ cpu = "loop" /\ job = NULL /\ i = 0 /\ finished = FALSE /\ ticked = FALSE
-----------------------------------------------------------------------------
\* start_time_thread; a tick is news for everyone who waits.
TimerTestMutant ==   \* ends at a freeze, without a successor
  /\ timer = "check" /\ timer' = IF stop = 0 THEN "sleep" ELSE "ended"
  /\ UNCHANGED <<stop, handlerVars, left, queueVars, fq, cpuVars>>

TimerTest ==
  /\ timer = "check" /\ stop = 0
  /\ timer' = "sleep"
  /\ UNCHANGED <<stop, handlerVars, left, queueVars, fq, cpuVars>>

TimerTick ==
  /\ timer = "sleep" /\ timer' = "check"
  /\ late' = {j \in Job : phase[j] = "tick"} /\ ticked' = (cpu = "wait")
  /\ UNCHANGED <<stop, phase, burst, priority, left, queueVars, fq, cpu, job, i, finished>>

start_time_thread == TimerTest \/ TimerTick

\* window_thread: any command, at any moment.
window_thread ==
  /\ Operator /\ stop' \in {0, 1}
  /\ UNCHANGED <<timer, handlerVars, left, queueVars, fq, cpuVars>>
-----------------------------------------------------------------------------
(* handle_connection, as in CpuScheduler.                                    *)

Serving == {j \in Job : phase[j] \in {"tick", "held", "args", "link"}}

Goto(j, here, there) == phase[j] = here /\ phase' = [phase EXCEPT ![j] = there]

Receive(j) ==
  /\ Cardinality(Serving) < Connections
  /\ Goto(j, "unsent", "tick")
  /\ \E in \in Inputs : /\ burst' = [burst EXCEPT ![j] = in.burst]
                        /\ priority' = [priority EXCEPT ![j] = in.priority]
  /\ UNCHANGED <<timer, stop, late, left, queueVars, fq, cpuVars>>

AwaitTick(j) ==
  /\ j \in late /\ late' = late \ {j}
  /\ \/ Goto(j, "tick", "held") /\ burst[j] # 0 /\ priority[j] # 0
     \/ Goto(j, "tick", "closed") /\ (burst[j] = 0 \/ priority[j] = 0 \/ Operator)
  /\ UNCHANGED <<timer, stop, burst, priority, left, queueVars, fq, cpuVars>>

AwaitGo(j) ==
  /\ stop = 0
  /\ Goto(j, "held", "args")
  /\ UNCHANGED <<timer, stop, late, burst, priority, left, queueVars, fq, cpuVars>>

FillPcb(j) ==
  /\ Goto(j, "args", "link")
  /\ left' = [left EXCEPT ![j] = Left(burst[j])]
  /\ UNCHANGED <<timer, stop, late, burst, priority, queueVars, fq, cpuVars>>

Link(j) ==
  /\ Goto(j, "link", "queued")
  /\ rq' = insert(rq, last, j) /\ last' = j
  /\ UNCHANGED <<timer, stop, late, burst, priority, left, fq, cpuVars>>

Serve(j) == AwaitTick(j) \/ AwaitGo(j) \/ FillPcb(j) \/ Link(j)
-----------------------------------------------------------------------------
(* The CPU thread.  "idle" is the wait for a first job, passes, seconds and  *)
(* all: the loop at line 45 leaves it only when the queue is not empty.      *)

CpuGoto(here, there) == cpu = here /\ cpu' = there

CpuOnly == UNCHANGED <<timer, stop, handlerVars, queueVars>>

Resume == /\ CpuGoto("loop", "idle") /\ stop = 0
          /\ CpuOnly /\ UNCHANGED <<left, fq, job, i, finished, ticked>>

IdleLeave == /\ CpuGoto("idle", "ready") /\ rq # <<>>
             /\ CpuOnly /\ UNCHANGED <<left, fq, job, i, finished, ticked>>

DrainedMutant ==   \* the break of line 66 leaves both loops
  /\ cpu = "ready" /\ (rq = <<>> \/ stop = 1)
  /\ cpu' = IF stop = 1 THEN "ended" ELSE "loop"
  /\ CpuOnly /\ UNCHANGED <<left, fq, job, i, finished, ticked>>

Drained == /\ CpuGoto("ready", "loop") /\ (rq = <<>> \/ stop = 1)
           /\ CpuOnly /\ UNCHANGED <<left, fq, job, i, finished, ticked>>

GoOn == /\ CpuGoto("ready", "pick") /\ rq # <<>> /\ stop = 0
        /\ CpuOnly /\ UNCHANGED <<left, fq, job, i, finished, ticked>>

Candidates == CASE algorithm = "SJF" -> getSJF(rq, burst)
                [] algorithm = "HPF" -> getHPF(rq, priority)
                [] OTHER -> {Head(rq)}

Pick == /\ CpuGoto("pick", "exec")
        /\ job' \in Candidates /\ i' = 0 /\ finished' = FALSE
        /\ CpuOnly /\ UNCHANGED <<left, fq, ticked>>

Limit == IF algorithm = "RR" THEN Quantum ELSE burst[job]

ExecTest == /\ cpu = "exec"
            /\ cpu' = IF i < Limit /\ stop = 0 THEN "read" ELSE "verify"
            /\ CpuOnly /\ UNCHANGED <<left, fq, job, i, finished, ticked>>

ReadClock == /\ CpuGoto("read", "wait")
             /\ ticked' = FALSE
             /\ CpuOnly /\ UNCHANGED <<left, fq, job, i, finished>>

Tick == /\ cpu = "wait" /\ ticked
        /\ i' = i + 1 /\ ticked' = FALSE
        /\ IF algorithm = "RR"
           THEN /\ left' = [left EXCEPT ![job] = Left(@ - 1)]
                /\ finished' = (left[job] = 1)
                /\ cpu' = IF left[job] = 1 THEN "verify" ELSE "exec"
           ELSE cpu' = "exec" /\ UNCHANGED <<left, finished>>
        /\ CpuOnly /\ UNCHANGED <<fq, job>>

Verify == /\ cpu = "verify"
          /\ cpu' = IF stop = 1 THEN "loop"
                    ELSE IF algorithm = "RR" /\ ~finished THEN "rotate" ELSE "stats"
          /\ CpuOnly /\ UNCHANGED <<left, fq, job, i, finished, ticked>>

Stats == /\ CpuGoto("stats", "append")
         /\ CpuOnly /\ UNCHANGED <<left, fq, job, i, finished, ticked>>

DeleteAppend == /\ CpuGoto("append", "unlink")
                /\ fq' = Append(fq, job)
                /\ CpuOnly /\ UNCHANGED <<left, job, i, finished, ticked>>

DeleteUnlink ==
  /\ CpuGoto("unlink", "ready")
  /\ rq' = unlink(rq, job) /\ last' = unlinkedLast(rq, last, job)
  /\ UNCHANGED <<timer, stop, handlerVars, left, fq, job, i, finished, ticked>>

RotateMutant ==   \* the job keeps its place
  /\ CpuGoto("rotate", "ready")
  /\ UNCHANGED <<timer, stop, handlerVars, left, queueVars, fq, job, i, finished, ticked>>

Rotate ==
  /\ CpuGoto("rotate", "ready")
  /\ rq' = moveFirstToLast(rq) /\ last' = Head(rq)
  /\ UNCHANGED <<timer, stop, handlerVars, left, fq, job, i, finished, ticked>>

CpuMutant ==   \* tests stop only where it waits for a first job or for a tick
  \/ Resume \/ IdleLeave \/ Pick \/ ExecTest \/ ReadClock \/ Tick
  \/ Stats \/ DeleteAppend \/ DeleteUnlink \/ Rotate
  \/ /\ cpu = "ready" /\ cpu' = IF rq = <<>> THEN "loop" ELSE "pick"
     /\ CpuOnly /\ UNCHANGED <<left, fq, job, i, finished, ticked>>
  \/ /\ cpu = "verify"
     /\ cpu' = IF algorithm = "RR" /\ ~finished THEN "rotate" ELSE "stats"
     /\ CpuOnly /\ UNCHANGED <<left, fq, job, i, finished, ticked>>

Cpu == \/ Resume \/ IdleLeave \/ Drained \/ GoOn \/ Pick \/ ExecTest \/ ReadClock \/ Tick
       \/ Verify \/ Stats \/ DeleteAppend \/ DeleteUnlink \/ Rotate
-----------------------------------------------------------------------------
\* As in CpuScheduler, the lists end with the first insert through a dangling
\* RQ->last; fifo and roundRobin never leave one behind (NoJobLost).
Intact == \A j \in Job : phase[j] = "queued" => j \in Range(rq) \cup Range(fq)

Next == /\ Intact
        /\ \/ start_time_thread \/ window_thread \/ Cpu
           \/ \E j \in Job : Receive(j) \/ Serve(j)
        /\ UNCHANGED algorithm

Spec == Init /\ [][Next]_vars

(* Every thread of the process goes on when it can: the operating system     *)
(* schedules them all, each wait is a loop that polls.  A condition that     *)
(* comes and goes may be missed by every poll, so that no fairness is strong.*)
(* Clients and operator owe nothing.                                         *)
Fairness == /\ WF_threads(Intact /\ start_time_thread)
            /\ WF_threads(Intact /\ Cpu)
            /\ \A j \in Job : WF_threads(Intact /\ Serve(j))

FairSpec == Spec /\ Fairness
-----------------------------------------------------------------------------
\* Liveness.  An operator may disturb for a while, but stop stays 0 in the end.
Undisturbed == <>[](stop = 0)

Unfinished == {j \in Job : phase[j] = "queued" /\ j \notin Range(fq)}

\* Jobs that insert has queued are finished in the end, all that there are: under
\* FIFO whatever the operator did before, so that a freeze wedges neither clock,
\* nor CPU, nor a wait; under round robin, with a positive quantum, if nobody ever
\* sets stop, all those with a positive burst, though jobs with a negative one
\* (client.c:196) go round for ever.  SJF and HPF owe it to none: sjf_lost.
EveryJobFinishes ==
  /\ algorithm = "FIFO" /\ Undisturbed => (Unfinished # {} ~> Unfinished = {})
  /\ algorithm = "RR" /\ Quantum > 0 /\ [](stop = 0) =>
       ({j \in Unfinished : burst[j] > 0} # {} ~> {j \in Unfinished : burst[j] > 0} = {})

\* A job that the CPU can see in the ready queue gets its next turn in the end
\* ("has to wait for its next chance to continue executing"), also behind jobs
\* that a freeze has made immortal, and when a freeze makes the thread choose
\* again.
TurnComes ==
  Undisturbed => \A j \in Job :
    j \in Range(rq) ~> (cpu = "exec" /\ job = j) \/ j \notin Range(rq)

\* Handlers get rid of the jobs they have received, by insert or by a refusal: no
\* wait of handle_connection misses its tick or the end of a freeze.
EveryJobIsAdmitted == Undisturbed => (Serving # {} ~> Serving = {})

\* A freeze that lasts takes hold: in the end the CPU thread stays in its wait
\* for stop, for a job or for a tick, and no handler is about to insert.
FreezeTakesHold ==
  <>[](stop = 1) => <>[](/\ cpu \in {"loop", "idle", "wait"}
                         /\ \A j \in Job : phase[j] \notin {"args", "link"})
=============================================================================
