-------------------------- MODULE RefinementProofs --------------------------
(***************************************************************************)
(* CpuScheduler implements the specifications of SchedulerRefinement.      *)
(***************************************************************************)
EXTENDS SchedulerRefinement, QueueProofs

-----------------------------------------------------------------------------
(* The queue of jobs, under fifo and roundRobin.  "Waiting" of QueueProofs   *)
(* is what stands for the abstract ready queue.                              *)

Queued == {j \in Job : phase[j] = "queued"}

LEMMA QueueInitMaps == Init => Queue!Init
<1> SUFFICES ASSUME Init
             PROVE  Queue!Init
  OBVIOUS
<1>1. {j \in Job : phase[j] = "queued"} = {}
  BY DEF Init
<1>2. (IF cpu = "unlink" THEN Tail(rq) ELSE rq) = <<>> /\ fq = <<>>
  BY DEF Init
<1> QED  BY <1>1, <1>2 DEF Queue!Init

LEMMA QueueStutters ==
  ASSUME Queued' = Queued, Waiting' = Waiting, fq' = fq
  PROVE  UNCHANGED Queue!queues
BY DEF Queue!queues, Queued, Waiting

LEMMA QueueStepMaps ==
  HeadOnly /\ TypeInv /\ QueueInv /\ [Next]_vars => [Queue!Next]_(Queue!queues)
<1> SUFFICES ASSUME HeadOnly, TypeInv, QueueInv, [Next]_vars
             PROVE  [Queue!Next]_(Queue!queues)
  OBVIOUS
<1>1. /\ rq \in Seq(Job) /\ fq \in Seq(Job)
      /\ before \in {0, 1}
      /\ HandlerType
      /\ cpu = "pick" => rq # <<>>
      /\ cpu \in Executing => rq # <<>> /\ job = Head(rq)
  BY DEF TypeInv, TypeOK, FinishType, QueueType, ConsoleType, QueueNotEmpty, JobAssigned,
     QueueInv, RunningAtHead
<1>2. ASSUME UNCHANGED <<rq, fq, phase, cpu>>
      PROVE  UNCHANGED Queue!queues
  BY <1>2, QueueStutters DEF Queued, Waiting
<1>3. CASE start_time_thread
  BY <1>2, <1>3, TimerFrame DEF queueVars, finishVars, handlerVars
<1>4. CASE window_thread
  <2>1. PICK value \in {0, 1} : SetStop(value)
    BY <1>1, <1>4, ConsoleFrame
  <2> QED  BY <1>2, <2>1 DEF SetStop, queueVars, finishVars, handlerVars
<1>5. ASSUME NEW j \in Job, handle_connection(j)
      PROVE  [Queue!Next]_(Queue!queues)
  <2>1. UNCHANGED <<fq, cpu>>
    BY <1>5, HandlerFrame DEF finishVars
  <2>2. CASE Link(j)
    <3>1. phase[j] = "link" /\ phase' = [phase EXCEPT ![j] = "queued"]
      BY <2>2 DEF Link, Goto
    <3>2. j \notin Queued /\ Queued' = Queued \cup {j}
      BY <1>1, <3>1 DEF Queued, HandlerType
    <3>3. rq' = Append(rq, j)
      BY <1>1, <2>2, InsertAppends DEF Link, QueueInv
    <3>4. Waiting' = Append(Waiting, j)
      <4>1. CASE cpu = "unlink"
        BY <1>1, <2>1, <3>3, <4>1, HeadTailAppend DEF Waiting, Executing
      <4>2. CASE cpu # "unlink"
        BY <2>1, <3>3, <4>2 DEF Waiting
      <4> QED  BY <4>1, <4>2
    <3>5. Queue!Insert
      BY <2>1, <3>2, <3>4 DEF Queue!Insert, Queued, Waiting
    <3> QED  BY <3>5 DEF Queue!Next
  <2>3. CASE Receive(j) \/ AwaitTick(j) \/ AwaitGo(j) \/ FillPcb(j)
    <3>1. UNCHANGED rq
      BY <2>3 DEF Receive, AwaitTick, AwaitGo, FillPcb, queueVars
    <3>2. \E there \in {"tick", "held", "closed", "args", "link"} :
             phase[j] # "queued" /\ phase' = [phase EXCEPT ![j] = there]
      BY <2>3 DEF Receive, AwaitTick, AwaitGo, FillPcb, Goto
    <3>3. Queued' = Queued
      BY <1>1, <3>2 DEF Queued, HandlerType
    <3> QED  BY <2>1, <3>1, <3>3, QueueStutters DEF Waiting
  <2> QED  BY <1>5, <2>2, <2>3 DEF handle_connection
<1>6. CASE CpuStep
  <2>1. UNCHANGED phase
    BY <1>1, <1>6, CpuFrame DEF handlerVars
  <2>2. ASSUME UNCHANGED <<rq, fq>>, cpu # "unlink", cpu' # "unlink"
        PROVE  UNCHANGED Queue!queues
    BY <2>1, <2>2, QueueStutters DEF Queued, Waiting
  <2> USE DEF CpuGoto, CpuOnly, queueVars, finishVars
  <2>3. CASE \/ Resume \/ IdleLeave \/ Drained \/ GoOn \/ Interrupted \/ BatchVerify \/ QuantumVerify
             \/ \E limit : ExecTest(limit)
    BY <2>2, <2>3 DEF Resume, IdleLeave, Drained, GoOn, Interrupted, BatchVerify, QuantumVerify, ExecTest
  <2>4. CASE \/ IdleEnter \/ IdleSpin \/ ReadClock \/ IdleExit
             \/ \E candidates \in SUBSET Job : Pick(candidates)
    BY <2>2, <2>4 DEF IdleEnter, IdleSpin, ReadClock, IdleExit, Pick
  <2>5. CASE Stats \/ BatchTick \/ QuantumTick
    BY <2>2, <2>5 DEF Stats, BatchTick, QuantumTick
  <2>6. CASE DeleteAppend
    <3>1. /\ rq # <<>> /\ rq' = rq /\ fq' = Append(fq, Head(rq))
          /\ Waiting = rq /\ Waiting' = Tail(rq)
      BY <1>1, <2>6 DEF DeleteAppend, Executing, Waiting
    <3>2. Queue!Finish
      BY <2>1, <3>1 DEF Queue!Finish, Waiting
    <3> QED  BY <3>2 DEF Queue!Next
  <2>7. CASE DeleteUnlink
    <3>1. rq # <<>> /\ job = Head(rq) /\ cpu = "unlink" /\ cpu' = "ready" /\ UNCHANGED fq
      BY <1>1, <2>7 DEF DeleteUnlink, Executing
    <3>2. rq' = Tail(rq)
      BY <1>1, <2>7, <3>1, UnlinkHead DEF DeleteUnlink, QueueInv
    <3> QED  BY <2>1, <3>1, <3>2, QueueStutters DEF Queued, Waiting
  <2>8. CASE Rotate /\ Algorithm = "RR"
    <3>1. /\ rq # <<>> /\ rq' = Append(Tail(rq), Head(rq)) /\ UNCHANGED fq
          /\ Waiting = rq /\ Waiting' = rq'
      BY <1>1, <2>8 DEF Rotate, moveFirstToLast, Executing, Waiting
    <3>2. Queue!MoveFirstToLast
      BY <2>1, <2>8, <3>1 DEF Queue!MoveFirstToLast, Waiting
    <3> QED  BY <3>2 DEF Queue!Next
  <2> QED  BY <1>1, <1>6, <2>3, <2>4, <2>5, <2>6, <2>7, <2>8, CpuCases
<1>7. CASE UNCHANGED vars
  BY <1>2, <1>7 DEF vars, queueVars, finishVars, handlerVars
<1> QED  BY <1>3, <1>4, <1>5, <1>6, <1>7 DEF Next, Ended, CpuStep

(* Under fifo and roundRobin the threads implement the queue of jobs         *)
(* (jobscheduler.h:34-127, cpuscheduler.h:66-109 and 379-444): every job     *)
(* that insert links enters at the end once, the first one is finished or,   *)
(* by roundRobin only, sent back to the end, whatever the operator does.     *)
THEOREM ImplementsQueueHolds == ASSUME HeadOnly PROVE Spec => ImplementsQueue
<1>1. Init => Queue!Init
  BY QueueInitMaps
<1>2. TypeInv /\ QueueInv /\ [Next]_vars => [Queue!Next]_(Queue!queues)
  BY QueueStepMaps
<1> QED  BY <1>1, <1>2, AlwaysTypeInv, AlwaysQueueInv, PTL DEF Spec, ImplementsQueue, Queue!Spec

-----------------------------------------------------------------------------
(* The loop without the clock's value: what the threads do next never        *)
(* depends on the value of TIMESF, only on whether it has moved.             *)

(* What stands for the variables of SchedulerLoop that CpuScheduler has not. *)

LoopCpu == IF cpu = "spin" THEN "idle" ELSE cpu
Ticked == cpu = "wait" /\ timesf # t0
Late == {j \in Job : phase[j] = "tick" /\ timesf # seen[j]}
LoopLeft == [j \in Job |-> IF burstLeft[j] < 0 THEN -1 ELSE burstLeft[j]]

(* Nobody has read a time that is still to come: a tick makes TIMESF differ  *)
(* from all that was read before.  And the flag finished is raised only at   *)
(* the end of a quantum's loop; a listing goes on, and the flag of the       *)
(* process is down, only if that was asked for.                              *)

ClockRead == t0 <= timesf /\ \A j \in Job : seen[j] <= timesf
FlagLowered == cpu \in {"exec", "read", "wait"} => finished = FALSE
Asked == console = "queue" \/ flagRun = 0 => Commands # {}

LoopInv == ClockRead /\ FlagLowered /\ Asked

LEMMA LoopInvStep == TypeInv /\ LoopInv /\ [Next]_vars => LoopInv'
<1> SUFFICES ASSUME TypeInv, LoopInv, [Next]_vars
             PROVE  LoopInv'
  OBVIOUS
<1>1. /\ timesf \in Nat /\ t0 \in Nat /\ seen \in [Job -> Nat] /\ rq \in Seq(Job)
      /\ before \in {0, 1} /\ (cpu = "pick" => rq # <<>>)
  BY DEF TypeInv, TypeOK, ClockType, LocalType, HandlerType, QueueType, ConsoleType, QueueNotEmpty
<1> USE DEF clockVars, consoleVars, handlerVars, localVars
<1>2. CASE start_time_thread
  <2>1. UNCHANGED <<t0, seen, cpu, finished, console, flagRun>>
    BY <1>2, TimerFrame
  <2>2. timesf' \in Nat /\ timesf <= timesf'
    BY <1>1, <1>2 DEF start_time_thread, TimerTest, TimerTick
  <2> QED  BY <1>1, <2>1, <2>2 DEF LoopInv, ClockRead, FlagLowered, Asked
<1>3. CASE window_thread
  <2>1. UNCHANGED <<t0, seen, timesf, cpu, finished>>
    BY <1>1, <1>3, ConsoleFrame DEF SetStop
  <2>2. Asked'
    BY <1>3 DEF window_thread, Freeze, Unfreeze, QueueBegin, QueueEnd, ExitCommand, LoopInv, Asked
  <2> QED  BY <2>1, <2>2 DEF LoopInv, ClockRead, FlagLowered
<1>4. ASSUME NEW j \in Job, handle_connection(j)
      PROVE  LoopInv'
  <2>1. UNCHANGED <<t0, timesf, cpu, finished, console, flagRun>>
    BY <1>4, HandlerFrame
  <2>2. UNCHANGED seen \/ seen' = [seen EXCEPT ![j] = timesf]
    BY <1>4 DEF handle_connection, Receive, AwaitTick, AwaitGo, FillPcb, Link, Goto
  <2>3. \A k \in Job : seen'[k] <= timesf'
    BY <1>1, <2>1, <2>2 DEF LoopInv, ClockRead
  <2> QED  BY <2>1, <2>3 DEF LoopInv, ClockRead, FlagLowered, Asked
<1>5. CASE CpuStep
  <2>1. UNCHANGED <<timesf, seen, console, flagRun>>
    BY <1>1, <1>5, CpuFrame
  <2>2. t0' = t0 \/ t0' = timesf
    BY <1>1, <1>5, CpuCases
    DEF Resume, IdleLeave, Drained, GoOn, Interrupted, BatchVerify, QuantumVerify, ExecTest,
        IdleEnter, IdleSpin, ReadClock, IdleExit, Pick, Stats, DeleteAppend, DeleteUnlink, Rotate,
        BatchTick, QuantumTick
  <2>3. FlagLowered'
    BY <1>1, <1>5, CpuCases
    DEF Resume, IdleLeave, Drained, GoOn, Interrupted, BatchVerify, QuantumVerify, ExecTest,
        IdleEnter, IdleSpin, ReadClock, IdleExit, Pick, Stats, DeleteAppend, DeleteUnlink, Rotate,
        BatchTick, QuantumTick, CpuGoto, LoopInv, FlagLowered
  <2> QED  BY <1>1, <2>1, <2>2, <2>3 DEF LoopInv, ClockRead, Asked
<1>6. CASE UNCHANGED vars
  BY <1>6 DEF vars, LoopInv, ClockRead, FlagLowered, Asked
<1> QED  BY <1>2, <1>3, <1>4, <1>5, <1>6 DEF Next, Ended, CpuStep

LEMMA AlwaysLoopInv == Spec => []LoopInv
<1>1. Init => LoopInv
  BY DEF Init, LoopInv, ClockRead, FlagLowered, Asked
<1> QED  BY <1>1, LoopInvStep, AlwaysTypeInv, PTL DEF Spec

-----------------------------------------------------------------------------
(* The steps, thread by thread.                                              *)

LEMMA LoopStutters ==
  ASSUME UNCHANGED <<timer, stop, phase, burst, priority, rq, last, fq, job, i, finished>>,
         LoopCpu' = LoopCpu, Ticked' = Ticked, Late' = Late, LoopLeft' = LoopLeft
  PROVE  UNCHANGED Loop!vars
BY DEF Loop!vars, Loop!threads, Loop!handlerVars, Loop!queueVars, Loop!cpuVars,
       LoopCpu, Ticked, Late, LoopLeft

LEMMA LoopInitMaps == Init => Loop!Init
<1> SUFFICES ASSUME Init PROVE Loop!Init
  OBVIOUS
<1>1. LoopCpu = "loop" /\ Ticked = FALSE /\ Late = {} /\ LoopLeft = [j \in Job |-> 0]
  BY DEF Init, LoopCpu, Ticked, Late, LoopLeft
<1> QED  BY <1>1 DEF Init, Loop!Init, LoopCpu, Ticked, Late, LoopLeft

LEMMA LoopTimer ==
  ASSUME TypeInv, LoopInv, start_time_thread
  PROVE  Loop!start_time_thread
<1>1. UNCHANGED <<stop, phase, seen, burst, priority, rq, last, fq, cpu, job, i, t0, finished, burstLeft>>
  BY TimerFrame DEF consoleVars, handlerVars, inputVars, queueVars, finishVars, localVars, workVars
<1>2. UNCHANGED <<LoopCpu, LoopLeft>>
  BY <1>1 DEF LoopCpu, LoopLeft
<1>3. CASE TimerTest
  <2>1. timer = "check" /\ stop = 0 /\ timer' = "sleep" /\ timesf' = timesf
    BY <1>3 DEF TimerTest
  <2>2. UNCHANGED <<Late, Ticked>>
    BY <1>1, <2>1 DEF Late, Ticked
  <2>3. Loop!TimerTest
    BY <1>1, <1>2, <2>1, <2>2
    DEF Loop!TimerTest, Loop!handlerVars, Loop!queueVars, Loop!cpuVars, LoopCpu, Ticked, Late, LoopLeft
  <2> QED  BY <2>3 DEF Loop!start_time_thread
<1>4. CASE TimerTick
  <2>1. timer = "sleep" /\ timer' = "check" /\ timesf' = timesf + 1
    BY <1>4 DEF TimerTick
  <2>2. timesf \in Nat /\ t0 \in Nat /\ seen \in [Job -> Nat]
    BY DEF TypeInv, TypeOK, ClockType, LocalType, HandlerType
  <2>3. Late' = {j \in Job : phase[j] = "tick"}
    BY <1>1, <2>1, <2>2 DEF Late, LoopInv, ClockRead
  <2>4. Ticked' = (cpu = "wait") /\ (LoopCpu = "wait") = (cpu = "wait")
    BY <1>1, <2>1, <2>2 DEF Ticked, LoopCpu, LoopInv, ClockRead
  <2>5. Loop!TimerTick
    BY <1>1, <1>2, <2>1, <2>3, <2>4
    DEF Loop!TimerTick, Loop!queueVars, LoopCpu, Ticked, Late, LoopLeft
  <2> QED  BY <2>5 DEF Loop!start_time_thread
<1> QED  BY <1>3, <1>4 DEF start_time_thread

LEMMA LoopConsole ==
  ASSUME TypeInv, LoopInv, window_thread
  PROVE  Loop!window_thread
<1>1. stop' \in {0, 1} /\ UNCHANGED <<timesf, timer, phase, seen, burst, priority, rq, last, fq, cpu, job, i, t0, finished, burstLeft>>
  BY ConsoleFrame
  DEF SetStop, clockVars, handlerVars, inputVars, queueVars, finishVars, localVars, workVars
<1>2. UNCHANGED <<LoopCpu, LoopLeft, Late, Ticked>>
  BY <1>1 DEF LoopCpu, LoopLeft, Late, Ticked
<1>3. Commands # {}
  BY DEF window_thread, Freeze, Unfreeze, QueueBegin, QueueEnd, ExitCommand, LoopInv, Asked
<1> QED  BY <1>1, <1>2, <1>3
         DEF Loop!window_thread, Loop!handlerVars, Loop!queueVars, Loop!cpuVars,
             LoopCpu, Ticked, Late, LoopLeft

LEMMA LoopHandler ==
  ASSUME TypeInv, LoopInv, NEW j \in Job, handle_connection(j)
  PROVE  Loop!Receive(j) \/ Loop!Serve(j)
<1>1. UNCHANGED <<timesf, timer, stop, fq, cpu, job, i, t0, finished>>
  BY HandlerFrame DEF clockVars, consoleVars, finishVars, localVars
<1>2. /\ phase \in [Job -> {"unsent", "tick", "held", "args", "link", "queued", "closed"}]
      /\ burst \in [Job -> Int] /\ priority \in [Job -> Int]
      /\ burstLeft \in [Job -> Int] /\ seen \in [Job -> Nat] /\ timesf \in Nat
  BY DEF TypeInv, TypeOK, HandlerType, InputType, WorkType, ClockType
<1>3. UNCHANGED <<LoopCpu, Ticked>>
  BY <1>1 DEF LoopCpu, Ticked
<1>4. burstLeft' = burstLeft => LoopLeft' = LoopLeft
  BY DEF LoopLeft
<1> USE DEF handlerVars, inputVars, queueVars, workVars, Goto
<1>5. CASE Receive(j)
  <2>1. Late' = Late
    BY <1>1, <1>2, <1>5 DEF Receive, Late
  <2>2. Loop!Cardinality(Loop!Serving) < Connections /\ Loop!Goto(j, "unsent", "tick")
    BY <1>5 DEF Receive, Serving, Loop!Serving, Loop!Goto, Cardinality, Loop!Cardinality
  <2>3. \E in \in Inputs : /\ burst' = [burst EXCEPT ![j] = in.burst]
                            /\ priority' = [priority EXCEPT ![j] = in.priority]
    BY <1>5 DEF Receive
  <2>4. UNCHANGED <<timer, stop, Late, LoopLeft, Loop!queueVars, fq, Loop!cpuVars>>
    BY <1>1, <1>3, <1>4, <1>5, <2>1 DEF Receive, Loop!queueVars, Loop!cpuVars, LoopCpu, Ticked
  <2>5. Loop!Receive(j)
    BY <2>2, <2>3, <2>4 DEF Loop!Receive, Late, LoopLeft
  <2> QED  BY <2>5
<1>6. CASE AwaitTick(j)
  <2>1. j \in Late /\ Late' = Late \ {j}
    BY <1>1, <1>2, <1>6 DEF AwaitTick, Late
  <2>2. \/ Loop!Goto(j, "tick", "held") /\ burst[j] # 0 /\ priority[j] # 0
        \/ /\ Loop!Goto(j, "tick", "closed")
           /\ burst[j] = 0 \/ priority[j] = 0 \/ Commands # {}
    BY <1>6 DEF AwaitTick, Loop!Goto, LoopInv, Asked
  <2>3. Loop!AwaitTick(j)
    BY <1>1, <1>3, <1>4, <1>6, <2>1, <2>2
    DEF AwaitTick, Loop!AwaitTick, Loop!Goto, Loop!queueVars, Loop!cpuVars, LoopCpu, Ticked, Late, LoopLeft
  <2> QED  BY <2>3 DEF Loop!Serve
<1>7. CASE AwaitGo(j)
  <2>1. Late' = Late
    BY <1>1, <1>2, <1>7 DEF AwaitGo, Late
  <2>2. Loop!AwaitGo(j)
    BY <1>1, <1>3, <1>4, <1>7, <2>1
    DEF AwaitGo, Loop!AwaitGo, Loop!Goto, Loop!queueVars, Loop!cpuVars, LoopCpu, Ticked, Late, LoopLeft
  <2> QED  BY <2>2 DEF Loop!Serve
<1>8. CASE FillPcb(j)
  <2>1. Late' = Late
    BY <1>1, <1>2, <1>8 DEF FillPcb, Late
  <2>2. LoopLeft' = [LoopLeft EXCEPT ![j] = Loop!Left(burst[j])]
    BY <1>2, <1>8 DEF FillPcb, LoopLeft, Loop!Left
  <2>3. Loop!FillPcb(j)
    BY <1>1, <1>3, <1>8, <2>1, <2>2
    DEF FillPcb, Loop!FillPcb, Loop!Goto, Loop!queueVars, Loop!cpuVars, LoopCpu, Ticked, Late, LoopLeft
  <2> QED  BY <2>3 DEF Loop!Serve
<1>9. CASE Link(j)
  <2>1. Late' = Late
    BY <1>1, <1>2, <1>9 DEF Link, Late
  <2>2. Loop!insert(rq, last, j) = insert(rq, last, j)
    BY DEF insert, Loop!insert
  <2>3. Loop!Link(j)
    BY <1>1, <1>3, <1>4, <1>9, <2>1, <2>2
    DEF Link, Loop!Link, Loop!Goto, Loop!queueVars, Loop!cpuVars, LoopCpu, Ticked, Late, LoopLeft
  <2> QED  BY <2>3 DEF Loop!Serve
<1> QED  BY <1>5, <1>6, <1>7, <1>8, <1>9 DEF handle_connection

\* The jobs that each algorithm may take.
LEMMA LoopCandidates ==
  ASSUME NEW candidates,
         \/ Algorithm \in {"FIFO", "RR"} /\ candidates = {Head(rq)}
         \/ Algorithm = "SJF" /\ candidates = getSJF(rq, burst)
         \/ Algorithm = "HPF" /\ candidates = getHPF(rq, priority)
  PROVE  candidates = Loop!Candidates
<1>1. getSJF(rq, burst) = Loop!getSJF(rq, burst) /\ getHPF(rq, priority) = Loop!getHPF(rq, priority)
  BY DEF getSJF, getHPF, EarliestLeast, Loop!getSJF, Loop!getHPF, Loop!EarliestLeast
<1> QED  BY <1>1 DEF Loop!Candidates

LEMMA LoopCpuStep ==
  ASSUME TypeInv, LoopInv, CpuStep
  PROVE  Loop!Cpu \/ UNCHANGED Loop!vars
<1>1. /\ rq \in Seq(Job) /\ (cpu = "pick" => rq # <<>>) /\ (cpu \in Executing => job \in Job)
      /\ burstLeft \in [Job -> Int]
  BY DEF TypeInv, TypeOK, QueueType, QueueNotEmpty, JobAssigned, WorkType
<1>2. UNCHANGED <<timesf, timer, stop, phase, seen, burst, priority, Late>>
  BY <1>1, CpuFrame DEF clockVars, consoleVars, handlerVars, inputVars, Late
<1>3. burstLeft' = burstLeft => LoopLeft' = LoopLeft
  BY DEF LoopLeft
<1>4. UNCHANGED <<rq, last>> => Loop!CpuOnly
  BY <1>2 DEF Loop!CpuOnly, Loop!handlerVars, Loop!queueVars, Late
<1> USE DEF queueVars, finishVars, localVars, workVars, CpuGoto, CpuOnly, Loop!CpuGoto
<1>5. CASE IdleEnter \/ IdleSpin \/ IdleExit
  <2>1. /\ UNCHANGED <<rq, last, fq, job, i, finished, LoopLeft, LoopCpu, Ticked>>
    BY <1>3, <1>5 DEF IdleEnter, IdleSpin, IdleExit, LoopCpu, Ticked
  <2> QED  BY <1>2, <2>1, LoopStutters
<1>6. CASE Resume
  BY <1>2, <1>3, <1>4, <1>6 DEF Resume, Loop!Resume, Loop!Cpu, LoopCpu, Ticked, LoopLeft
<1>7. CASE IdleLeave
  BY <1>2, <1>3, <1>4, <1>7 DEF IdleLeave, Loop!IdleLeave, Loop!Cpu, LoopCpu, Ticked, LoopLeft
<1>8. CASE Drained
  BY <1>2, <1>3, <1>4, <1>8 DEF Drained, Loop!Drained, Loop!Cpu, LoopCpu, Ticked, LoopLeft
<1>9. CASE GoOn
  BY <1>2, <1>3, <1>4, <1>9 DEF GoOn, Loop!GoOn, Loop!Cpu, LoopCpu, Ticked, LoopLeft
<1>10. CASE ReadClock
  BY <1>2, <1>3, <1>4, <1>10 DEF ReadClock, Loop!ReadClock, Loop!Cpu, LoopCpu, Ticked, LoopLeft
<1>11. CASE Interrupted
  BY <1>2, <1>3, <1>4, <1>11 DEF Interrupted, Loop!Verify, Loop!Cpu, LoopCpu, Ticked, LoopLeft
<1>12. CASE Stats
  BY <1>2, <1>3, <1>4, <1>12 DEF Stats, Loop!Stats, Loop!Cpu, LoopCpu, Ticked, LoopLeft
<1>13. CASE DeleteAppend
  BY <1>2, <1>3, <1>4, <1>13 DEF DeleteAppend, Loop!DeleteAppend, Loop!Cpu, LoopCpu, Ticked, LoopLeft
<1>14. CASE DeleteUnlink
  <2>1. unlink(rq, job) = Loop!unlink(rq, job) /\ unlinkedLast(rq, last, job) = Loop!unlinkedLast(rq, last, job)
    BY DEF unlink, unlinkedLast, Position, Range, RemoveAt,
       Loop!unlink, Loop!unlinkedLast, Loop!Position, Loop!Range, Loop!RemoveAt
  <2> QED  BY <1>2, <1>3, <1>14, <2>1
           DEF DeleteUnlink, Loop!DeleteUnlink, Loop!handlerVars, Loop!Cpu, LoopCpu, Ticked, LoopLeft, Late
<1>15. CASE Rotate
  BY <1>2, <1>3, <1>15
  DEF Rotate, moveFirstToLast, Loop!Rotate, Loop!moveFirstToLast, Loop!handlerVars, Loop!Cpu,
      LoopCpu, Ticked, LoopLeft, Late
<1>16. ASSUME NEW limit, ExecTest(limit), limit = Loop!Limit
       PROVE  Loop!Cpu
  BY <1>2, <1>3, <1>4, <1>16 DEF ExecTest, Loop!ExecTest, Loop!Cpu, LoopCpu, Ticked, LoopLeft
<1>17. ASSUME NEW candidates, Pick(candidates), candidates = Loop!Candidates
       PROVE  Loop!Cpu
  BY <1>2, <1>3, <1>4, <1>17 DEF Pick, Loop!Pick, Loop!Cpu, LoopCpu, Ticked, LoopLeft
<1>18. CASE BatchTick /\ Algorithm # "RR"
  BY <1>2, <1>3, <1>4, <1>18 DEF BatchTick, Loop!Tick, Loop!Cpu, LoopCpu, Ticked, LoopLeft
<1>19. CASE BatchVerify /\ Algorithm # "RR"
  BY <1>2, <1>3, <1>4, <1>19 DEF BatchVerify, Loop!Verify, Loop!Cpu, LoopCpu, Ticked, LoopLeft
<1>20. CASE QuantumVerify /\ Algorithm = "RR"
  BY <1>2, <1>3, <1>4, <1>20 DEF QuantumVerify, Loop!Verify, Loop!Cpu, LoopCpu, Ticked, LoopLeft
<1>21. CASE QuantumTick /\ Algorithm = "RR"
  <2>1. cpu = "wait" /\ job \in Job /\ finished = FALSE
    BY <1>1, <1>21 DEF QuantumTick, Executing, LoopInv, FlagLowered
  <2>2. burstLeft' = [burstLeft EXCEPT ![job] = @ - 1]
    BY <1>21 DEF QuantumTick
  <2>3. LoopLeft' = [LoopLeft EXCEPT ![job] = Loop!Left(@ - 1)]
    <3>1. /\ LoopLeft[job] = IF burstLeft[job] < 0 THEN -1 ELSE burstLeft[job]
          /\ burstLeft[job] \in Int /\ burstLeft'[job] = burstLeft[job] - 1
      BY <1>1, <2>1, <2>2 DEF LoopLeft
    <3>2. Loop!Left(LoopLeft[job] - 1) = IF burstLeft'[job] < 0 THEN -1 ELSE burstLeft'[job]
      BY <3>1 DEF Loop!Left
    <3>3. \A j \in Job \ {job} : burstLeft'[j] = burstLeft[j]
      BY <1>1, <2>2
    <3> QED  BY <2>1, <3>2, <3>3 DEF LoopLeft
  <2>4. (LoopLeft[job] = 1) = (burstLeft[job] = 1)
    BY <1>1, <2>1 DEF LoopLeft
  <2>5. UNCHANGED <<rq, last, fq, job>> /\ i' = i + 1 /\ timesf # t0
    BY <1>21 DEF QuantumTick
  <2>6. CASE burstLeft[job] = 1
    BY <1>2, <1>4, <1>21, <2>1, <2>3, <2>4, <2>5, <2>6
    DEF QuantumTick, Loop!Tick, Loop!Cpu, LoopCpu, Ticked, LoopLeft
  <2>7. CASE burstLeft[job] # 1
    BY <1>2, <1>4, <1>21, <2>1, <2>3, <2>4, <2>5, <2>7
    DEF QuantumTick, Loop!Tick, Loop!Cpu, LoopCpu, Ticked, LoopLeft
  <2> QED  BY <2>6, <2>7
<1>22. CASE CpuLoop
  BY <1>5, <1>6, <1>7, <1>8, <1>9, <1>10, <1>11, <1>12, <1>13, <1>14, <1>22 DEF CpuLoop
<1>23. CASE Batch /\ Algorithm # "RR"
  <2>1. Loop!Limit = burst[job]
    BY <1>23 DEF Loop!Limit
  <2> QED  BY <1>16, <1>18, <1>19, <1>22, <1>23, <2>1 DEF Batch
<1>24. CASE fifo
  BY <1>17, <1>23, <1>24, LoopCandidates DEF fifo
<1>25. CASE shortestJobFirst
  BY <1>17, <1>23, <1>25, LoopCandidates DEF shortestJobFirst
<1>26. CASE highestPriorityFirst
  BY <1>17, <1>23, <1>26, LoopCandidates DEF highestPriorityFirst
<1>27. CASE roundRobin
  <2>1. Loop!Limit = Quantum
    BY <1>27 DEF roundRobin, Loop!Limit
  <2> QED  BY <1>15, <1>16, <1>17, <1>20, <1>21, <1>22, <1>27, <2>1, LoopCandidates DEF roundRobin
<1> QED  BY <1>24, <1>25, <1>26, <1>27 DEF CpuStep

\* The threads with their clock (cpuscheduler.h, server.c:112-359) implement the
\* loops without its value, under all four algorithms, any commands and inputs:
\* what is shown live on the loops is not lost by what they leave out.
THEOREM ImplementsLoopHolds == Spec => ImplementsLoop
<1>1. TypeInv /\ LoopInv /\ [Next]_vars => [Loop!Next]_(Loop!vars)
  <2> SUFFICES ASSUME TypeInv, LoopInv, [Next]_vars
               PROVE  Loop!Next \/ UNCHANGED Loop!vars
    OBVIOUS
  <2>1. CASE UNCHANGED vars
    <3>1. UNCHANGED <<LoopCpu, Ticked, Late, LoopLeft>>
      BY <2>1 DEF vars, clockVars, handlerVars, localVars, workVars, LoopCpu, Ticked, Late, LoopLeft
    <3> QED  BY <2>1, <3>1, LoopStutters
             DEF vars, clockVars, consoleVars, handlerVars, inputVars, queueVars, finishVars, localVars
  <2>2. NoJobLost => Loop!Intact
    BY DEF NoJobLost, Loop!Intact, Range, Loop!Range
  <2> QED  BY <2>1, <2>2, LoopTimer, LoopConsole, LoopHandler, LoopCpuStep DEF Next, Ended, Loop!Next, CpuStep
<1> QED  BY <1>1, LoopInitMaps, AlwaysTypeInv, AlwaysLoopInv, PTL DEF Spec, ImplementsLoop, Loop!Spec
=============================================================================
