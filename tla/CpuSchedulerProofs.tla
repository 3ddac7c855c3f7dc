------------------------- MODULE CpuSchedulerProofs -------------------------
(***************************************************************************)
(* What holds of CpuScheduler for every value of its constants.            *)
(***************************************************************************)
EXTENDS CpuScheduler, JobSchedulerProofs

-----------------------------------------------------------------------------
(* What the steps of each thread leave alone.                                *)

CpuStep == fifo \/ shortestJobFirst \/ highestPriorityFirst \/ roundRobin

LEMMA TimerFrame ==
  start_time_thread => UNCHANGED <<consoleVars, handlerVars, inputVars, queueVars,
                                   finishVars, cpu, localVars, workVars>>
BY DEF start_time_thread, TimerTest, TimerTick

LEMMA HandlerFrame ==
  ASSUME NEW j \in Job, handle_connection(j)
  PROVE  UNCHANGED <<clockVars, consoleVars, finishVars, cpu, localVars>>
BY DEF handle_connection, Receive, AwaitTick, AwaitGo, FillPcb, Link, workVars

(* The job that the CPU takes is one of the queue: the head under fifo and   *)
(* roundRobin.                                                               *)
LEMMA PickCases ==
  ASSUME rq \in Seq(Job), cpu = "pick" => rq # <<>>
  PROVE  /\ Pick({Head(rq)}) => \E j \in Job : Pick({j}) /\ j = Head(rq)
         /\ getSJF(rq, burst) \subseteq Job /\ getHPF(rq, priority) \subseteq Job
<1>1. ASSUME Pick({Head(rq)})
      PROVE  \E j \in Job : Pick({j}) /\ j = Head(rq)
  <2>1. Head(rq) \in Job
    BY <1>1, HeadTailProperties DEF Pick, CpuGoto
  <2> QED  BY <1>1, <2>1
<1>2. getSJF(rq, burst) \subseteq Job /\ getHPF(rq, priority) \subseteq Job
  BY LeastIsQueued DEF getSJF, getHPF
<1> QED  BY <1>1, <1>2

(* The actions of the CPU thread, whatever the algorithm.                    *)
LEMMA CpuCases ==
  ASSUME rq \in Seq(Job), cpu = "pick" => rq # <<>>, CpuStep
  PROVE  \/ Resume \/ IdleLeave \/ Drained \/ GoOn \/ Interrupted \/ BatchVerify \/ QuantumVerify
         \/ \E limit : ExecTest(limit)
         \/ IdleEnter \/ IdleSpin \/ ReadClock \/ IdleExit
         \/ \E candidates \in SUBSET Job :
               /\ Pick(candidates)
               /\ Algorithm \in {"FIFO", "RR"} => candidates = {Head(rq)}
         \/ Stats \/ DeleteAppend \/ DeleteUnlink \/ (Rotate /\ Algorithm = "RR")
         \/ BatchTick \/ QuantumTick
<1>1. Pick({Head(rq)}) => {Head(rq)} \in SUBSET Job
  BY PickCases
<1>2. getSJF(rq, burst) \in SUBSET Job /\ getHPF(rq, priority) \in SUBSET Job
  BY PickCases
<1>3. CASE fifo
  BY <1>1, <1>3 DEF fifo, Batch, CpuLoop
<1>4. CASE shortestJobFirst
  BY <1>2, <1>4 DEF shortestJobFirst, Batch, CpuLoop
<1>5. CASE highestPriorityFirst
  BY <1>2, <1>5 DEF highestPriorityFirst, Batch, CpuLoop
<1>6. CASE roundRobin
  BY <1>1, <1>6 DEF roundRobin, CpuLoop
<1> QED  BY <1>3, <1>4, <1>5, <1>6 DEF CpuStep

LEMMA CpuFrame ==
  ASSUME rq \in Seq(Job), cpu = "pick" => rq # <<>>, CpuStep
  PROVE  UNCHANGED <<clockVars, consoleVars, handlerVars, inputVars, arrived>>
<1>1. CpuOnly => UNCHANGED <<clockVars, consoleVars, handlerVars, inputVars, arrived>>
  BY DEF CpuOnly, queueVars
<1>2. \A limit : ExecTest(limit) => CpuOnly
  BY DEF ExecTest
<1>3. \A candidates : Pick(candidates) => CpuOnly
  BY DEF Pick
<1>4. \/ Resume \/ IdleLeave \/ Drained \/ GoOn \/ Interrupted \/ BatchVerify \/ QuantumVerify
      \/ IdleEnter \/ IdleSpin \/ ReadClock \/ IdleExit \/ Stats \/ DeleteAppend
      \/ BatchTick \/ QuantumTick
      => CpuOnly
  BY DEF Resume, IdleLeave, Drained, GoOn, Interrupted, BatchVerify, QuantumVerify,
     IdleEnter, IdleSpin, ReadClock, IdleExit, Stats, DeleteAppend, BatchTick, QuantumTick
<1>5. DeleteUnlink \/ Rotate => UNCHANGED <<clockVars, consoleVars, handlerVars, inputVars, arrived>>
  BY DEF DeleteUnlink, Rotate
<1> QED  BY <1>1, <1>2, <1>3, <1>4, <1>5, CpuCases

-----------------------------------------------------------------------------
(* Type correctness.  The CPU thread reads RQ->head and its variable job     *)
(* only where they are not NULL; without these two facts TypeOK is not       *)
(* inductive, since it would have to give a type to Head(<<>>).              *)

QueueNotEmpty == cpu \in Executing \cup {"pick"} => rq # <<>>
JobAssigned == cpu \in Executing => job \in Job

TypeInv == TypeOK /\ QueueNotEmpty /\ JobAssigned

LEMMA TypeInit == Init => TypeInv
<1> SUFFICES ASSUME Init
             PROVE  TypeInv
  OBVIOUS
<1>1. ClockType /\ ConsoleType
  BY DEF Init, ClockType, ConsoleType
<1>2. HandlerType /\ InputType
  BY DEF Init, HandlerType, InputType
<1>3. QueueType /\ FinishType
  BY EmptySeq DEF Init, QueueType, FinishType
<1>4. CpuType /\ LocalType /\ WorkType
  <2>1. CpuType /\ WorkType
    BY DEF Init, CpuType, WorkType
  <2>2. job \in Job \cup {NULL} /\ i \in Nat /\ t0 \in Nat
    BY DEF Init
  <2>3. spun \in BOOLEAN /\ finished \in BOOLEAN
    BY Zenon DEF Init
  <2> QED  BY <2>1, <2>2, <2>3 DEF LocalType
<1>5. QueueNotEmpty /\ JobAssigned
  BY DEF Init, QueueNotEmpty, JobAssigned, Executing
<1> QED  BY <1>1, <1>2, <1>3, <1>4, <1>5 DEF TypeInv, TypeOK

LEMMA TypesUntouched ==
  ASSUME TypeOK
  PROVE  /\ UNCHANGED clockVars => ClockType'
         /\ UNCHANGED consoleVars => ConsoleType'
         /\ UNCHANGED handlerVars => HandlerType'
         /\ UNCHANGED inputVars => InputType'
         /\ UNCHANGED queueVars => QueueType'
         /\ UNCHANGED finishVars => FinishType'
         /\ UNCHANGED cpu => CpuType'
         /\ UNCHANGED localVars => LocalType'
         /\ UNCHANGED workVars => WorkType'
<1> USE DEF TypeOK
<1>1. UNCHANGED clockVars => ClockType'
  BY DEF clockVars, ClockType
<1>2. UNCHANGED consoleVars => ConsoleType'
  BY DEF consoleVars, ConsoleType
<1>3. UNCHANGED handlerVars => HandlerType'
  BY DEF handlerVars, HandlerType
<1>4. UNCHANGED inputVars => InputType'
  BY DEF inputVars, InputType
<1>5. UNCHANGED queueVars => QueueType'
  BY DEF queueVars, QueueType
<1>6. UNCHANGED finishVars => FinishType'
  BY DEF finishVars, FinishType
<1>7. UNCHANGED cpu => CpuType'
  BY DEF CpuType
<1>8. UNCHANGED localVars => LocalType'
  BY DEF localVars, LocalType
<1>9. UNCHANGED workVars => WorkType'
  BY DEF workVars, WorkType
<1> QED  BY <1>1, <1>2, <1>3, <1>4, <1>5, <1>6, <1>7, <1>8, <1>9

(* A step of another thread that keeps the queue from being emptied.         *)
LEMMA CpuUntouched ==
  ASSUME TypeInv, UNCHANGED <<cpu, localVars>>, rq # <<>> => rq' # <<>>
  PROVE  QueueNotEmpty' /\ JobAssigned'
BY DEF TypeInv, QueueNotEmpty, JobAssigned, localVars

LEMMA TypeTimer == TypeInv /\ start_time_thread => TypeInv'
<1> SUFFICES ASSUME TypeInv, start_time_thread
             PROVE  TypeInv'
  OBVIOUS
<1>1. UNCHANGED <<consoleVars, handlerVars, inputVars, queueVars,
                  finishVars, cpu, localVars, workVars>>
  BY TimerFrame
<1>2. /\ timesf' \in {timesf, timesf + 1}
      /\ timer' \in {"check", "sleep"}
  BY DEF start_time_thread, TimerTest, TimerTick
<1>3. ClockType'
  BY <1>2 DEF TypeInv, TypeOK, ClockType
<1>4. QueueNotEmpty' /\ JobAssigned'
  BY <1>1, CpuUntouched DEF queueVars
<1> QED  BY <1>1, <1>3, <1>4, TypesUntouched DEF TypeInv, TypeOK

LEMMA ConsoleFrame ==
  ASSUME TypeInv, window_thread
  PROVE  \E value \in {0, 1} : SetStop(value)
<1>1. before \in {0, 1} /\ stop \in {0, 1}
  BY DEF TypeInv, TypeOK, ConsoleType
<1>2. ExitCommand => SetStop(stop)
  BY DEF ExitCommand, SetStop
<1>3. Freeze \/ Unfreeze \/ QueueBegin \/ QueueEnd => \E value \in {0, 1, before} : SetStop(value)
  BY DEF Freeze, Unfreeze, QueueBegin, QueueEnd
<1> QED  BY <1>1, <1>2, <1>3 DEF window_thread

LEMMA TypeConsole == TypeInv /\ window_thread => TypeInv'
<1> SUFFICES ASSUME TypeInv, window_thread
             PROVE  TypeInv'
  OBVIOUS
<1>1. ConsoleType /\ timesf \in Nat /\ Len(fq) \in Nat /\ Len(arrived) \in Nat
  BY LenProperties DEF TypeInv, TypeOK, ClockType, FinishType, QueueType
<1>2. PICK value \in {0, 1} : SetStop(value)
  BY ConsoleFrame
<1>3. /\ before' \in {before, stop} /\ flagRun' \in {flagRun, 0}
      /\ console' \in {console, "prompt", "queue", "exit"}
  BY DEF window_thread, Freeze, Unfreeze, QueueBegin, QueueEnd, ExitCommand
<1>4. ConsoleType'
  <2>1. /\ stop' \in {0, 1} /\ before' \in {0, 1} /\ flagRun' \in {0, 1}
        /\ console' \in {"prompt", "queue", "exit"}
    BY <1>1, <1>2, <1>3 DEF SetStop, ConsoleType
  <2>2. frozen' \in [time : Nat, done : Int, linked : Nat]
    <3>1. frozen' \in {frozen, [time |-> timesf, done |-> Len(fq), linked |-> Len(arrived)]}
      BY <1>2 DEF SetStop
    <3> QED  BY <1>1, <3>1 DEF ConsoleType
  <2> QED  BY <2>1, <2>2 DEF ConsoleType
<1>5. UNCHANGED <<clockVars, handlerVars, inputVars, queueVars,
                  finishVars, cpu, localVars, workVars>>
  BY <1>2 DEF SetStop
<1>6. QueueNotEmpty' /\ JobAssigned'
  BY <1>5, CpuUntouched DEF queueVars
<1> QED  BY <1>4, <1>5, <1>6, TypesUntouched DEF TypeInv, TypeOK
LEMMA TypeHandler == ASSUME NEW j \in Job PROVE TypeInv /\ handle_connection(j) => TypeInv'
<1> SUFFICES ASSUME TypeInv, handle_connection(j)
             PROVE  TypeInv'
  OBVIOUS
<1>1. /\ timesf \in Nat /\ HandlerType /\ InputType /\ QueueType /\ WorkType
  BY DEF TypeInv, TypeOK, ClockType
<1>2. UNCHANGED <<clockVars, consoleVars, finishVars, cpu, localVars>>
  BY HandlerFrame
<1>3. HandlerType'
  <2>1. \E there \in {"tick", "held", "closed", "args", "link", "queued"} :
           phase' = [phase EXCEPT ![j] = there]
    BY DEF handle_connection, Receive, AwaitTick, AwaitGo, FillPcb, Link, Goto
  <2>2. seen' = seen \/ seen' = [seen EXCEPT ![j] = timesf]
    BY DEF handle_connection, Receive, AwaitTick, AwaitGo, FillPcb, Link, handlerVars
  <2> QED  BY <1>1, <2>1, <2>2 DEF HandlerType
<1>4. InputType'
  <2>1. CASE Receive(j)
    <3>1. PICK in \in Inputs : /\ burst' = [burst EXCEPT ![j] = in.burst]
                              /\ priority' = [priority EXCEPT ![j] = in.priority]
      BY <2>1 DEF Receive
    <3>2. in.burst \in Int /\ in.priority \in Int
      BY InputsAssumption
    <3> QED  BY <1>1, <2>1, <3>1, <3>2 DEF Receive, InputType
  <2>2. CASE FillPcb(j)
    BY <1>1, <2>2 DEF FillPcb, InputType
  <2>3. CASE AwaitTick(j) \/ AwaitGo(j) \/ Link(j)
    BY <1>1, <2>3 DEF AwaitTick, AwaitGo, Link, inputVars, InputType
  <2> QED  BY <2>1, <2>2, <2>3 DEF handle_connection
<1>5. QueueType' /\ (rq # <<>> => rq' # <<>>)
  <2>1. CASE Link(j)
    BY <1>1, <2>1, InsertKeepsHead, AppendProperties DEF Link, QueueType
  <2>2. CASE Receive(j) \/ AwaitTick(j) \/ AwaitGo(j) \/ FillPcb(j)
    BY <1>1, <2>2 DEF Receive, AwaitTick, AwaitGo, FillPcb, queueVars, QueueType
  <2> QED  BY <2>1, <2>2 DEF handle_connection
<1>6. WorkType'
  <2>1. UNCHANGED <<busy, cpuOcioso>>
    BY DEF handle_connection, Receive, AwaitTick, AwaitGo, FillPcb, Link, workVars
  <2>2. burstLeft' = burstLeft \/ burstLeft' = [burstLeft EXCEPT ![j] = burst[j]]
    BY DEF handle_connection, Receive, AwaitTick, AwaitGo, FillPcb, Link, workVars
  <2> QED  BY <1>1, <2>1, <2>2 DEF WorkType, InputType
<1>7. QueueNotEmpty' /\ JobAssigned'
  BY <1>2, <1>5, CpuUntouched
<1> QED  BY <1>2, <1>3, <1>4, <1>5, <1>6, <1>7, TypesUntouched DEF TypeInv, TypeOK

LEMMA TypeCpu == TypeInv /\ CpuStep => TypeInv'
<1> SUFFICES ASSUME TypeInv, CpuStep
             PROVE  TypeInv'
  OBVIOUS
<1> USE DEF TypeInv, CpuOnly, CpuGoto
<1>0. /\ timesf \in Nat /\ QueueType /\ FinishType /\ LocalType /\ WorkType /\ CpuType
      /\ QueueNotEmpty /\ JobAssigned
  BY DEF TypeOK, ClockType
<1>1. ASSUME CpuOnly, FinishType', CpuType', LocalType', WorkType',
             QueueNotEmpty', JobAssigned'
      PROVE  TypeInv'
  BY <1>1, TypesUntouched DEF TypeOK
<1>2. ASSUME CpuOnly, UNCHANGED <<finishVars, localVars, workVars>>,
             CpuType', cpu' = "pick" => rq # <<>>, cpu' \in Executing => cpu \in Executing
      PROVE  TypeInv'
  <2>1. FinishType' /\ LocalType' /\ WorkType'
    BY <1>2, TypesUntouched
  <2>2. QueueNotEmpty' /\ JobAssigned'
    BY <1>0, <1>2 DEF QueueNotEmpty, JobAssigned, queueVars, localVars
  <2> QED  BY <1>1, <1>2, <2>1, <2>2
<1>3. ASSUME Resume \/ IdleLeave \/ Drained \/ GoOn \/ Interrupted \/ BatchVerify \/ QuantumVerify
      PROVE  TypeInv'
  BY <1>2, <1>3 DEF Resume, IdleLeave, Drained, GoOn, Interrupted, BatchVerify, QuantumVerify,
     CpuType, Executing
<1>4. ASSUME NEW limit, ExecTest(limit)
      PROVE  TypeInv'
  BY <1>2, <1>4 DEF ExecTest, CpuType, Executing
<1>5. ASSUME IdleEnter \/ IdleSpin \/ ReadClock
      PROVE  TypeInv'
  <2>1. UNCHANGED <<finishVars, job, i, finished, workVars>> /\ t0' \in {t0, timesf}
    BY <1>5 DEF IdleEnter, IdleSpin, ReadClock
  <2>2. spun' \in {spun, TRUE, FALSE}
    BY <1>5 DEF IdleEnter, IdleSpin, ReadClock
  <2>3. LocalType'
    BY <1>0, <2>1, <2>2 DEF LocalType
  <2>4. CpuType' /\ QueueNotEmpty' /\ JobAssigned'
    BY <1>0, <1>5 DEF IdleEnter, IdleSpin, ReadClock, CpuType, QueueNotEmpty, JobAssigned,
       Executing, queueVars
  <2>5. CpuOnly
    BY <1>5 DEF IdleEnter, IdleSpin, ReadClock
  <2> QED  BY <1>1, <2>1, <2>3, <2>4, <2>5, TypesUntouched
<1>6. ASSUME IdleExit
      PROVE  TypeInv'
  <2>1. cpuOcioso' \in {cpuOcioso, cpuOcioso + 1}
    BY <1>6 DEF IdleExit
  <2>2. WorkType'
    BY <1>0, <1>6, <2>1 DEF IdleExit, WorkType
  <2>3. CpuType' /\ QueueNotEmpty' /\ JobAssigned'
    BY <1>6 DEF IdleExit, CpuType, QueueNotEmpty, JobAssigned, Executing
  <2> QED  BY <1>1, <1>6, <2>2, <2>3, TypesUntouched DEF IdleExit
<1>7. ASSUME NEW candidates \in SUBSET Job, Pick(candidates)
      PROVE  TypeInv'
  <2>1. job' \in Job /\ i' = 0 /\ UNCHANGED <<t0, spun>>
    BY <1>7 DEF Pick
  <2>2. finished' \in BOOLEAN
    BY <1>7, Zenon DEF Pick
  <2>3. LocalType'
    BY <1>0, <2>1, <2>2 DEF LocalType
  <2>4. CpuType' /\ QueueNotEmpty' /\ JobAssigned'
    BY <1>0, <1>7, <2>1 DEF Pick, CpuType, QueueNotEmpty, JobAssigned, Executing, queueVars
  <2> QED  BY <1>1, <1>7, <2>3, <2>4, TypesUntouched DEF Pick
<1>8. ASSUME Stats \/ DeleteAppend
      PROVE  TypeInv'
  <2>1. job \in Job
    BY <1>0, <1>8 DEF Stats, DeleteAppend, JobAssigned, Executing
  <2>2. FinishType'
    <3>1. CASE Stats
      <4>1. /\ fq' = fq /\ finishedJobs' = finishedJobs + 1
            /\ endTime' = [endTime EXCEPT ![job] = timesf]
        BY <3>1 DEF Stats
      <4>2. timesf \in Nat /\ fq \in Seq(Job) /\ finishedJobs \in Nat /\ endTime \in [Job -> Nat]
        BY <1>0 DEF FinishType
      <4>3. endTime' \in [Job -> Nat]
        BY <4>1, <4>2
      <4>4. fq' \in Seq(Job) /\ finishedJobs' \in Nat
        BY <4>1, <4>2
      <4> QED  BY <4>3, <4>4 DEF FinishType
    <3>2. CASE DeleteAppend
      <4>1. fq \in Seq(Job) /\ fq' = Append(fq, job) /\ UNCHANGED <<finishedJobs, endTime>>
        BY <1>0, <3>2 DEF DeleteAppend, FinishType
      <4>2. fq' \in Seq(Job)
        BY <2>1, <4>1, AppendProperties
      <4> QED  BY <1>0, <4>1, <4>2 DEF FinishType
    <3> QED  BY <1>8, <3>1, <3>2
  <2>3. CpuType' /\ QueueNotEmpty' /\ JobAssigned'
    BY <1>0, <1>8 DEF Stats, DeleteAppend, CpuType, QueueNotEmpty, JobAssigned, Executing,
       queueVars, localVars
  <2>4. CpuOnly /\ UNCHANGED <<localVars, workVars>>
    BY <1>8 DEF Stats, DeleteAppend
  <2> QED  BY <1>1, <2>2, <2>3, <2>4, TypesUntouched
<1>9. ASSUME DeleteUnlink \/ Rotate
      PROVE  TypeInv'
  <2>1. rq # <<>>
    BY <1>0, <1>9 DEF DeleteUnlink, Rotate, QueueNotEmpty, Executing
  <2>2. UNCHANGED <<clockVars, consoleVars, handlerVars, inputVars, finishVars, localVars, workVars>>
    BY <1>9 DEF DeleteUnlink, Rotate
  <2>3. QueueType'
    <3>1. CASE DeleteUnlink
      <4>1. last' \in {last, NULL}
        BY <3>1 DEF DeleteUnlink, unlinkedLast
      <4>2. rq' = unlink(rq, job) /\ UNCHANGED arrived
        BY <3>1 DEF DeleteUnlink
      <4> QED  BY <1>0, <4>1, <4>2, UnlinkType DEF QueueType
    <3>2. CASE Rotate
      <4>1. rq' = moveFirstToLast(rq) /\ last' = Head(rq) /\ UNCHANGED arrived
        BY <3>2 DEF Rotate
      <4>2. rq' \in Seq(Job)
        BY <1>0, <2>1, <4>1, MoveFirstToLastType DEF QueueType
      <4>3. last' \in Job
        BY <1>0, <2>1, <4>1, HeadTailProperties DEF QueueType
      <4> QED  BY <1>0, <4>1, <4>2, <4>3 DEF QueueType
    <3> QED  BY <1>9, <3>1, <3>2
  <2>4. CpuType' /\ QueueNotEmpty' /\ JobAssigned'
    BY <1>9 DEF DeleteUnlink, Rotate, CpuType, QueueNotEmpty, JobAssigned, Executing
  <2> QED  BY <2>2, <2>3, <2>4, TypesUntouched DEF TypeOK
<1>10. ASSUME BatchTick \/ QuantumTick
       PROVE  TypeInv'
  <2>1. i' = i + 1 /\ busy' = busy + 1 /\ CpuOnly
        /\ UNCHANGED <<finishVars, job, t0, spun, cpuOcioso>>
    BY <1>10 DEF BatchTick, QuantumTick
  <2>2. burstLeft' \in [Job -> Int]
    BY <1>0, <1>10 DEF BatchTick, QuantumTick, WorkType
  <2>3. finished' \in BOOLEAN
    <3>1. finished' = finished \/ finished' = TRUE
      BY <1>10, Zenon DEF BatchTick, QuantumTick
    <3> QED  BY <1>0, <3>1, Zenon DEF LocalType
  <2>4. LocalType' /\ WorkType'
    <3>1. job' \in Job \cup {NULL} /\ i' \in Nat /\ t0' \in Nat /\ WorkType'
      BY <1>0, <2>1, <2>2 DEF LocalType, WorkType
    <3>2. spun' \in BOOLEAN
      BY <1>0, <2>1, Zenon DEF LocalType
    <3> QED  BY <2>3, <3>1, <3>2 DEF LocalType
  <2>5. cpu = "wait" /\ cpu' \in {"exec", "verify"}
    BY <1>10 DEF BatchTick, QuantumTick
  <2>6. CpuType' /\ QueueNotEmpty' /\ JobAssigned'
    BY <1>0, <2>1, <2>5 DEF CpuType, QueueNotEmpty, JobAssigned, Executing, queueVars
  <2> QED  BY <1>1, <2>1, <2>4, <2>6, TypesUntouched
<1> QED  BY <1>0, <1>3, <1>4, <1>5, <1>6, <1>7, <1>8, <1>9, <1>10, CpuCases
         DEF QueueNotEmpty, QueueType

LEMMA TypeStutter == TypeInv /\ UNCHANGED vars => TypeInv'
<1> SUFFICES ASSUME TypeInv, UNCHANGED vars
             PROVE  TypeInv'
  OBVIOUS
<1>1. UNCHANGED <<clockVars, consoleVars, handlerVars, inputVars, queueVars,
                  finishVars, cpu, localVars, workVars>>
  BY DEF vars
<1>2. QueueNotEmpty' /\ JobAssigned'
  BY <1>1, CpuUntouched DEF queueVars
<1> QED  BY <1>1, <1>2, TypesUntouched DEF TypeInv, TypeOK

LEMMA TypeStep == TypeInv /\ [Next]_vars => TypeInv'
BY TypeTimer, TypeConsole, TypeHandler, TypeCpu, TypeStutter DEF Next, Ended, CpuStep

LEMMA AlwaysTypeInv == Spec => []TypeInv
BY TypeInit, TypeStep, PTL DEF Spec

(* Every variable keeps its type in every behaviour; in particular the CPU   *)
(* thread never dereferences RQ->head or job while they are NULL             *)
(* (cpuscheduler.h:62-109 and 374-432).                                      *)
THEOREM TypeCorrect == Spec => []TypeOK
BY AlwaysTypeInv, PTL DEF TypeInv
=============================================================================
