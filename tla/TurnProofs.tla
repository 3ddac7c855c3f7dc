----------------------------- MODULE TurnProofs -----------------------------
(***************************************************************************)
(* What a job gets from the CPU thread in its turns: it is finished once,  *)
(* after its whole burst, and what a round robin turn that ends early      *)
(* leaves of it.                                                           *)
(***************************************************************************)
EXTENDS QueueProofs

(* The CPU thread away from the jobs.                                        *)
IdleStep == Resume \/ IdleEnter \/ IdleSpin \/ IdleExit \/ IdleLeave \/ Drained \/ GoOn

LEMMA IdleFrame ==
  ASSUME IdleStep
  PROVE  /\ cpu \in {"loop", "idle", "spin", "ready"}
         /\ cpu' \in {"idle", "spin", "ready", "loop", "pick"}
         /\ UNCHANGED <<clockVars, consoleVars, handlerVars, inputVars, queueVars, finishVars>>
         /\ UNCHANGED <<job, i, finished, burstLeft>>
BY DEF IdleStep, Resume, IdleEnter, IdleSpin, IdleExit, IdleLeave, Drained, GoOn,
       CpuGoto, CpuOnly, localVars, workVars

(* CpuCases with the algorithm each action belongs to.                       *)
Limit == IF Algorithm = "RR" THEN Quantum ELSE burst[job]

LEMMA TurnCases ==
  ASSUME rq \in Seq(Job), cpu = "pick" => rq # <<>>, CpuStep
  PROVE  \/ IdleStep
         \/ \E pcb \in Range(rq) : Pick({pcb}) /\ (HeadOnly => pcb = Head(rq))
         \/ ExecTest(Limit)
         \/ ReadClock
         \/ Algorithm # "RR" /\ (BatchTick \/ BatchVerify)
         \/ Algorithm = "RR" /\ (QuantumTick \/ QuantumVerify \/ Rotate)
         \/ Interrupted
         \/ Stats \/ DeleteAppend \/ DeleteUnlink
<1>1. ASSUME NEW candidates \in SUBSET Range(rq), Pick(candidates),
             HeadOnly => candidates = {Head(rq)}
      PROVE  \E pcb \in Range(rq) : Pick({pcb}) /\ (HeadOnly => pcb = Head(rq))
  <2>1. job' \in candidates
    BY <1>1 DEF Pick
  <2>2. Pick({job'})
    BY <1>1, <2>1 DEF Pick
  <2> QED  BY <1>1, <2>1, <2>2
<1>2. Pick({Head(rq)}) => {Head(rq)} \in SUBSET Range(rq)
  BY TailFacts DEF Pick, CpuGoto
<1>3. getSJF(rq, burst) \in SUBSET Range(rq) /\ getHPF(rq, priority) \in SUBSET Range(rq)
  BY DEF getSJF, getHPF, EarliestLeast, Range
<1>4. CASE fifo
  BY <1>1, <1>2, <1>4 DEF fifo, Batch, CpuLoop, IdleStep, Limit, HeadOnly
<1>5. CASE shortestJobFirst
  BY <1>1, <1>3, <1>5 DEF shortestJobFirst, Batch, CpuLoop, IdleStep, Limit, HeadOnly
<1>6. CASE highestPriorityFirst
  BY <1>1, <1>3, <1>6 DEF highestPriorityFirst, Batch, CpuLoop, IdleStep, Limit, HeadOnly
<1>7. CASE roundRobin
  BY <1>1, <1>2, <1>7 DEF roundRobin, CpuLoop, IdleStep, Limit, HeadOnly
<1> QED  BY <1>4, <1>5, <1>6, <1>7 DEF CpuStep

-----------------------------------------------------------------------------
(* The choice.                                                               *)

\* Whenever the CPU thread chooses, getSJF and getHPF find one PCB each, a first one
\* with the least burst or priority number of all that wait: the queue they scan
\* from RQ->head is not empty then (cpuscheduler.h:164-169, 267-272 and jobscheduler.h:129-159,
\* which do not look whether head is NULL), whatever connections insert meanwhile.
THEOREM OneChoice ==
  Spec => [](cpu = "pick" =>
               /\ \E pcb \in Range(rq) : /\ getSJF(rq, burst) = {pcb}
                                        /\ \A other \in Range(rq) : burst[pcb] <= burst[other]
               /\ \E pcb \in Range(rq) : /\ getHPF(rq, priority) = {pcb}
                                        /\ \A other \in Range(rq) : priority[pcb] <= priority[other])
<1> DEFINE Choice ==
      cpu = "pick" =>
        /\ \E pcb \in Range(rq) : /\ getSJF(rq, burst) = {pcb}
                                 /\ \A other \in Range(rq) : burst[pcb] <= burst[other]
        /\ \E pcb \in Range(rq) : /\ getHPF(rq, priority) = {pcb}
                                 /\ \A other \in Range(rq) : priority[pcb] <= priority[other]
<1>1. TypeInv => Choice
  <2> SUFFICES ASSUME TypeInv, cpu = "pick" PROVE Choice
    OBVIOUS
  <2>1. rq \in Seq(Job) /\ rq # <<>>
    BY DEF TypeInv, TypeOK, QueueType, QueueNotEmpty
  <2>2. burst \in [Job -> Int] /\ priority \in [Job -> Int]
    BY DEF TypeInv, TypeOK, InputType
  <2>3. \A key \in [Job -> Int] :
          \E pcb \in Range(rq) : /\ EarliestLeast(rq, key) = {pcb}
                                /\ \A other \in Range(rq) : key[pcb] <= key[other]
    <3> TAKE key \in [Job -> Int]
    <3>1. PICK m \in DOMAIN rq : /\ EarliestLeast(rq, key) = {rq[m]}
                                 /\ \A l \in DOMAIN rq : key[rq[m]] <= key[rq[l]]
      BY <2>1, OneEarliestLeast
    <3>2. rq[m] \in Range(rq) /\ \A other \in Range(rq) : key[rq[m]] <= key[other]
      BY <3>1 DEF Range
    <3> QED  BY <3>1, <3>2
  <2> QED  BY <2>2, <2>3 DEF getSJF, getHPF
<1> QED  BY <1>1, AlwaysTypeInv, PTL

-----------------------------------------------------------------------------
(* Finished once.  A PCB enters the ready queue once, because its handler    *)
(* inserts it once; delete takes out the very PCB it has appended to FQ,     *)
(* wherever in the queue a search has found it.  A job that insert has lost  *)
(* behind a stale RQ->last is in neither list.                               *)

OnceInv ==
  /\ IsInjective(rq) /\ IsInjective(fq)
  /\ \A j \in Range(rq) \cup Range(fq) : phase[j] = "queued"
  /\ cpu \in Executing => job \in Range(rq)
  /\ \A j \in Range(rq) : j \in Range(fq) <=> cpu = "unlink" /\ j = job
  /\ finishedJobs = IF cpu = "append" THEN Len(fq) + 1 ELSE Len(fq)

LEMMA OnceInit == Init => OnceInv
<1> SUFFICES ASSUME Init
             PROVE  OnceInv
  OBVIOUS
<1>1. rq = <<>> /\ fq = <<>> /\ DOMAIN rq = {} /\ Len(fq) = 0 /\ cpu = "loop" /\ finishedJobs = 0
  BY EmptySeq, LenProperties DEF Init
<1> QED  BY <1>1 DEF OnceInv, IsInjective, Range, Executing

LEMMA OnceStep == TypeInv /\ OnceInv /\ [Next]_vars => OnceInv'
<1> SUFFICES ASSUME TypeInv, OnceInv, [Next]_vars
             PROVE  OnceInv'
  OBVIOUS
<1>1. /\ rq \in Seq(Job) /\ fq \in Seq(Job) /\ Len(fq) \in Nat
      /\ Range(rq) \subseteq Job /\ Range(fq) \subseteq Job
      /\ before \in {0, 1} /\ HandlerType
      /\ cpu = "pick" => rq # <<>>
      /\ cpu \in Executing => job \in Job /\ rq # <<>>
  BY RangeOfSeq, LenProperties
  DEF TypeInv, TypeOK, FinishType, QueueType, ConsoleType, QueueNotEmpty, JobAssigned
<1>2. ASSUME UNCHANGED <<rq, fq, finishedJobs, phase, cpu, job>>
      PROVE  OnceInv'
  BY <1>2 DEF OnceInv
<1>3. CASE start_time_thread
  BY <1>2, <1>3, TimerFrame DEF queueVars, finishVars, handlerVars, localVars
<1>4. CASE window_thread
  <2>1. PICK value \in {0, 1} : SetStop(value)
    BY <1>1, <1>4, ConsoleFrame
  <2> QED  BY <1>2, <2>1 DEF SetStop, queueVars, finishVars, handlerVars, localVars
<1>5. ASSUME NEW j \in Job, handle_connection(j)
      PROVE  OnceInv'
  <2>1. UNCHANGED <<fq, finishedJobs, cpu, job>>
    BY <1>5, HandlerFrame DEF finishVars, localVars
  <2>2. CASE Link(j)
    <3>1. phase[j] = "link" /\ phase' = [phase EXCEPT ![j] = "queued"] /\ rq' = insert(rq, last, j)
      BY <2>2 DEF Link, Goto
    <3>2. j \notin Range(rq) /\ j \notin Range(fq)
      BY <3>1 DEF OnceInv
    <3>3. /\ Range(rq) \subseteq Range(rq') /\ Range(rq') \subseteq Range(rq) \cup {j}
          /\ IsInjective(rq')
      BY <1>1, <3>1, <3>2, InsertFacts DEF OnceInv
    <3>4. \A k \in Job : phase'[k] = IF k = j THEN "queued" ELSE phase[k]
      BY <1>1, <3>1 DEF HandlerType
    <3>5. cpu = "unlink" => job # j
      BY <3>2 DEF OnceInv, Executing
    <3> QED  BY <1>1, <2>1, <3>2, <3>3, <3>4, <3>5 DEF OnceInv
  <2>3. CASE Receive(j) \/ AwaitTick(j) \/ AwaitGo(j) \/ FillPcb(j)
    <3>1. UNCHANGED rq
      BY <2>3 DEF Receive, AwaitTick, AwaitGo, FillPcb, queueVars
    <3>2. \E there \in {"tick", "held", "closed", "args", "link"} :
             phase[j] # "queued" /\ phase' = [phase EXCEPT ![j] = there]
      BY <2>3 DEF Receive, AwaitTick, AwaitGo, FillPcb, Goto
    <3>3. \A k \in Job : phase'[k] = "queued" <=> phase[k] = "queued"
      BY <1>1, <3>2 DEF HandlerType
    <3> QED  BY <1>1, <2>1, <3>1, <3>3 DEF OnceInv
  <2> QED  BY <1>5, <2>2, <2>3 DEF handle_connection
<1>6. CASE CpuStep
  <2>1. UNCHANGED phase
    BY <1>1, <1>6, CpuFrame DEF handlerVars
  <2>2. ASSUME UNCHANGED <<rq, fq, finishedJobs>>,
               cpu' \in Executing => job' \in Range(rq),
               cpu \notin {"append", "unlink"}, cpu' \notin {"append", "unlink"}
        PROVE  OnceInv'
    BY <2>1, <2>2 DEF OnceInv
  <2> USE DEF CpuGoto, CpuOnly, queueVars, finishVars, localVars
  <2>3. CASE IdleStep
    BY <2>2, <2>3, IdleFrame DEF Executing
  <2>4. CASE \E pcb \in Range(rq) : Pick({pcb}) /\ (HeadOnly => pcb = Head(rq))
    BY <2>2, <2>4 DEF Pick, Executing
  <2>5. CASE \/ ExecTest(Limit) \/ ReadClock \/ Interrupted
             \/ BatchTick \/ BatchVerify \/ QuantumTick \/ QuantumVerify
    BY <2>2, <2>5 DEF ExecTest, ReadClock, Interrupted, BatchTick, BatchVerify, QuantumTick,
       QuantumVerify, Executing, OnceInv
  <2>6. CASE Stats
    BY <1>1, <2>1, <2>6 DEF Stats, OnceInv, Executing
  <2>7. CASE DeleteAppend
    <3>1. /\ cpu = "append" /\ cpu' = "unlink" /\ fq' = Append(fq, job)
          /\ UNCHANGED <<rq, finishedJobs, job>>
      BY <2>7 DEF DeleteAppend
    <3>2. job \in Job /\ job \in Range(rq) /\ job \notin Range(fq)
      BY <1>1, <3>1 DEF OnceInv, Executing
    <3>3. Range(fq') = Range(fq) \cup {job} /\ IsInjective(fq') /\ Len(fq') = Len(fq) + 1
      BY <1>1, <3>1, <3>2, AppendFacts, AppendProperties DEF OnceInv
    <3> QED  BY <2>1, <3>1, <3>2, <3>3 DEF OnceInv
  <2>8. CASE DeleteUnlink
    <3>1. /\ cpu = "unlink" /\ cpu' = "ready" /\ rq' = unlink(rq, job)
          /\ UNCHANGED <<fq, finishedJobs>>
      BY <2>8 DEF DeleteUnlink
    <3>2. Range(rq') = Range(rq) \ {job} /\ IsInjective(rq')
      BY <1>1, <3>1, UnlinkFacts DEF OnceInv, Executing
    <3> QED  BY <2>1, <3>1, <3>2 DEF OnceInv, Executing
  <2>9. CASE Rotate
    <3>1. /\ cpu = "rotate" /\ cpu' = "ready" /\ rq' = moveFirstToLast(rq)
          /\ UNCHANGED <<fq, finishedJobs>>
      BY <2>9 DEF Rotate
    <3>2. Range(rq') = Range(rq) /\ IsInjective(rq')
      BY <1>1, <3>1, MoveRotates DEF OnceInv, Executing
    <3> QED  BY <2>1, <3>1, <3>2 DEF OnceInv, Executing
  <2> QED  BY <1>1, <1>6, <2>3, <2>4, <2>5, <2>6, <2>7, <2>8, <2>9, TurnCases
<1>7. CASE UNCHANGED vars
  BY <1>2, <1>7 DEF vars, queueVars, finishVars, handlerVars, localVars
<1> QED  BY <1>3, <1>4, <1>5, <1>6, <1>7 DEF Next, Ended, CpuStep

LEMMA AlwaysOnceInv == Spec => []OnceInv
BY OnceInit, OnceStep, AlwaysTypeInv, PTL DEF Spec

(* Under every algorithm, and whatever the operator does, no job is finished *)
(* twice and finishedJobs is the number of PCBs in FQ but between its        *)
(* increment and delete's append (jobscheduler.h:61-118,                     *)
(* cpuscheduler.h:98-102).  Under SJF and HPF this reaches to the first      *)
(* insert through a dangling RQ->last, where CpuScheduler ends: that write   *)
(* may change a link of FQ.                                                  *)
THEOREM FinishedOnceHolds == Spec => []FinishedOnce
<1>1. OnceInv => FinishedOnce
  BY DEF OnceInv, FinishedOnce, IsInjective
<1> QED  BY <1>1, AlwaysOnceInv, PTL

-----------------------------------------------------------------------------
(* A simulation that no operator interrupts: unfreeze alone does nothing.    *)
Unattended == "freeze" \notin Commands /\ "queue" \notin Commands

Running == stop = 0 /\ before = 0

LEMMA AlwaysRunning == ASSUME Unattended PROVE Spec => []Running
<1>1. Init => Running
  BY DEF Init, Running
<1>2. TypeInv /\ Running /\ [Next]_vars => Running'
  <2> SUFFICES ASSUME TypeInv, Running, [Next]_vars
               PROVE  Running'
    OBVIOUS
  <2>1. rq \in Seq(Job) /\ (cpu = "pick" => rq # <<>>)
    BY DEF TypeInv, TypeOK, QueueType, QueueNotEmpty
  <2>2. UNCHANGED consoleVars => Running'
    BY DEF consoleVars, Running
  <2>3. CASE window_thread
    BY <2>3 DEF window_thread, Freeze, Unfreeze, QueueBegin, QueueEnd, ExitCommand, SetStop,
       Unattended, Running
  <2> QED  BY <2>1, <2>2, <2>3, TimerFrame, HandlerFrame, CpuFrame DEF Next, Ended, CpuStep, vars
<1> QED  BY <1>1, <1>2, AlwaysTypeInv, PTL DEF Spec

-----------------------------------------------------------------------------
(* The waiting time.  Each tick that is counted for a job, in burstLeft by   *)
(* roundRobin and in i by the others, has passed since the job's startTime;  *)
(* and a job comes to its statistics only when its whole burst is counted.   *)
(* An interruption would let the batch algorithms skip ticks (between the    *)
(* two tests of stop), but not roundRobin, which ends a job by its count.    *)

Undisturbed == Algorithm = "RR" \/ Unattended

Filled == {j \in Job : phase[j] \in {"link", "queued"}}

Counted(j) ==
  IF Algorithm = "RR" THEN burst[j] - burstLeft[j]
  ELSE IF cpu \in {"exec", "read", "wait", "verify", "stats"} /\ j = job THEN i ELSE 0

Through == cpu = "stats" \/ (cpu = "verify" /\ (Algorithm = "RR" => finished = TRUE))

InTime(j) == endTime[j] - startTime[j] >= burst[j]

WaitInv ==
  /\ cpu = "wait" => t0 <= timesf
  /\ \A j \in Filled :
       startTime[j] + Counted(j) <= IF cpu = "wait" /\ j = job THEN t0 ELSE timesf
  /\ cpu \in {"exec", "read", "wait"} => finished = FALSE
  /\ Through => Counted(job) >= burst[job]
  /\ cpu = "append" => InTime(job)
  /\ \A j \in Range(fq) : InTime(j)

LEMMA WaitStep ==
  /\ Undisturbed /\ (Unattended => Running) /\ TypeInv /\ OnceInv /\ WaitInv
  /\ [Next]_vars
  => WaitInv'
<1> SUFFICES ASSUME Undisturbed, Unattended => Running, TypeInv, OnceInv, WaitInv, [Next]_vars
             PROVE  WaitInv'
  OBVIOUS
<1>1. /\ timesf \in Nat /\ t0 \in Nat /\ i \in Nat
      /\ burst \in [Job -> Int] /\ burstLeft \in [Job -> Int]
      /\ startTime \in [Job -> Nat] /\ endTime \in [Job -> Nat]
      /\ rq \in Seq(Job) /\ fq \in Seq(Job)
      /\ Range(rq) \subseteq Job /\ Range(fq) \subseteq Job
      /\ before \in {0, 1} /\ HandlerType
      /\ cpu = "pick" => rq # <<>>
      /\ cpu \in Executing => job \in Job /\ job \in Range(rq) /\ job \in Filled
  BY RangeOfSeq
  DEF TypeInv, TypeOK, ClockType, LocalType, InputType, WorkType, FinishType, QueueType, ConsoleType,
      QueueNotEmpty, JobAssigned, OnceInv, Filled
<1>2. Algorithm # "RR" => stop = 0
  BY DEF Undisturbed, Running
<1>3. ASSUME UNCHANGED <<cpu, job, i, t0, finished, fq, endTime, burst, startTime, burstLeft, phase>>,
             timesf <= timesf', timesf' \in Nat
      PROVE  WaitInv'
  <2>1. Filled' = Filled /\ \A j \in Filled : Counted(j)' = Counted(j) /\ Counted(j) \in Int
    BY <1>1, <1>3 DEF Filled, Counted
  <2>2. /\ \A j \in Range(fq) : InTime(j)' = InTime(j)
        /\ InTime(job)' = InTime(job) /\ Through' = Through
        /\ Counted(job)' = Counted(job)
    BY <1>3 DEF InTime, Through, Counted
  <2>3. \A j \in Filled : startTime[j] \in Nat
    BY <1>1 DEF Filled
  <2>4. ASSUME NEW j \in Filled
        PROVE  startTime'[j] + Counted(j)' <= IF cpu' = "wait" /\ j = job' THEN t0' ELSE timesf'
    <3>1. startTime[j] + Counted(j) <= IF cpu = "wait" /\ j = job THEN t0 ELSE timesf
      BY DEF WaitInv
    <3>2. Counted(j)' = Counted(j) /\ Counted(j) \in Int /\ startTime[j] \in Nat
      BY <2>1, <2>3
    <3>3. /\ startTime' = startTime /\ cpu' = cpu /\ job' = job /\ t0' = t0
          /\ timesf <= timesf' /\ timesf' \in Nat
      BY <1>3
    <3> HIDE DEF WaitInv
    <3> QED  BY <1>1, <3>1, <3>2, <3>3
  <2> QED  BY <1>1, <1>3, <2>1, <2>2, <2>4 DEF WaitInv
<1>4. CASE start_time_thread
  <2>1. timesf <= timesf' /\ timesf' \in Nat
    BY <1>1, <1>4 DEF start_time_thread, TimerTest, TimerTick
  <2> QED  BY <1>3, <1>4, <2>1, TimerFrame
           DEF handlerVars, inputVars, queueVars, finishVars, localVars, workVars
<1>5. CASE window_thread
  <2>1. PICK value \in {0, 1} : SetStop(value)
    BY <1>1, <1>5, ConsoleFrame
  <2> QED  BY <1>1, <1>3, <2>1
           DEF SetStop, clockVars, handlerVars, inputVars, queueVars, finishVars, localVars, workVars
<1>6. ASSUME NEW j \in Job, handle_connection(j)
      PROVE  WaitInv'
  <2>1. UNCHANGED <<timesf, fq, endTime, cpu, job, i, t0, finished>>
    BY <1>6, HandlerFrame DEF clockVars, finishVars, localVars
  <2>2. ASSUME Filled' = Filled, j \notin Filled, UNCHANGED <<startTime, burstLeft>>,
               \A k \in Job \ {j} : burst'[k] = burst[k]
        PROVE  WaitInv'
    <3>1. Filled' = Filled /\ j \notin Filled
      BY <2>2
    <3>2. \A k \in Filled : burst'[k] = burst[k] /\ Counted(k)' = Counted(k)
      BY <2>1, <2>2, <3>1 DEF Counted, Filled
    <3>3. \A k \in Range(fq) : k \in Filled
      BY <1>1 DEF OnceInv, Filled
    <3>4. \A k \in Filled : InTime(k)' = InTime(k)
      BY <2>1, <2>2, <3>2 DEF InTime
    <3>5. Through' = Through /\ (Through => job \in Filled) /\ (cpu = "append" => job \in Filled)
      BY <1>1, <2>1 DEF Through, Executing
    <3>7. \A k \in Filled : startTime'[k] + Counted(k)'
                              <= IF cpu' = "wait" /\ k = job' THEN t0' ELSE timesf'
      BY <2>1, <2>2, <3>2 DEF WaitInv
    <3>8. Through' => Counted(job)' >= burst'[job']
      BY <2>1, <3>2, <3>5 DEF WaitInv
    <3>9. cpu' = "append" => InTime(job)'
      BY <2>1, <3>4, <3>5 DEF WaitInv
    <3> QED  BY <2>1, <3>1, <3>3, <3>4, <3>7, <3>8, <3>9 DEF WaitInv
  <2>3. CASE Receive(j)
    <3>1. \A k \in Job \ {j} : burst'[k] = burst[k]
      BY <1>1, <2>3 DEF Receive
    <3>2. /\ phase[j] = "unsent" /\ phase' = [phase EXCEPT ![j] = "tick"]
          /\ UNCHANGED <<startTime, burstLeft>>
      BY <2>3 DEF Receive, Goto, workVars
    <3>3. Filled' = Filled /\ j \notin Filled
      BY <1>1, <3>2 DEF Filled, HandlerType
    <3> QED  BY <2>2, <3>1, <3>2, <3>3
  <2>4. CASE AwaitTick(j) \/ AwaitGo(j)
    <3>1. /\ phase[j] \in {"tick", "held"}
          /\ \E there \in {"closed", "held", "args"} : phase' = [phase EXCEPT ![j] = there]
          /\ UNCHANGED <<startTime, burstLeft, burst>>
      BY <2>4 DEF AwaitTick, AwaitGo, Goto, inputVars, workVars
    <3>2. Filled' = Filled /\ j \notin Filled
      BY <1>1, <3>1 DEF Filled, HandlerType
    <3> QED  BY <2>2, <3>1, <3>2
  <2>5. CASE FillPcb(j)
    <3>1. /\ phase[j] = "args" /\ phase' = [phase EXCEPT ![j] = "link"] /\ UNCHANGED burst
          /\ startTime' = [startTime EXCEPT ![j] = timesf]
          /\ burstLeft' = [burstLeft EXCEPT ![j] = burst[j]]
      BY <2>5 DEF FillPcb, Goto
    <3>2. Filled' = Filled \cup {j} /\ j \notin Filled
      BY <1>1, <3>1 DEF Filled, HandlerType
    <3>3. \A k \in Filled : /\ Counted(k)' = Counted(k)
                            /\ startTime'[k] = startTime[k] /\ InTime(k)' = InTime(k)
      BY <1>1, <2>1, <3>1, <3>2 DEF Counted, InTime, Filled
    <3>4. cpu \in Executing => job # j
      BY <1>1, <3>2
    <3>5. startTime'[j] = timesf /\ Counted(j)' = 0 /\ ~(cpu = "wait" /\ j = job)
      BY <1>1, <2>1, <3>1, <3>4 DEF Counted, Executing
    <3>6. \A k \in Range(fq) : k \in Filled
      BY <1>1 DEF OnceInv, Filled
    <3>7. Through' = Through /\ (Through => job \in Filled) /\ (cpu = "append" => job \in Filled)
      BY <1>1, <2>1 DEF Through, Executing
    <3>8. \A k \in Filled : startTime'[k] + Counted(k)'
                              <= IF cpu' = "wait" /\ k = job' THEN t0' ELSE timesf'
      BY <2>1, <3>3 DEF WaitInv
    <3>9. startTime'[j] + Counted(j)' <= timesf
      BY <1>1, <3>5
    <3>10. \A k \in Filled' : startTime'[k] + Counted(k)'
                                <= IF cpu' = "wait" /\ k = job' THEN t0' ELSE timesf'
      BY <2>1, <3>2, <3>5, <3>8, <3>9
    <3>11. Through' => Counted(job)' >= burst'[job']
      BY <2>1, <3>1, <3>3, <3>7 DEF WaitInv
    <3>12. cpu' = "append" => InTime(job)'
      BY <2>1, <3>3, <3>7 DEF WaitInv
    <3> QED  BY <2>1, <3>3, <3>6, <3>10, <3>11, <3>12 DEF WaitInv
  <2>6. CASE Link(j)
    <3>1. phase[j] = "link" /\ phase' = [phase EXCEPT ![j] = "queued"]
          /\ UNCHANGED <<burst, startTime, burstLeft>>
      BY <2>6 DEF Link, Goto, inputVars, workVars
    <3>2. Filled' = Filled
      BY <1>1, <3>1 DEF Filled, HandlerType
    <3> QED  BY <2>1, <3>1, <3>2 DEF WaitInv, Counted, InTime, Through
  <2> QED  BY <1>6, <2>3, <2>4, <2>5, <2>6 DEF handle_connection
<1>7. CASE CpuStep
  <2>1. UNCHANGED <<timesf, phase, burst, startTime>> /\ Filled' = Filled
    BY <1>1, <1>7, CpuFrame DEF clockVars, handlerVars, inputVars, Filled
  <2>2. \A j \in Filled : Counted(j) \in Int /\ startTime[j] \in Nat
    BY <1>1 DEF Counted, Filled
  <2>3. ASSUME UNCHANGED <<fq, endTime>>, cpu' # "append",
               cpu' = "wait" => t0' <= timesf,
               \A j \in Filled :
                  startTime[j] + Counted(j)' <= IF cpu' = "wait" /\ j = job' THEN t0' ELSE timesf,
               cpu' \in {"exec", "read", "wait"} => finished' = FALSE,
               Through' => Counted(job)' >= burst[job']
        PROVE  WaitInv'
    BY <2>1, <2>3 DEF WaitInv, InTime
  <2> USE DEF CpuGoto, CpuOnly, queueVars, finishVars, localVars, workVars
  <2>4. CASE IdleStep
    <3>1. /\ cpu \in {"loop", "idle", "spin", "ready"}
          /\ cpu' \in {"idle", "spin", "ready", "loop", "pick"}
          /\ UNCHANGED <<fq, endTime, job, i, finished, burstLeft>>
      BY <2>4, IdleFrame
    <3>2. \A j \in Filled : Counted(j)' = Counted(j) /\ startTime[j] + Counted(j) <= timesf
      BY <2>1, <3>1 DEF Counted, WaitInv
    <3> QED  BY <2>3, <3>1, <3>2 DEF Through
  <2>5. CASE \E pcb \in Range(rq) : Pick({pcb}) /\ (HeadOnly => pcb = Head(rq))
    <3>1. /\ cpu = "pick" /\ cpu' = "exec" /\ i' = 0 /\ finished' = FALSE
          /\ UNCHANGED <<fq, endTime, burstLeft>>
      BY <2>5 DEF Pick
    <3>2. \A j \in Filled : Counted(j)' = Counted(j) /\ startTime[j] + Counted(j) <= timesf
      BY <2>1, <3>1 DEF Counted, WaitInv
    <3> QED  BY <2>3, <3>1, <3>2 DEF Through
  <2>6. CASE ExecTest(Limit)
    <3>1. /\ cpu = "exec" /\ cpu' \in {"read", "verify"} /\ finished = FALSE
          /\ cpu' = "verify" /\ Algorithm # "RR" => i >= burst[job]
          /\ UNCHANGED <<fq, endTime, burstLeft, i, job, finished>>
      BY <1>1, <1>2, <2>6 DEF ExecTest, Limit, WaitInv, Executing
    <3>2. \A j \in Filled : Counted(j)' = Counted(j) /\ startTime[j] + Counted(j) <= timesf
      BY <2>1, <3>1 DEF Counted, WaitInv
    <3>3. Through' => Counted(job)' >= burst[job]
      BY <2>1, <3>1 DEF Through, Counted
    <3> QED  BY <2>3, <3>1, <3>2, <3>3
  <2>7. CASE ReadClock
    <3>1. /\ cpu = "read" /\ cpu' = "wait" /\ t0' = timesf /\ finished = FALSE
          /\ UNCHANGED <<fq, endTime, burstLeft, i, job, finished>>
      BY <2>7 DEF ReadClock, WaitInv
    <3>2. \A j \in Filled : Counted(j)' = Counted(j) /\ startTime[j] + Counted(j) <= timesf
      BY <2>1, <3>1 DEF Counted, WaitInv
    <3>3. \A j \in Filled : startTime[j] + Counted(j)' <= IF cpu' = "wait" /\ j = job' THEN t0' ELSE timesf'
      BY <2>1, <3>1, <3>2
    <3>4. cpu' = "wait" /\ t0' <= timesf /\ finished' = FALSE
      BY <1>1, <3>1
    <3> QED  BY <2>1, <2>3, <3>1, <3>3, <3>4 DEF Through
  <2>8. CASE Algorithm # "RR" /\ (BatchTick \/ BatchVerify)
    <3>1. CASE BatchTick
      <4>1. /\ cpu = "wait" /\ cpu' = "exec" /\ timesf # t0 /\ i' = i + 1 /\ finished = FALSE
            /\ UNCHANGED <<fq, endTime, burstLeft, job, finished>>
        BY <3>1 DEF BatchTick, WaitInv
      <4>2. t0 + 1 <= timesf
        BY <1>1, <4>1 DEF WaitInv
      <4>3. ASSUME NEW j \in Filled
            PROVE  startTime[j] + Counted(j)' <= timesf
        <5>1. CASE j = job
          <6>1. Counted(j)' = i + 1 /\ startTime[j] + i <= t0
            BY <2>8, <4>1, <5>1 DEF Counted, WaitInv
          <6> QED  BY <1>1, <2>2, <4>2, <6>1
        <5>2. CASE j # job
          BY <2>8, <4>1, <5>2 DEF Counted, WaitInv
        <5> QED  BY <5>1, <5>2
      <4> QED  BY <2>3, <4>1, <4>3 DEF Through
    <3>2. CASE BatchVerify
      <4>1. /\ cpu = "verify" /\ cpu' = "stats"
            /\ UNCHANGED <<fq, endTime, burstLeft, job, i, finished>>
        BY <3>2 DEF BatchVerify
      <4>2. \A j \in Filled : Counted(j)' = Counted(j) /\ startTime[j] + Counted(j) <= timesf
        BY <2>1, <4>1 DEF Counted, WaitInv
      <4>3. Counted(job) >= burst[job] /\ Counted(job)' = Counted(job)
        BY <2>1, <2>8, <4>1 DEF WaitInv, Through, Counted
      <4> QED  BY <2>3, <4>1, <4>2, <4>3
    <3> QED  BY <2>8, <3>1, <3>2
  <2>9. CASE Algorithm = "RR" /\ QuantumTick
    <3>1. /\ cpu = "wait" /\ timesf # t0 /\ finished = FALSE
          /\ burstLeft' = [burstLeft EXCEPT ![job] = @ - 1]
          /\ UNCHANGED <<fq, endTime, job>>
          /\ \/ burstLeft[job] = 1 /\ cpu' = "verify"
             \/ cpu' = "exec" /\ finished' = FALSE
      BY <2>9 DEF QuantumTick, WaitInv
    <3>2. job \in Job /\ job \in Filled
      BY <1>1, <3>1 DEF Executing
    <3>3. t0 + 1 <= timesf
      BY <1>1, <3>1 DEF WaitInv
    <3>4. Counted(job)' = Counted(job) + 1 /\ startTime[job] + Counted(job) <= t0
      BY <1>1, <2>1, <2>9, <3>1, <3>2 DEF Counted, WaitInv
    <3>5. \A j \in Filled \ {job} : Counted(j)' = Counted(j) /\ startTime[j] + Counted(j) <= timesf
      BY <1>1, <2>1, <2>9, <3>1 DEF Counted, WaitInv, Filled
    <3>6. \A j \in Filled : startTime[j] + Counted(j)' <= timesf
      <4>1. Counted(job) \in Int /\ startTime[job] \in Int
        BY <2>2, <3>2
      <4>2. startTime[job] + Counted(job)' <= timesf
        BY <1>1, <3>3, <3>4, <4>1
      <4>3. ASSUME NEW j \in Filled, j # job
            PROVE  startTime[j] + Counted(j)' <= timesf
        <5>1. Counted(j)' = Counted(j) /\ startTime[j] + Counted(j) <= timesf
          BY <3>5, <4>3
        <5> QED  BY <5>1
      <4>4. \A j \in Filled : j = job \/ startTime[j] + Counted(j)' <= timesf
        BY <4>3
      <4> QED  BY <3>1, <4>2, <4>4
    <3>7. Through' => Counted(job)' >= burst[job]
      BY <1>1, <2>1, <2>9, <3>1, <3>2 DEF Through, Counted
    <3> QED  BY <2>3, <3>1, <3>6, <3>7
  <2>10. CASE Algorithm = "RR" /\ (QuantumVerify \/ Rotate)
    <3>1. /\ cpu \in {"verify", "rotate"}
          /\ cpu' \in {"rotate", "ready"} \/ (cpu = "verify" /\ cpu' = "stats" /\ finished)
          /\ UNCHANGED <<fq, endTime, burstLeft, job, finished>>
      BY <2>10 DEF QuantumVerify, Rotate
    <3>2. \A j \in Filled : Counted(j)' = Counted(j) /\ startTime[j] + Counted(j) <= timesf
      BY <2>1, <2>10, <3>1 DEF Counted, WaitInv
    <3>3. Through' => Counted(job)' >= burst[job]
      <4>1. finished \in BOOLEAN
        BY Zenon DEF TypeInv, TypeOK, LocalType
      <4>2. finished => finished = TRUE
        BY <4>1, Zenon
      <4> QED  BY <2>1, <2>10, <3>1, <4>2 DEF Through, Counted, WaitInv
    <3> QED  BY <2>3, <3>1, <3>2, <3>3
  <2>11. CASE Interrupted \/ DeleteUnlink
    <3>1. /\ cpu \in {"verify", "unlink"} /\ cpu' \in {"loop", "ready"}
          /\ UNCHANGED <<fq, endTime, burstLeft, job, i, finished>>
      BY <2>11 DEF Interrupted, DeleteUnlink
    <3>2. /\ \A j \in Filled : startTime[j] + Counted(j) <= timesf
          /\ \A j \in Filled : Counted(j)' = Counted(j) \/ (Algorithm # "RR" /\ Counted(j)' = 0)
      BY <2>1, <3>1 DEF Counted, WaitInv
    <3>3. \A j \in Filled : Algorithm # "RR" => startTime[j] <= timesf
      <4>1. \A j \in Filled : Algorithm # "RR" => Counted(j) \in Nat
        BY <1>1 DEF Counted
      <4>2. \A j \in Filled : Algorithm # "RR" => startTime[j] <= timesf
        <5> SUFFICES ASSUME NEW j \in Filled, Algorithm # "RR"
                     PROVE  startTime[j] <= timesf
          OBVIOUS
        <5>1. startTime[j] \in Nat /\ Counted(j) \in Nat /\ startTime[j] + Counted(j) <= timesf
          BY <2>2, <3>2, <4>1
        <5> QED  BY <1>1, <5>1
      <4> QED  BY <4>2
    <3>4. \A j \in Filled : startTime[j] + Counted(j)' <= timesf
      <4> SUFFICES ASSUME NEW j \in Filled
                   PROVE  startTime[j] + Counted(j)' <= timesf
        OBVIOUS
      <4>1. CASE Counted(j)' = Counted(j)
        BY <3>2, <4>1
      <4>2. CASE Algorithm # "RR" /\ Counted(j)' = 0
        <5>1. startTime[j] \in Nat /\ startTime[j] <= timesf
          BY <2>2, <3>3, <4>2
        <5> QED  BY <1>1, <4>2, <5>1
      <4> QED  BY <3>2, <4>1, <4>2
    <3> QED  BY <2>3, <3>1, <3>4 DEF Through
  <2>12. CASE Stats
    <3>1. /\ cpu = "stats" /\ cpu' = "append" /\ UNCHANGED <<fq, job>>
          /\ endTime' = [endTime EXCEPT ![job] = timesf]
      BY <2>12 DEF Stats
    <3>2. job \in Job /\ job \in Filled /\ job \notin Range(fq)
      BY <1>1, <3>1 DEF OnceInv, Executing
    <3>3. endTime'[job] = timesf /\ \A j \in Range(fq) : endTime'[j] = endTime[j]
      BY <1>1, <3>1, <3>2
    <3>4. Counted(job) >= burst[job] /\ startTime[job] + Counted(job) <= timesf
      BY <3>1, <3>2 DEF WaitInv, Through
    <3>5. InTime(job)'
      BY <1>1, <2>1, <2>2, <3>1, <3>2, <3>3, <3>4 DEF InTime
    <3>6. \A j \in Range(fq) : InTime(j)'
      BY <2>1, <3>3 DEF InTime, WaitInv
    <3>7. \A j \in Filled : startTime[j] + Counted(j)' <= timesf
      <4>1. UNCHANGED burstLeft
        BY <2>12 DEF Stats
      <4>2. \A j \in Filled : startTime[j] + Counted(j) <= timesf
        BY <3>1 DEF WaitInv
      <4>3. \A j \in Filled : Algorithm # "RR" => Counted(j) \in Nat /\ Counted(j)' = 0
        BY <1>1, <3>1 DEF Counted
      <4>4. \A j \in Filled : Algorithm = "RR" => Counted(j)' = Counted(j)
        BY <2>1, <4>1 DEF Counted
      <4> SUFFICES ASSUME NEW j \in Filled
                   PROVE  startTime[j] + Counted(j)' <= timesf
        OBVIOUS
      <4>5. startTime[j] \in Nat /\ Counted(j) \in Int /\ startTime[j] + Counted(j) <= timesf
        BY <2>2, <4>2
      <4>6. CASE Algorithm = "RR"
        BY <4>4, <4>5, <4>6
      <4>7. CASE Algorithm # "RR"
        <5>1. Counted(j) \in Nat /\ Counted(j)' = 0
          BY <4>3, <4>7
        <5> QED  BY <1>1, <4>5, <5>1
      <4> QED  BY <4>6, <4>7
    <3> QED  BY <2>1, <3>1, <3>5, <3>6, <3>7 DEF WaitInv, Through
  <2>13. CASE DeleteAppend
    <3>1. /\ cpu = "append" /\ cpu' = "unlink" /\ fq' = Append(fq, job)
          /\ UNCHANGED <<endTime, burstLeft, job>>
      BY <2>13 DEF DeleteAppend
    <3>2. Range(fq') = Range(fq) \cup {job}
      BY <1>1, <3>1, AppendFacts DEF Executing
    <3>3. \A j \in Range(fq') : InTime(j)'
      BY <2>1, <3>1, <3>2 DEF InTime, WaitInv
    <3>4. \A j \in Filled : Counted(j)' = Counted(j) /\ startTime[j] + Counted(j) <= timesf
      BY <2>1, <3>1 DEF Counted, WaitInv
    <3> QED  BY <2>1, <3>1, <3>3, <3>4 DEF WaitInv, Through
  <2> QED  BY <1>1, <1>7, <2>4, <2>5, <2>6, <2>7, <2>8, <2>9, <2>10, <2>11, <2>12, <2>13, TurnCases
<1>8. CASE UNCHANGED vars
  BY <1>1, <1>3, <1>8 DEF vars, clockVars, handlerVars, inputVars, finishVars, localVars, workVars
<1> QED  BY <1>4, <1>5, <1>6, <1>7, <1>8 DEF Next, Ended, CpuStep

(* The waiting time computed for a finished job is never negative            *)
(* (cpuscheduler.h:77-100, 399-424): under roundRobin whatever the operator  *)
(* does, under the others unless stop is set: line 79 ends their inner loop  *)
(* before the burst is over, and if stop is cleared before line 90 tests it  *)
(* again the job counts as finished.                                         *)
THEOREM WaitingTimeHolds ==
  ASSUME Undisturbed
  PROVE  Spec => []WaitingTimeOK
<1>1. Init => WaitInv
  <2> SUFFICES ASSUME Init
               PROVE  WaitInv
    OBVIOUS
  <2>1. cpu = "loop" /\ fq = <<>> /\ Filled = {} /\ DOMAIN fq = {}
    BY EmptySeq DEF Init, Filled
  <2> QED  BY <2>1 DEF WaitInv, Through, Range
<1>2. TypeInv /\ WaitInv => WaitingTimeOK
  BY DEF WaitInv, WaitingTimeOK, InTime
<1>3. CASE Unattended
  <2>1. Running => (Unattended => Running)
    OBVIOUS
  <2> QED  BY <1>1, <1>2, <1>3, <2>1, WaitStep, AlwaysRunning, AlwaysOnceInv, AlwaysTypeInv, PTL DEF Spec
<1>4. CASE ~Unattended
  BY <1>1, <1>2, <1>4, WaitStep, AlwaysOnceInv, AlwaysTypeInv, PTL DEF Spec
<1> QED  BY <1>3, <1>4

-----------------------------------------------------------------------------
(* Burst left.  A handler inserts no job with burst 0 (server.c:134-137),    *)
(* though one with a negative burst; roundRobin takes a job that its count   *)
(* has brought to 0 out of the queue before it looks at the queue again,     *)
(* unless stop is set in between.                                            *)

Ending == cpu \in {"stats", "append", "unlink"} \/ (cpu = "verify" /\ finished = TRUE)

LeftInv ==
  /\ \A j \in Job : phase[j] \in {"held", "args"} => burst[j] # 0
  /\ \A j \in Job : phase[j] = "link" => burst[j] < 0 \/ burstLeft[j] > 0
  /\ \A j \in Range(rq) :
       burst[j] < 0 \/ burstLeft[j] > 0 \/ (Algorithm = "RR" /\ j = job /\ Ending)

LEMMA LeftStep ==
  ASSUME Algorithm = "RR" => Unattended
  PROVE  (Unattended => Running) /\ TypeInv /\ OnceInv /\ LeftInv /\ [Next]_vars => LeftInv'
<1> SUFFICES ASSUME Unattended => Running, TypeInv, OnceInv, LeftInv, [Next]_vars
             PROVE  LeftInv'
  OBVIOUS
<1>1. /\ burst \in [Job -> Int] /\ burstLeft \in [Job -> Int] /\ finished \in BOOLEAN
      /\ rq \in Seq(Job) /\ Range(rq) \subseteq Job
      /\ before \in {0, 1} /\ HandlerType
      /\ cpu = "pick" => rq # <<>>
      /\ cpu \in Executing => job \in Job /\ job \in Range(rq) /\ rq # <<>>
      /\ Algorithm = "RR" => stop = 0
  BY RangeOfSeq
  DEF TypeInv, TypeOK, LocalType, InputType, WorkType, QueueType, ConsoleType, QueueNotEmpty,
      JobAssigned, OnceInv, Running
<1>2. ASSUME UNCHANGED <<burst, burstLeft, phase, rq, job, cpu, finished>>
      PROVE  LeftInv'
  BY <1>2 DEF LeftInv, Ending
<1>3. CASE start_time_thread
  BY <1>2, <1>3, TimerFrame DEF handlerVars, inputVars, queueVars, localVars, workVars
<1>4. CASE window_thread
  <2>1. PICK value \in {0, 1} : SetStop(value)
    BY <1>1, <1>4, ConsoleFrame
  <2> QED  BY <1>2, <2>1 DEF SetStop, handlerVars, inputVars, queueVars, localVars, workVars
<1>5. ASSUME NEW j \in Job, handle_connection(j)
      PROVE  LeftInv'
  <2>1. UNCHANGED <<cpu, job, finished>> /\ Ending' = Ending
    BY <1>5, HandlerFrame DEF localVars, Ending
  <2>2. phase[j] # "queued" => j \notin Range(rq)
    BY DEF OnceInv
  <2>3. CASE Receive(j)
    <3>1. PICK in \in Inputs : burst' = [burst EXCEPT ![j] = in.burst]
      BY <2>3 DEF Receive
    <3>2. phase' = [phase EXCEPT ![j] = "tick"] /\ UNCHANGED <<burstLeft, rq>>
      BY <2>3 DEF Receive, Goto, workVars, queueVars
    <3>4. \A k \in Job : phase'[k] # "tick" => phase'[k] = phase[k] /\ k # j
      BY <1>1, <3>2 DEF HandlerType
    <3>5. \A k \in Job \ {j} : burst'[k] = burst[k]
      BY <1>1, <3>1
    <3>6. phase[j] = "unsent" /\ j \notin Range(rq)
      BY <2>2, <2>3 DEF Receive, Goto
    <3> QED  BY <1>1, <2>1, <3>2, <3>4, <3>5, <3>6 DEF LeftInv
  <2>4. CASE AwaitTick(j) \/ AwaitGo(j)
    <3>1. UNCHANGED <<burst, burstLeft, rq>>
      BY <2>4 DEF AwaitTick, AwaitGo, inputVars, queueVars, workVars
    <3>2. PICK there \in {"closed", "held", "args"} : phase' = [phase EXCEPT ![j] = there]
      BY <2>4 DEF AwaitTick, AwaitGo, Goto
    <3>3. there # "closed" => burst[j] # 0
      <4>1. CASE AwaitTick(j)
        BY <1>1, <3>2, <4>1 DEF AwaitTick, Goto, HandlerType, LeftInv
      <4>2. CASE AwaitGo(j)
        BY <4>2 DEF AwaitGo, Goto, LeftInv
      <4> QED  BY <2>4, <4>1, <4>2
    <3>4. \A k \in Job : phase'[k] = IF k = j THEN there ELSE phase[k]
      BY <1>1, <3>2 DEF HandlerType
    <3> QED  BY <2>1, <3>1, <3>3, <3>4 DEF LeftInv
  <2>5. CASE FillPcb(j)
    <3>1. /\ phase[j] = "args" /\ phase' = [phase EXCEPT ![j] = "link"] /\ UNCHANGED <<burst, rq>>
          /\ burstLeft' = [burstLeft EXCEPT ![j] = burst[j]]
      BY <2>5 DEF FillPcb, Goto, queueVars
    <3>2. \A k \in Job : /\ phase'[k] = IF k = j THEN "link" ELSE phase[k]
                         /\ burstLeft'[k] = IF k = j THEN burst[j] ELSE burstLeft[k]
      BY <1>1, <3>1 DEF HandlerType
    <3> QED  BY <1>1, <2>1, <2>2, <3>1, <3>2 DEF LeftInv
  <2>6. CASE Link(j)
    <3>1. /\ phase[j] = "link" /\ phase' = [phase EXCEPT ![j] = "queued"]
          /\ UNCHANGED <<burst, burstLeft>> /\ rq' = insert(rq, last, j)
      BY <2>6 DEF Link, Goto, inputVars, workVars
    <3>2. Range(rq') \subseteq Range(rq) \cup {j}
      BY <1>1, <3>1, InsertFacts
    <3>3. \A k \in Job : phase'[k] = IF k = j THEN "queued" ELSE phase[k]
      BY <1>1, <3>1 DEF HandlerType
    <3> QED  BY <2>1, <3>1, <3>2, <3>3 DEF LeftInv
  <2> QED  BY <1>5, <2>3, <2>4, <2>5, <2>6 DEF handle_connection
<1>6. CASE CpuStep
  <2>1. UNCHANGED <<phase, burst>>
    BY <1>1, <1>6, CpuFrame DEF handlerVars, inputVars
  <2>2. ASSUME ~Ending \/ (Ending' /\ job' = job), Range(rq') = Range(rq), UNCHANGED burstLeft
        PROVE  LeftInv'
    BY <2>1, <2>2 DEF LeftInv
  <2> USE DEF CpuGoto, CpuOnly, queueVars, localVars, workVars
  <2>3. CASE IdleStep
    BY <2>2, <2>3, IdleFrame DEF Ending, queueVars
  <2>4. CASE (\E pcb \in Range(rq) : Pick({pcb})) \/ ExecTest(Limit) \/ ReadClock
    BY <2>2, <2>4 DEF Pick, ExecTest, ReadClock, Ending
  <2>5. CASE Algorithm # "RR" /\ (BatchTick \/ BatchVerify \/ Interrupted)
    BY <2>1, <2>5 DEF BatchTick, BatchVerify, Interrupted, LeftInv
  <2>6. CASE Algorithm = "RR" /\ QuantumVerify
    <3>1. /\ cpu = "verify" /\ cpu' = IF finished THEN "stats" ELSE "rotate"
          /\ UNCHANGED <<job, rq, burstLeft>>
      BY <2>6 DEF QuantumVerify
    <3>2. finished = TRUE \/ finished = FALSE
      BY <1>1, Zenon
    <3> QED  BY <2>2, <3>1, <3>2 DEF Ending
  <2>7. CASE Algorithm = "RR" /\ Rotate
    <3>1. cpu = "rotate" /\ rq' = moveFirstToLast(rq) /\ UNCHANGED burstLeft
      BY <2>7 DEF Rotate
    <3>2. Range(rq') = Range(rq)
      BY <1>1, <3>1, MoveRotates DEF Executing, OnceInv
    <3> QED  BY <2>2, <3>1, <3>2 DEF Ending
  <2>8. CASE Stats \/ DeleteAppend
    BY <2>2, <2>8 DEF Stats, DeleteAppend, Ending
  <2>9. CASE DeleteUnlink
    <3>1. cpu = "unlink" /\ rq' = unlink(rq, job) /\ UNCHANGED burstLeft
      BY <2>9 DEF DeleteUnlink
    <3>2. Range(rq') = Range(rq) \ {job}
      BY <1>1, <3>1, UnlinkFacts DEF Executing, OnceInv
    <3> QED  BY <2>1, <3>1, <3>2 DEF LeftInv
  <2>10. CASE Algorithm = "RR" /\ QuantumTick
    <3>1. /\ cpu = "wait" /\ burstLeft' = [burstLeft EXCEPT ![job] = @ - 1]
          /\ IF burstLeft[job] = 1 THEN cpu' = "verify" /\ finished' = TRUE ELSE cpu' = "exec"
          /\ UNCHANGED <<rq, job>>
      BY <2>10 DEF QuantumTick
    <3>2. \A j \in Range(rq) : burst[j] < 0 \/ burstLeft[j] > 0
      BY <3>1 DEF LeftInv, Ending
    <3>3. job \in Job /\ burstLeft'[job] = burstLeft[job] - 1 /\ (burst[job] < 0 \/ burstLeft[job] > 0)
      BY <1>1, <3>1, <3>2 DEF Executing
    <3>4. \A j \in Range(rq) \ {job} : burst[j] < 0 \/ burstLeft'[j] > 0
      BY <1>1, <3>1, <3>2
    <3>5. burst[job] < 0 \/ burstLeft'[job] > 0 \/ (burstLeft[job] = 1 /\ burstLeft'[job] = 0)
      BY <1>1, <3>3
    <3>6. \A j \in Job : phase[j] = "link" => burstLeft'[j] = burstLeft[j]
      <4>1. phase[job] = "queued"
        BY <1>1, <3>1 DEF OnceInv, Executing
      <4> QED  BY <1>1, <3>1, <3>3, <4>1
    <3> QED  BY <2>1, <2>10, <3>1, <3>4, <3>5, <3>6 DEF LeftInv, Ending
  <2>11. CASE Interrupted
    BY <1>1, <2>5, <2>11 DEF Interrupted
  <2> QED  BY <1>1, <1>6, <2>3, <2>4, <2>5, <2>6, <2>7, <2>8, <2>9, <2>10, <2>11, TurnCases
<1>7. CASE UNCHANGED vars
  BY <1>2, <1>7 DEF vars, handlerVars, inputVars, queueVars, localVars, workVars
<1> QED  BY <1>3, <1>4, <1>5, <1>6, <1>7 DEF Next, Ended, CpuStep

(* A job that waits in the ready queue still has burst left to count down,   *)
(* unless its client has sent a negative one, whatever the clients send      *)
(* (cpuscheduler.h:403-444, jobscheduler.h:34-60).  Under roundRobin nobody  *)
(* may set stop: an interruption between burstLeft-- and line 411 would      *)
(* leave the job in the queue at 0.                                          *)
THEOREM QueuedHasBurstLeftHolds ==
  ASSUME Algorithm = "RR" => Unattended
  PROVE  Spec => []QueuedHasBurstLeft
<1>1. Init => LeftInv
  <2> SUFFICES ASSUME Init
               PROVE  LeftInv
    OBVIOUS
  <2>1. rq = <<>> /\ DOMAIN rq = {}
    BY EmptySeq DEF Init
  <2> QED  BY <2>1 DEF Init, LeftInv, Range
<1>2. TypeInv /\ LeftInv => QueuedHasBurstLeft
  <2> SUFFICES ASSUME TypeInv, LeftInv, cpu \in {"loop", "ready", "pick"},
                      NEW j \in Range(rq), burst[j] >= 0
               PROVE  burstLeft[j] > 0
    BY DEF QueuedHasBurstLeft
  <2>1. burst[j] \in Int
    BY RangeOfSeq DEF TypeInv, TypeOK, InputType, QueueType
  <2> QED  BY <2>1 DEF LeftInv, Ending
<1>3. CASE Unattended
  <2>1. Running => (Unattended => Running)
    OBVIOUS
  <2> QED  BY <1>1, <1>2, <1>3, <2>1, LeftStep, AlwaysRunning, AlwaysOnceInv, AlwaysTypeInv, PTL DEF Spec
<1>4. CASE ~Unattended
  BY <1>1, <1>2, <1>4, LeftStep, AlwaysOnceInv, AlwaysTypeInv, PTL DEF Spec
<1> QED  BY <1>3, <1>4

-----------------------------------------------------------------------------
(* Runs until finished.  fifo comes back to the job it has left, which is    *)
(* still at the head; the other two choose again after an interruption and   *)
(* may choose another job, but without one they leave no job unfinished.     *)

Kept ==
  job # NULL => \/ job \in Range(fq) \/ cpu \in Executing
                \/ HeadOnly /\ rq # <<>> /\ Head(rq) = job

LEMMA KeptStep ==
  ASSUME Algorithm = "FIFO" \/ (Algorithm \in {"SJF", "HPF"} /\ Unattended)
  PROVE  /\ (Algorithm # "FIFO" => Running) /\ (HeadOnly => QueueInv) /\ TypeInv /\ OnceInv
         /\ Kept /\ [Next]_vars
         => Kept'
<1> SUFFICES ASSUME Algorithm # "FIFO" => Running, HeadOnly => QueueInv, TypeInv, OnceInv, Kept, [Next]_vars
             PROVE  Kept'
  OBVIOUS
<1>1. /\ rq \in Seq(Job) /\ fq \in Seq(Job)
      /\ before \in {0, 1}
      /\ cpu = "pick" => rq # <<>>
      /\ cpu \in Executing => job \in Job /\ (HeadOnly => rq # <<>> /\ Head(rq) = job)
  BY DEF TypeInv, TypeOK, FinishType, QueueType, ConsoleType, QueueNotEmpty, JobAssigned,
     QueueInv, RunningAtHead
<1>2. Algorithm # "RR" /\ (HeadOnly \/ stop = 0)
  BY DEF HeadOnly, Running
<1>3. ASSUME UNCHANGED <<rq, fq, cpu, job>>
      PROVE  Kept'
  BY <1>3 DEF Kept
<1>4. CASE start_time_thread
  BY <1>3, <1>4, TimerFrame DEF queueVars, finishVars, localVars
<1>5. CASE window_thread
  <2>1. PICK value \in {0, 1} : SetStop(value)
    BY <1>1, <1>5, ConsoleFrame
  <2> QED  BY <1>3, <2>1 DEF SetStop, queueVars, finishVars, localVars
<1>6. ASSUME NEW j \in Job, handle_connection(j)
      PROVE  Kept'
  <2>1. UNCHANGED <<fq, cpu, job>>
    BY <1>6, HandlerFrame DEF finishVars, localVars
  <2>2. CASE Link(j)
    <3>1. HeadOnly /\ rq # <<>> => rq' # <<>> /\ Head(rq') = Head(rq)
      <4>1. HeadOnly => rq' = Append(rq, j)
        BY <1>1, <2>2, InsertAppends DEF Link, QueueInv
      <4> QED  BY <1>1, <4>1, AppendProperties, HeadTailAppend
    <3> QED  BY <2>1, <3>1 DEF Kept
  <2>3. CASE Receive(j) \/ AwaitTick(j) \/ AwaitGo(j) \/ FillPcb(j)
    BY <1>3, <2>1, <2>3 DEF Receive, AwaitTick, AwaitGo, FillPcb, queueVars
  <2> QED  BY <1>6, <2>2, <2>3 DEF handle_connection
<1>7. CASE CpuStep
  <2>1. ASSUME cpu' \in Executing
        PROVE  Kept'
    BY <2>1 DEF Kept
  <2> USE DEF CpuGoto, CpuOnly, queueVars, finishVars, localVars
  <2>2. CASE IdleStep
    <3>1. cpu \notin Executing /\ UNCHANGED <<rq, fq, job>>
      BY <2>2, IdleFrame DEF Executing
    <3> QED  BY <3>1 DEF Kept
  <2>3. CASE \/ \E pcb \in Range(rq) : Pick({pcb})
             \/ ExecTest(Limit) \/ ReadClock \/ BatchTick \/ BatchVerify \/ Stats \/ DeleteAppend
    BY <2>1, <2>3 DEF Pick, ExecTest, ReadClock, BatchTick, BatchVerify, Stats, DeleteAppend, Executing
  <2>4. CASE Interrupted
    <3>1. stop = 1 /\ cpu \in Executing /\ UNCHANGED <<rq, fq, job>>
      BY <2>4 DEF Interrupted, Executing
    <3> QED  BY <1>1, <1>2, <3>1 DEF Kept
  <2>5. CASE DeleteUnlink
    <3>1. cpu = "unlink" /\ UNCHANGED <<fq, job>>
      BY <2>5 DEF DeleteUnlink
    <3>2. job \in Range(fq)
      BY <3>1 DEF OnceInv, Executing
    <3> QED  BY <3>1, <3>2 DEF Kept
  <2> QED  BY <1>1, <1>2, <1>7, <2>2, <2>3, <2>4, <2>5, TurnCases
<1>8. CASE UNCHANGED vars
  BY <1>3, <1>8 DEF vars, queueVars, finishVars, localVars
<1> QED  BY <1>4, <1>5, <1>6, <1>7, <1>8 DEF Next, Ended, CpuStep

(* A job that comes to its statistics has had its whole burst, unless the    *)
(* thread has left the loop of line 78 by its test of stop: then stop has    *)
(* been set since the previous job was finished.                             *)

InTurn == {"pick", "exec", "read", "wait", "verify", "stats", "append"}

ExecutedInv ==
  /\ cpu \in InTurn /\ stop = 1 => frozen.done = Len(fq)
  /\ cpu \in {"verify", "stats", "append"} => i >= burst[job] \/ frozen.done = Len(fq)

LEMMA ExecutedStep ==
  ASSUME Algorithm # "RR"
  PROVE  TypeInv /\ OnceInv /\ ExecutedInv /\ [Next]_vars => ExecutedInv'
<1> SUFFICES ASSUME TypeInv, OnceInv, ExecutedInv, [Next]_vars
             PROVE  ExecutedInv'
  OBVIOUS
<1>1. /\ rq \in Seq(Job) /\ fq \in Seq(Job) /\ stop \in {0, 1} /\ i \in Nat
      /\ burst \in [Job -> Int]
      /\ cpu = "pick" => rq # <<>>
      /\ cpu \in Executing => job \in Job /\ phase[job] = "queued"
  BY DEF TypeInv, TypeOK, FinishType, QueueType, ConsoleType, InputType, LocalType, QueueNotEmpty,
     JobAssigned, OnceInv
<1>2. ASSUME UNCHANGED <<fq, stop, frozen, cpu, job, i>>,
             cpu \in Executing => burst'[job] = burst[job]
      PROVE  ExecutedInv'
  BY <1>2 DEF ExecutedInv, Executing
<1>3. CASE start_time_thread
  BY <1>2, <1>3, TimerFrame DEF consoleVars, inputVars, finishVars, localVars
<1>4. CASE window_thread
  <2>1. PICK value \in {0, 1} : SetStop(value)
    BY <1>4, ConsoleFrame
  <2>2. stop' = value /\ UNCHANGED <<fq, cpu, job, i, burst>>
    BY <2>1 DEF SetStop, finishVars, localVars, inputVars
  <2>3. CASE stop = 0 /\ value = 1
    <3>1. frozen'.done = Len(fq)
      BY <2>1, <2>3 DEF SetStop
    <3> QED  BY <2>2, <3>1 DEF ExecutedInv
  <2>4. CASE ~(stop = 0 /\ value = 1)
    <3>1. frozen' = frozen
      BY <2>1, <2>4 DEF SetStop
    <3> QED  BY <1>1, <2>2, <2>4, <3>1 DEF ExecutedInv
  <2> QED  BY <2>3, <2>4
<1>5. ASSUME NEW j \in Job, handle_connection(j)
      PROVE  ExecutedInv'
  <2>1. UNCHANGED <<fq, stop, frozen, cpu, job, i>>
    BY <1>5, HandlerFrame DEF consoleVars, finishVars, localVars
  <2>2. burst' = burst \/ (phase[j] = "unsent" /\ \E b : burst' = [burst EXCEPT ![j] = b])
    BY <1>5 DEF handle_connection, Receive, AwaitTick, AwaitGo, FillPcb, Link, Goto, inputVars
  <2>3. cpu \in Executing => burst'[job] = burst[job]
    BY <1>1, <2>2
  <2> QED  BY <1>2, <2>1, <2>3
<1>6. CASE CpuStep
  <2>1. UNCHANGED <<stop, frozen, burst>>
    BY <1>1, <1>6, CpuFrame DEF consoleVars, inputVars
  <2> USE DEF CpuGoto, CpuOnly, finishVars, localVars
  <2>2. CASE IdleStep
    <3>1. UNCHANGED fq /\ cpu' \notin {"verify", "stats", "append"} /\ (cpu' \in InTurn => stop = 0)
      BY <2>2, IdleFrame
      DEF IdleStep, Resume, IdleEnter, IdleSpin, IdleExit, IdleLeave, Drained, GoOn, InTurn
    <3> QED  BY <2>1, <3>1 DEF ExecutedInv
  <2>3. CASE (\E pcb \in Range(rq) : Pick({pcb})) \/ ReadClock \/ BatchTick
    <3>1. /\ UNCHANGED fq /\ cpu' \notin {"verify", "stats", "append"}
          /\ cpu \in InTurn
      BY <2>3 DEF Pick, ReadClock, BatchTick, InTurn
    <3> QED  BY <2>1, <3>1 DEF ExecutedInv
  <2>4. CASE ExecTest(Limit)
    <3>1. /\ cpu = "exec" /\ UNCHANGED <<fq, job, i>>
          /\ cpu' = IF i < burst[job] /\ stop = 0 THEN "read" ELSE "verify"
      BY <2>4 DEF ExecTest, Limit
    <3>2. burst[job] \in Int
      BY <1>1, <3>1 DEF Executing
    <3> QED  BY <1>1, <2>1, <3>1, <3>2 DEF ExecutedInv, InTurn
  <2>5. CASE BatchVerify \/ Stats
    <3>1. /\ cpu \in {"verify", "stats"} /\ UNCHANGED <<fq, job, i>>
      BY <2>5 DEF BatchVerify, Stats
    <3> QED  BY <2>1, <3>1 DEF ExecutedInv, InTurn
  <2>6. CASE Interrupted \/ DeleteAppend \/ DeleteUnlink
    <3>1. cpu' \notin InTurn
      BY <2>6 DEF Interrupted, DeleteAppend, DeleteUnlink, InTurn
    <3> QED  BY <3>1 DEF ExecutedInv, InTurn
  <2> QED  BY <1>1, <1>6, <2>2, <2>3, <2>4, <2>5, <2>6, TurnCases
<1>7. CASE UNCHANGED vars
  BY <1>2, <1>7 DEF vars, consoleVars, inputVars, finishVars, localVars
<1> QED  BY <1>3, <1>4, <1>5, <1>6, <1>7 DEF Next, Ended, CpuStep

(* Only delete appends to FQ, and it appends the job that was executed.      *)
LEMMA ExecutedWhole ==
  ASSUME TypeInv, ExecutedInv, Next, NEW j \in Range(fq') \ Range(fq)
  PROVE  i >= burst[j] \/ frozen.done = Len(fq)
<1>1. rq \in Seq(Job) /\ fq \in Seq(Job) /\ (cpu = "pick" => rq # <<>>)
  BY DEF TypeInv, TypeOK, FinishType, QueueType, QueueNotEmpty
<1>2. CpuStep
  <2>1. start_time_thread => fq' = fq
    BY TimerFrame DEF finishVars
  <2>2. window_thread => fq' = fq
    BY ConsoleFrame DEF SetStop, finishVars
  <2>3. \A k \in Job : handle_connection(k) => fq' = fq
    BY HandlerFrame DEF finishVars
  <2> QED  BY <2>1, <2>2, <2>3 DEF Next, Ended, CpuStep, vars, finishVars
<1>3. DeleteAppend
  BY <1>1, <1>2, TurnCases
  DEF IdleStep, Resume, IdleEnter, IdleSpin, IdleExit, IdleLeave, Drained, GoOn, Pick, ExecTest,
      ReadClock, BatchTick, BatchVerify, QuantumTick, QuantumVerify, Rotate, Interrupted, Stats,
      DeleteUnlink, finishVars
<1>4. cpu = "append" /\ fq' = Append(fq, job) /\ job \in Job
  BY <1>3 DEF DeleteAppend, CpuGoto, TypeInv, JobAssigned, Executing
<1>5. j = job
  BY <1>1, <1>4, AppendProperties DEF Range
<1> QED  BY <1>4, <1>5 DEF ExecutedInv

(* fifo takes another job only after it has finished the previous one,       *)
(* whatever the operator does; shortestJobFirst and highestPriorityFirst, if *)
(* nobody sets stop.  And what they finish has had its whole burst, unless   *)
(* stop was set since they finished the job before it (cpuscheduler.h:62-112,*)
(* 164-215, 267-319).                                                        *)
THEOREM RunsUntilFinishedHolds ==
  ASSUME Algorithm = "FIFO" \/ (Algorithm \in {"SJF", "HPF"} /\ Unattended)
  PROVE  Spec => RunsUntilFinished
<1>1. Init => Kept /\ ExecutedInv
  BY DEF Init, Kept, ExecutedInv, InTurn
<1>2. TypeInv /\ Kept /\ Next => (cpu = "pick" /\ job # NULL /\ job' # job => job \in Range(fq))
  <2> SUFFICES ASSUME TypeInv, Kept, Next, cpu = "pick", job # NULL, job' # job
               PROVE  job \in Range(fq)
    OBVIOUS
  <2>1. /\ rq \in Seq(Job) /\ rq # <<>> /\ before \in {0, 1}
        /\ job \in Range(fq) \/ (HeadOnly /\ Head(rq) = job)
    BY DEF TypeInv, TypeOK, QueueType, ConsoleType, QueueNotEmpty, Kept, Executing
  <2>2. CpuStep
    <3>1. start_time_thread => job' = job
      BY TimerFrame DEF localVars
    <3>2. window_thread => job' = job
      BY <2>1, ConsoleFrame DEF SetStop, localVars
    <3>3. \A j \in Job : handle_connection(j) => job' = job
      BY HandlerFrame DEF localVars
    <3> QED  BY <3>1, <3>2, <3>3 DEF Next, Ended, CpuStep, vars, localVars
  <2>3. PICK pcb \in Range(rq) : Pick({pcb}) /\ (HeadOnly => pcb = Head(rq))
    BY <2>1, <2>2, TurnCases
    DEF IdleStep, Resume, IdleEnter, IdleSpin, IdleExit, IdleLeave, Drained, GoOn, ExecTest, ReadClock,
        BatchTick, BatchVerify, QuantumTick, QuantumVerify, Rotate, Interrupted, Stats, DeleteAppend,
        DeleteUnlink, CpuGoto, localVars
  <2> QED  BY <2>1, <2>3 DEF Pick
<1>3. TypeInv /\ Kept /\ ExecutedInv /\ [Next]_vars
      => [/\ cpu = "pick" /\ job # NULL /\ job' # job => job \in Range(fq)
          /\ \A j \in Range(fq') \ Range(fq) : i >= burst[j] \/ frozen.done = Len(fq)]_vars
  BY <1>2, ExecutedWhole
<1>4. TypeInv /\ OnceInv /\ ExecutedInv /\ [Next]_vars => ExecutedInv'
  BY ExecutedStep
<1>5. CASE Algorithm = "FIFO"
  <2>1. HeadOnly
    BY <1>5 DEF HeadOnly
  <2>2. QueueInv => (HeadOnly => QueueInv) /\ (Algorithm # "FIFO" => Running)
    BY <1>5
  <2> QED  BY <1>1, <1>3, <1>4, <2>1, <2>2, KeptStep, AlwaysQueueInv, AlwaysOnceInv, AlwaysTypeInv, PTL
           DEF Spec, RunsUntilFinished
<1>6. CASE Algorithm \in {"SJF", "HPF"} /\ Unattended
  <2>1. Unattended
    BY <1>6
  <2>2. Running => (HeadOnly => QueueInv) /\ (Algorithm # "FIFO" => Running)
    BY <1>6 DEF HeadOnly
  <2> QED  BY <1>1, <1>3, <1>4, <2>1, <2>2, KeptStep, AlwaysRunning, AlwaysOnceInv, AlwaysTypeInv, PTL
           DEF Spec, RunsUntilFinished
<1> QED  BY <1>5, <1>6

-----------------------------------------------------------------------------
(* Passing.  Only moveFirstToLast lets a job of the queue pass another one,  *)
(* and the one that is passed is the head.                                   *)

LEMMA NobodyPasses ==
  ASSUME NEW S, NEW queue \in Seq(S), IsInjective(queue), NEW j, NEW k, Ahead(queue, j, k)
  PROVE  /\ ~Ahead(queue, k, j)
         /\ \A pcb \in S : ~Ahead(Append(queue, pcb), k, j) \/ pcb = j
         /\ queue # <<>> => ~Ahead(Tail(queue), k, j)
<1>1. DOMAIN queue = 1 .. Len(queue) /\ Len(queue) \in Nat
  BY LenProperties
<1>2. PICK m \in DOMAIN queue, n \in DOMAIN queue : m < n /\ queue[m] = j /\ queue[n] = k
  BY DEF Ahead
<1>3. \A x, y \in DOMAIN queue : queue[x] = k /\ queue[y] = j => ~(x < y)
  BY <1>1, <1>2 DEF IsInjective
<1>4. ASSUME NEW pcb \in S, Ahead(Append(queue, pcb), k, j)
      PROVE  pcb = j
  <2> DEFINE longer == Append(queue, pcb)
  <2>1. /\ DOMAIN longer = 1 .. Len(queue) + 1 /\ longer[Len(queue) + 1] = pcb
        /\ \A x \in 1 .. Len(queue) : longer[x] = queue[x]
    BY <1>1, AppendProperties, LenProperties
  <2> HIDE DEF longer
  <2>2. PICK x \in DOMAIN longer, y \in DOMAIN longer : x < y /\ longer[x] = k /\ longer[y] = j
    BY <1>4 DEF Ahead, longer
  <2>3. y = Len(queue) + 1 \/ (x \in DOMAIN queue /\ y \in DOMAIN queue)
    BY <1>1, <2>1, <2>2
  <2> QED  BY <1>1, <1>3, <2>1, <2>2, <2>3
<1>5. ASSUME queue # <<>>
      PROVE  ~Ahead(Tail(queue), k, j)
  <2> DEFINE rest == Tail(queue)
  <2>1. /\ DOMAIN rest = 1 .. Len(queue) - 1 /\ Len(queue) # 0
        /\ \A x \in DOMAIN rest : rest[x] = queue[x + 1]
    BY <1>1, <1>5, HeadTailProperties, EmptySeq, LenProperties
  <2> HIDE DEF rest
  <2>2. \A x \in DOMAIN rest : x + 1 \in DOMAIN queue /\ x \in Int
    BY <1>1, <2>1
  <2>3. \A x, y \in DOMAIN rest : rest[x] = k /\ rest[y] = j => ~(x < y)
    BY <1>3, <2>1, <2>2
  <2> QED  BY <2>3 DEF Ahead, rest
<1> QED  BY <1>1, <1>2, <1>3, <1>4, <1>5 DEF Ahead

LEMMA HeadIsPassed ==
  ASSUME NEW S, NEW queue \in Seq(S), IsInjective(queue), queue # <<>>, NEW j, NEW k,
         Ahead(queue, j, k), Ahead(moveFirstToLast(queue), k, j)
  PROVE  j = Head(queue)
<1> DEFINE rest == Tail(queue)
           first == Head(queue)
<1>1. rest \in Seq(S) /\ first \in S /\ first = queue[1] /\ IsInjective(rest)
  BY TailFacts, HeadTailProperties
<1>2. Len(queue) \in Nat \ {0} /\ Len(rest) = Len(queue) - 1 /\ DOMAIN queue = 1 .. Len(queue)
      /\ DOMAIN rest = 1 .. Len(rest) /\ \A x \in DOMAIN rest : rest[x] = queue[x + 1]
  BY HeadTailProperties, EmptySeq, LenProperties
<1> HIDE DEF rest, first
<1>3. SUFFICES ASSUME j # first
               PROVE  FALSE
  BY DEF first
<1>4. PICK m \in DOMAIN queue, n \in DOMAIN queue : m < n /\ queue[m] = j /\ queue[n] = k
  BY DEF Ahead
<1>5. m - 1 \in DOMAIN rest /\ n - 1 \in DOMAIN rest /\ m - 1 < n - 1
      /\ rest[m - 1] = j /\ rest[n - 1] = k
  BY <1>1, <1>2, <1>3, <1>4
<1>6. Ahead(rest, j, k)
  BY <1>5 DEF Ahead
<1>7. Ahead(Append(rest, first), k, j)
  BY DEF moveFirstToLast, rest, first
<1> QED  BY <1>1, <1>3, <1>6, <1>7, NobodyPasses

Expired ==
  /\ cpu = "verify" => finished = TRUE \/ i >= Quantum
  /\ cpu = "rotate" => i >= Quantum

LEMMA ExpiredStep ==
  ASSUME Algorithm = "RR"
  PROVE  Running /\ TypeInv /\ Expired /\ [Next]_vars => Expired'
<1> SUFFICES ASSUME Running, TypeInv, Expired, [Next]_vars
             PROVE  Expired'
  OBVIOUS
<1>1. rq \in Seq(Job) /\ (cpu = "pick" => rq # <<>>) /\ before \in {0, 1} /\ i \in Nat
      /\ finished \in BOOLEAN
  BY DEF TypeInv, TypeOK, QueueType, ConsoleType, LocalType, QueueNotEmpty
<1>2. ASSUME UNCHANGED <<cpu, localVars>>
      PROVE  Expired'
  BY <1>2 DEF Expired, localVars
<1>3. CASE CpuStep
  <2> USE DEF CpuGoto, localVars
  <2>1. ASSUME cpu' \notin {"verify", "rotate"}
        PROVE  Expired'
    BY <2>1 DEF Expired
  <2>2. CASE IdleStep \/ (\E pcb \in Range(rq) : Pick({pcb})) \/ ReadClock
             \/ Interrupted \/ Stats \/ DeleteAppend \/ DeleteUnlink \/ Rotate
    BY <2>1, <2>2, IdleFrame DEF Pick, ReadClock, Interrupted, Stats, DeleteAppend, DeleteUnlink, Rotate
  <2>3. CASE ExecTest(Limit)
    BY <1>1, <2>3, QuantumAssumption DEF ExecTest, Limit, Running, Expired
  <2>4. CASE QuantumTick
    BY <2>4 DEF QuantumTick, Expired
  <2>5. CASE QuantumVerify
    <3>1. cpu = "verify" /\ UNCHANGED i /\ cpu' = IF finished THEN "stats" ELSE "rotate"
      BY <2>5 DEF QuantumVerify
    <3>2. finished = TRUE \/ finished = FALSE
      BY <1>1, Zenon
    <3> QED  BY <3>1, <3>2 DEF Expired
  <2> QED  BY <1>1, <1>3, <2>2, <2>3, <2>4, <2>5, TurnCases
<1> QED  BY <1>1, <1>2, <1>3, TimerFrame, ConsoleFrame, HandlerFrame
         DEF Next, Ended, CpuStep, SetStop, vars

(* While nobody sets stop, roundRobin lets a job of the queue pass another   *)
(* one only after the other, at the head, has used up its quantum            *)
(* (cpuscheduler.h:393-444, jobscheduler.h:120-127).                         *)
THEOREM PassedAfterQuantumHolds ==
  ASSUME Algorithm = "RR", Unattended
  PROVE  Spec => PassedAfterQuantum
<1>1. Init => Expired
  BY DEF Init, Expired
<1>2. TypeInv /\ QueueInv /\ Expired /\ [Next]_vars
      => [\A j, k \in Job : Ahead(rq, j, k) /\ Ahead(rq', k, j) => j = job /\ i >= Quantum]_vars
  <2> SUFFICES ASSUME TypeInv, QueueInv, Expired, Next,
                      NEW j \in Job, NEW k \in Job, Ahead(rq, j, k), Ahead(rq', k, j)
               PROVE  j = job /\ i >= Quantum
    OBVIOUS
  <2>1. /\ rq \in Seq(Job) /\ (cpu = "pick" => rq # <<>>) /\ before \in {0, 1}
        /\ IsInjective(rq) /\ TailLinked(rq, last)
        /\ cpu \in Executing => rq # <<>> /\ Head(rq) = job
    BY DEF TypeInv, TypeOK, QueueType, ConsoleType, QueueNotEmpty, QueueInv, RunningAtHead
  <2>2. rq' # rq
    BY <2>1, NobodyPasses
  <2>3. \A pcb \in Job : ~Link(pcb)
    <3> SUFFICES ASSUME NEW pcb \in Job, Link(pcb)
                 PROVE  FALSE
      OBVIOUS
    <3>1. rq' = Append(rq, pcb) /\ phase[pcb] = "link"
      BY <2>1, InsertAppends DEF Link, Goto
    <3>2. pcb = j
      BY <2>1, <3>1, NobodyPasses
    <3>3. j \in Range(rq)
      BY DEF Ahead, Range
    <3> QED  BY <3>1, <3>2, <3>3 DEF QueueInv
  <2>4. CpuStep
    <3>1. start_time_thread => rq' = rq
      BY TimerFrame DEF queueVars
    <3>2. window_thread => rq' = rq
      BY <2>1, ConsoleFrame DEF SetStop, queueVars
    <3>3. \A pcb \in Job : handle_connection(pcb) => rq' = rq \/ Link(pcb)
      BY DEF handle_connection, Receive, AwaitTick, AwaitGo, FillPcb, queueVars
    <3> QED  BY <2>2, <2>3, <3>1, <3>2, <3>3 DEF Next, Ended, CpuStep, vars, queueVars
  <2>5. Rotate \/ DeleteUnlink
    <3>1. IdleStep => rq' = rq
      BY IdleFrame DEF queueVars
    <3>2. (\E pcb \in Range(rq) : Pick({pcb})) \/ ExecTest(Limit) => rq' = rq
      BY DEF Pick, ExecTest, CpuOnly, queueVars
    <3>3. ReadClock \/ BatchTick \/ BatchVerify \/ QuantumTick \/ QuantumVerify
          \/ Interrupted \/ Stats \/ DeleteAppend => rq' = rq
      BY DEF ReadClock, BatchTick, BatchVerify, QuantumTick, QuantumVerify, Interrupted, Stats,
         DeleteAppend, CpuOnly, queueVars
    <3> QED  BY <2>1, <2>2, <2>4, <3>1, <3>2, <3>3, TurnCases
  <2>6. CASE DeleteUnlink
    <3>1. rq # <<>> /\ rq' = Tail(rq)
      BY <2>1, <2>6, UnlinkHead DEF DeleteUnlink, CpuGoto, Executing
    <3> QED  BY <2>1, <3>1, NobodyPasses
  <2>7. CASE Rotate
    <3>1. rq # <<>> /\ Head(rq) = job /\ rq' = moveFirstToLast(rq) /\ i >= Quantum
      BY <2>1, <2>7 DEF Rotate, CpuGoto, Executing, Expired
    <3> QED  BY <2>1, <3>1, HeadIsPassed
  <2> QED  BY <2>5, <2>6, <2>7
<1>3. HeadOnly
  BY DEF HeadOnly
<1> QED  BY <1>1, <1>2, <1>3, ExpiredStep, AlwaysRunning, AlwaysQueueInv, AlwaysTypeInv, PTL
         DEF Spec, PassedAfterQuantum

=============================================================================
