----------------------------- MODULE TimeProofs -----------------------------
(***************************************************************************)
(* How far the threads of CpuScheduler may still go once stop is set, and  *)
(* what time they book.                                                    *)
(***************************************************************************)
EXTENDS CpuSchedulerProofs, FiniteSetTheorems

-----------------------------------------------------------------------------
(* The clock.  A timer that sleeps when stop is set ticks once more; after   *)
(* that it is at its test of stop.                                           *)

ClockInv == stop = 1 => /\ timesf <= frozen.time + 1
                        /\ timer = "sleep" => timesf <= frozen.time

LEMMA ClockStep == TypeInv /\ ClockInv /\ [Next]_vars => ClockInv'
<1> SUFFICES ASSUME TypeInv, ClockInv, [Next]_vars
             PROVE  ClockInv'
  OBVIOUS
<1>1. /\ timesf \in Nat /\ frozen.time \in Nat /\ before \in {0, 1} /\ stop \in {0, 1}
      /\ frozen \in [time : Nat, done : Int, linked : Nat]
      /\ rq \in Seq(Job)
      /\ cpu = "pick" => rq # <<>>
  BY DEF TypeInv, TypeOK, ClockType, ConsoleType, QueueType, QueueNotEmpty
<1>2. CASE start_time_thread
  <2>1. UNCHANGED <<stop, frozen>>
    BY <1>2, TimerFrame DEF consoleVars
  <2>2. CASE TimerTest
    BY <1>1, <2>1, <2>2 DEF TimerTest, ClockInv
  <2>3. CASE TimerTick
    BY <1>1, <2>1, <2>3 DEF TimerTick, ClockInv
  <2> QED  BY <1>2, <2>2, <2>3 DEF start_time_thread
<1>3. CASE window_thread
  <2>1. PICK value \in {0, 1} : SetStop(value)
    BY <1>1, <1>3, ConsoleFrame
  <2>2. UNCHANGED <<timesf, timer>> /\ stop' = value
    BY <2>1 DEF SetStop, clockVars
  <2>3. CASE stop = 0 /\ value = 1
    <3>1. frozen'.time = timesf
      BY <2>1, <2>3 DEF SetStop
    <3> QED  BY <1>1, <2>2, <3>1 DEF ClockInv
  <2>4. CASE ~(stop = 0 /\ value = 1)
    <3>1. frozen' = frozen
      BY <2>1, <2>4 DEF SetStop
    <3> QED  BY <1>1, <2>2, <2>4, <3>1 DEF ClockInv
  <2> QED  BY <2>3, <2>4
<1>4. ASSUME UNCHANGED <<clockVars, consoleVars>>
      PROVE  ClockInv'
  BY <1>4 DEF ClockInv, clockVars, consoleVars
<1>5. CASE \E j \in Job : handle_connection(j)
  BY <1>4, <1>5, HandlerFrame
<1>6. CASE CpuStep
  BY <1>1, <1>4, <1>6, CpuFrame
<1>7. CASE UNCHANGED vars
  BY <1>4, <1>7 DEF vars
<1> QED  BY <1>2, <1>3, <1>5, <1>6, <1>7 DEF Next, Ended, CpuStep

(* While stop is set TIMESF advances at most once more (server.c:343-353).   *)
THEOREM FrozenClockHolds == Spec => []FrozenClock
<1>1. Init => ClockInv
  BY DEF Init, ClockInv
<1>2. ClockInv => FrozenClock
  BY DEF ClockInv, FrozenClock
<1> QED  BY <1>1, <1>2, ClockStep, AlwaysTypeInv, PTL DEF Spec

-----------------------------------------------------------------------------
(* The CPU thread.  Only a job that was verified before stop was set, and so *)
(* is on its way to FQ, can still be finished.                               *)

DoneInv == stop = 1 => /\ Len(fq) <= frozen.done + 1
                       /\ cpu \in {"stats", "append"} => Len(fq) <= frozen.done

LEMMA CpuFinishes ==
  ASSUME rq \in Seq(Job), cpu = "pick" => rq # <<>>, CpuStep
  PROVE  \/ fq' = fq /\ (cpu' \in {"stats", "append"} => cpu = "stats" \/ stop = 0)
         \/ cpu = "append" /\ cpu' = "unlink" /\ fq' = Append(fq, job)
<1>1. CASE \/ Resume \/ IdleLeave \/ Drained \/ GoOn \/ Interrupted \/ BatchVerify \/ QuantumVerify
           \/ \E limit : ExecTest(limit)
  BY <1>1 DEF Resume, IdleLeave, Drained, GoOn, Interrupted, BatchVerify, QuantumVerify, ExecTest,
     CpuGoto, finishVars
<1>2. CASE \/ IdleEnter \/ IdleSpin \/ ReadClock \/ IdleExit
           \/ \E candidates \in SUBSET Job : Pick(candidates)
  BY <1>2 DEF IdleEnter, IdleSpin, ReadClock, IdleExit, Pick, CpuGoto, finishVars
<1>3. CASE Stats \/ DeleteAppend
  BY <1>3 DEF Stats, DeleteAppend, CpuGoto
<1>4. CASE DeleteUnlink \/ Rotate
  BY <1>4 DEF DeleteUnlink, Rotate, CpuGoto, finishVars
<1>5. CASE BatchTick \/ QuantumTick
  BY <1>5 DEF BatchTick, QuantumTick, CpuGoto, finishVars
<1> QED  BY <1>1, <1>2, <1>3, <1>4, <1>5, CpuCases

LEMMA DoneStep == TypeInv /\ DoneInv /\ [Next]_vars => DoneInv'
<1> SUFFICES ASSUME TypeInv, DoneInv, [Next]_vars
             PROVE  DoneInv'
  OBVIOUS
<1>1. /\ fq \in Seq(Job) /\ Len(fq) \in Nat /\ before \in {0, 1} /\ stop \in {0, 1}
      /\ frozen \in [time : Nat, done : Int, linked : Nat] /\ frozen.done \in Int
      /\ rq \in Seq(Job)
      /\ cpu = "pick" => rq # <<>>
      /\ cpu \in Executing => job \in Job
  BY LenProperties DEF TypeInv, TypeOK, FinishType, ConsoleType, QueueType, QueueNotEmpty, JobAssigned
<1>2. ASSUME UNCHANGED <<stop, frozen, fq, cpu>>
      PROVE  DoneInv'
  BY <1>2 DEF DoneInv
<1>3. CASE start_time_thread
  BY <1>2, <1>3, TimerFrame DEF consoleVars, finishVars
<1>4. CASE window_thread
  <2>1. PICK value \in {0, 1} : SetStop(value)
    BY <1>1, <1>4, ConsoleFrame
  <2>2. UNCHANGED <<fq, cpu>> /\ stop' = value
    BY <2>1 DEF SetStop, finishVars
  <2>3. CASE stop = 0 /\ value = 1
    <3>1. frozen'.done = Len(fq)
      BY <2>1, <2>3 DEF SetStop
    <3> QED  BY <1>1, <2>2, <3>1 DEF DoneInv
  <2>4. CASE ~(stop = 0 /\ value = 1)
    <3>1. frozen' = frozen
      BY <2>1, <2>4 DEF SetStop
    <3> QED  BY <1>1, <2>2, <2>4, <3>1 DEF DoneInv
  <2> QED  BY <2>3, <2>4
<1>5. CASE \E j \in Job : handle_connection(j)
  BY <1>2, <1>5, HandlerFrame DEF consoleVars, finishVars
<1>6. CASE CpuStep
  <2>1. UNCHANGED <<stop, frozen>>
    BY <1>1, <1>6, CpuFrame DEF consoleVars
  <2>2. CASE fq' = fq /\ (cpu' \in {"stats", "append"} => cpu = "stats" \/ stop = 0)
    BY <1>1, <2>1, <2>2 DEF DoneInv
  <2>3. CASE cpu = "append" /\ cpu' = "unlink" /\ fq' = Append(fq, job)
    <3>1. job \in Job
      BY <1>1, <2>3 DEF Executing
    <3>2. Len(fq') = Len(fq) + 1
      BY <1>1, <2>3, <3>1, AppendProperties
    <3> QED  BY <1>1, <2>1, <2>3, <3>2 DEF DoneInv
  <2> QED  BY <1>1, <1>6, <2>2, <2>3, CpuFinishes
<1>7. CASE UNCHANGED vars
  BY <1>2, <1>7 DEF vars, consoleVars, finishVars
<1> QED  BY <1>3, <1>4, <1>5, <1>6, <1>7 DEF Next, Ended, CpuStep

(* While stop is set the CPU finishes at most one more job, under every      *)
(* algorithm (cpuscheduler.h:63, 90 and their copies).                       *)
THEOREM FrozenCpuHolds == Spec => []FrozenCpu
<1>1. Init => DoneInv
  BY EmptySeq DEF Init, DoneInv
<1>2. DoneInv => FrozenCpu
  BY DEF DoneInv, FrozenCpu
<1> QED  BY <1>1, <1>2, DoneStep, AlwaysTypeInv, PTL DEF Spec

-----------------------------------------------------------------------------
(* The connections.  A handler that is past its test of stop counts as one   *)
(* arrival to come, and there are never more of them than connections.       *)

Past == {j \in Job : phase[j] \in {"args", "link"}}

ArrivalInv ==
  /\ Cardinality(Serving) <= Connections
  /\ stop = 1 => Len(arrived) + Cardinality(Past) <= frozen.linked + Connections

LEMMA HandlersCounted ==
  /\ IsFiniteSet(Serving) /\ Cardinality(Serving) \in Nat
  /\ IsFiniteSet(Past) /\ Cardinality(Past) \in Nat
  /\ Cardinality(Past) <= Cardinality(Serving)
<1>1. Serving \in SUBSET Job /\ Past \in SUBSET Serving
  BY DEF Serving, Past
<1>2. IsFiniteSet(Serving)
  BY <1>1, JobAssumption, FS_Subset
<1>3. IsFiniteSet(Past) /\ Cardinality(Past) <= Cardinality(Serving)
  BY <1>1, <1>2, FS_Subset
<1> QED  BY <1>2, <1>3, FS_CardinalityType

(* What a handler's step does to the two sets.                               *)
LEMMA HandlerMoves ==
  ASSUME NEW j \in Job, HandlerType, handle_connection(j)
  PROVE  \/ /\ Serving' = Serving \cup {j} /\ Cardinality(Serving) < Connections
            /\ Past' = Past /\ UNCHANGED arrived
         \/ /\ Serving' \subseteq Serving
            /\ Past' = Past \/ stop = 0
            /\ UNCHANGED arrived
         \/ /\ Serving' \subseteq Serving
            /\ j \in Past /\ Past' = Past \ {j} /\ arrived' = Append(arrived, j)
<1> USE DEF HandlerType, Goto, Serving, Past
<1>1. CASE Receive(j)
  BY <1>1 DEF Receive, queueVars
<1>2. CASE AwaitTick(j)
  BY <1>2 DEF AwaitTick, queueVars
<1>3. CASE AwaitGo(j)
  BY <1>3 DEF AwaitGo, queueVars
<1>4. CASE FillPcb(j)
  BY <1>4 DEF FillPcb, queueVars
<1>5. CASE Link(j)
  BY <1>5 DEF Link
<1> QED  BY <1>1, <1>2, <1>3, <1>4, <1>5 DEF handle_connection

LEMMA ArrivalStep == TypeInv /\ ArrivalInv /\ [Next]_vars => ArrivalInv'
<1> SUFFICES ASSUME TypeInv, ArrivalInv, [Next]_vars
             PROVE  ArrivalInv'
  OBVIOUS
<1>1. /\ arrived \in Seq(Job) /\ Len(arrived) \in Nat
      /\ before \in {0, 1} /\ stop \in {0, 1}
      /\ frozen \in [time : Nat, done : Int, linked : Nat] /\ frozen.linked \in Nat
      /\ HandlerType
      /\ rq \in Seq(Job)
      /\ cpu = "pick" => rq # <<>>
  BY LenProperties DEF TypeInv, TypeOK, ConsoleType, QueueType, QueueNotEmpty
<1>2. /\ IsFiniteSet(Serving) /\ Cardinality(Serving) \in Nat
      /\ IsFiniteSet(Past) /\ Cardinality(Past) \in Nat
      /\ Cardinality(Past) <= Cardinality(Serving)
      /\ Cardinality(Serving) <= Connections /\ Connections \in Nat
  BY HandlersCounted, ConnectionsAssumption DEF ArrivalInv
<1>3. UNCHANGED phase => Serving' = Serving /\ Past' = Past
  BY DEF Serving, Past
<1>4. ASSUME UNCHANGED <<stop, frozen, phase, arrived>>
      PROVE  ArrivalInv'
  BY <1>3, <1>4 DEF ArrivalInv
<1>5. CASE start_time_thread
  BY <1>4, <1>5, TimerFrame DEF consoleVars, handlerVars, queueVars
<1>6. CASE window_thread
  <2>1. PICK value \in {0, 1} : SetStop(value)
    BY <1>1, <1>6, ConsoleFrame
  <2>2. UNCHANGED <<phase, arrived>> /\ stop' = value
    BY <2>1 DEF SetStop, handlerVars, queueVars
  <2>3. CASE stop = 0 /\ value = 1
    <3>1. frozen'.linked = Len(arrived)
      BY <2>1, <2>3 DEF SetStop
    <3>2. Cardinality(Serving') <= Connections /\ Cardinality(Past') <= Connections
      BY <1>2, <1>3, <2>2
    <3>3. Len(arrived') + Cardinality(Past') <= frozen'.linked + Connections
      BY <1>1, <1>2, <1>3, <2>2, <3>1, <3>2
    <3> QED  BY <3>2, <3>3 DEF ArrivalInv
  <2>4. CASE ~(stop = 0 /\ value = 1)
    <3>1. frozen' = frozen
      BY <2>1, <2>4 DEF SetStop
    <3> QED  BY <1>1, <1>3, <2>2, <2>4, <3>1 DEF ArrivalInv
  <2> QED  BY <2>3, <2>4
<1>7. ASSUME NEW j \in Job, handle_connection(j)
      PROVE  ArrivalInv'
  <2>1. UNCHANGED <<stop, frozen>>
    BY <1>7, HandlerFrame DEF consoleVars
  <2>2. CASE /\ Serving' = Serving \cup {j} /\ Cardinality(Serving) < Connections
             /\ Past' = Past /\ UNCHANGED arrived
    <3>1. Cardinality(Serving') <= Connections
      <4>1. Cardinality(Serving \cup {j}) \in {Cardinality(Serving), Cardinality(Serving) + 1}
        BY <1>2, FS_AddElement
      <4>2. Cardinality(Serving') \in {Cardinality(Serving), Cardinality(Serving) + 1}
        BY <2>2, <4>1
      <4> QED  BY <1>2, <2>2, <4>2
    <3> QED  BY <2>1, <2>2, <3>1 DEF ArrivalInv
  <2>3. ASSUME Serving' \subseteq Serving
        PROVE  Cardinality(Serving') <= Connections
    <3>1. Serving' \in SUBSET Serving
      BY <2>3
    <3>2. IsFiniteSet(Serving') /\ Cardinality(Serving') <= Cardinality(Serving)
      BY <1>2, <3>1, FS_Subset
    <3>3. Cardinality(Serving') \in Nat
      BY <3>2, FS_CardinalityType
    <3> QED  BY <1>2, <3>2, <3>3
  <2>4. CASE /\ Serving' \subseteq Serving
             /\ Past' = Past \/ stop = 0
             /\ UNCHANGED arrived
    BY <2>1, <2>3, <2>4 DEF ArrivalInv
  <2>5. CASE /\ Serving' \subseteq Serving
             /\ j \in Past /\ Past' = Past \ {j} /\ arrived' = Append(arrived, j)
    <3>1. Cardinality(Past') = Cardinality(Past) - 1
      BY <1>2, <2>5, FS_RemoveElement
    <3>2. Len(arrived') = Len(arrived) + 1
      BY <1>1, <2>5, AppendProperties
    <3>3. Len(arrived') + Cardinality(Past') = Len(arrived) + Cardinality(Past)
      BY <1>1, <1>2, <3>1, <3>2
    <3> QED  BY <2>1, <2>3, <2>5, <3>3 DEF ArrivalInv
  <2> QED  BY <1>1, <1>7, <2>2, <2>4, <2>5, HandlerMoves
<1>8. CASE CpuStep
  BY <1>1, <1>4, <1>8, CpuFrame DEF consoleVars, handlerVars
<1>9. CASE UNCHANGED vars
  BY <1>4, <1>9 DEF vars, consoleVars, handlerVars, queueVars
<1> QED  BY <1>5, <1>6, <1>7, <1>8, <1>9 DEF Next, Ended, CpuStep

(* While stop is set at most one job per connection is still inserted        *)
(* (server.c:139-160).                                                       *)
THEOREM FrozenQueueHolds == Spec => []FrozenQueue
<1>1. Init => ArrivalInv
  <2> SUFFICES ASSUME Init
               PROVE  ArrivalInv
    OBVIOUS
  <2>1. Serving = {}
    BY DEF Init, Serving
  <2> QED  BY <2>1, FS_EmptySet, ConnectionsAssumption DEF Init, ArrivalInv
<1>2. TypeInv /\ ArrivalInv => FrozenQueue
  <2> SUFFICES ASSUME TypeInv, ArrivalInv
               PROVE  FrozenQueue
    OBVIOUS
  <2>1. Len(arrived) \in Nat /\ frozen.linked \in Nat
    BY LenProperties DEF TypeInv, TypeOK, QueueType, ConsoleType
  <2> QED  BY <2>1, HandlersCounted, ConnectionsAssumption DEF ArrivalInv, FrozenQueue
<1> QED  BY <1>1, <1>2, ArrivalStep, AlwaysTypeInv, PTL DEF Spec

-----------------------------------------------------------------------------
(* No time is booked twice: not as idle and as executed, and not for two     *)
(* jobs.                                                                     *)

(* TimeAccounted alone is not inductive.  While the CPU thread waits for the *)
(* clock to leave t0 everything up to t0 may be booked already, and the      *)
(* second under way is booked when the wait ends.  One second more than the  *)
(* clock shows can have been booked per job, when it ended an idle second    *)
(* early: that of a job in FQ, or that of the jobs in the queue, one in all. *)
(* When the CPU waits idle or unlinks a job, the queue has used up its one.  *)

Origin == IF cpu \in {"spin", "wait"} THEN t0 ELSE timesf

Slack == IF cpu \in {"spin", "unlink"} \/ rq = <<>> THEN 0 ELSE 1

TimeInv ==
  /\ cpu \in {"spin", "wait"} => t0 <= timesf
  /\ cpuOcioso + busy <= Origin + Len(fq) + Slack

LEMMA TimeStep == TypeInv /\ TimeInv /\ [Next]_vars => TimeInv'
<1> SUFFICES ASSUME TypeInv, TimeInv, [Next]_vars
             PROVE  TimeInv'
  OBVIOUS
<1>1. /\ timesf \in Nat /\ t0 \in Nat /\ cpuOcioso \in Nat /\ busy \in Nat
      /\ fq \in Seq(Job) /\ Len(fq) \in Nat
      /\ rq \in Seq(Job)
      /\ before \in {0, 1}
      /\ cpu \in Executing \cup {"pick"} => rq # <<>>
      /\ cpu \in Executing => job \in Job
      /\ cpu = "pick" => rq # <<>>
  BY LenProperties DEF TypeInv, TypeOK, ClockType, LocalType, WorkType, FinishType, QueueType,
     ConsoleType, QueueNotEmpty, JobAssigned
<1>2. ASSUME UNCHANGED <<cpu, t0, cpuOcioso, busy, fq>>,
             timesf' \in {timesf, timesf + 1},
             rq # <<>> => rq' # <<>>
      PROVE  TimeInv'
  <2>1. Slack' \in {Slack, 1} /\ Slack \in {0, 1}
    BY <1>2 DEF Slack
  <2>2. Origin' \in {Origin, Origin + 1} /\ Origin \in Nat
    BY <1>1, <1>2 DEF Origin
  <2>3. cpu' \in {"spin", "wait"} => t0' <= timesf'
    BY <1>1, <1>2 DEF TimeInv
  <2> QED  BY <1>1, <1>2, <2>1, <2>2, <2>3 DEF TimeInv
<1>3. CASE start_time_thread
  <2>1. timesf' \in {timesf, timesf + 1}
    BY <1>3 DEF start_time_thread, TimerTest, TimerTick
  <2> QED  BY <1>2, <1>3, <2>1, TimerFrame DEF finishVars, localVars, workVars, queueVars
<1>4. CASE window_thread
  <2>1. PICK value \in {0, 1} : SetStop(value)
    BY <1>1, <1>4, ConsoleFrame
  <2> QED  BY <1>2, <2>1 DEF SetStop, clockVars, queueVars, finishVars, localVars, workVars
<1>5. ASSUME NEW j \in Job, handle_connection(j)
      PROVE  TimeInv'
  <2>1. UNCHANGED <<timesf, cpu, t0, fq>>
    BY <1>5, HandlerFrame DEF clockVars, finishVars, localVars
  <2>2. UNCHANGED <<cpuOcioso, busy>>
    BY <1>5 DEF handle_connection, Receive, AwaitTick, AwaitGo, FillPcb, Link, workVars
  <2>3. rq' = rq \/ rq' = insert(rq, last, j)
    BY <1>5 DEF handle_connection, Receive, AwaitTick, AwaitGo, FillPcb, Link, queueVars
  <2>4. rq # <<>> => rq' # <<>>
    BY <1>1, <2>3, InsertKeepsHead
  <2> QED  BY <1>2, <2>1, <2>2, <2>4
<1>6. CASE CpuStep
  <2>1. UNCHANGED timesf
    BY <1>1, <1>6, CpuFrame DEF clockVars
  <2> USE <1>1, <2>1 DEF TimeInv, Origin, Slack, CpuGoto, CpuOnly, queueVars, finishVars,
        localVars, workVars
  <2>2. CASE \/ Resume \/ IdleLeave \/ Drained \/ GoOn \/ Interrupted \/ BatchVerify \/ QuantumVerify
             \/ \E limit : ExecTest(limit)
    BY <2>2 DEF Resume, IdleLeave, Drained, GoOn, Interrupted, BatchVerify, QuantumVerify, ExecTest
  <2>3. CASE IdleEnter
    BY <2>3 DEF IdleEnter
  <2>4. CASE IdleSpin
    BY <2>4 DEF IdleSpin
  <2>5. CASE ReadClock
    BY <2>5 DEF ReadClock, Executing
  <2>6. CASE IdleExit
    BY <2>6 DEF IdleExit
  <2>7. CASE \E candidates \in SUBSET Job : Pick(candidates)
    BY <2>7 DEF Pick
  <2>8. CASE Stats
    BY <2>8 DEF Stats
  <2>9. CASE DeleteAppend
    <3>1. job \in Job
      BY <2>9 DEF DeleteAppend, Executing
    <3>2. Len(fq') = Len(fq) + 1
      BY <2>9, <3>1, AppendProperties DEF DeleteAppend
    <3> QED  BY <2>9, <3>2 DEF DeleteAppend
  <2>10. CASE DeleteUnlink
    BY <2>10 DEF DeleteUnlink
  <2>11. CASE Rotate
    <3>1. rq # <<>> /\ rq' # <<>>
      BY <2>11, MoveFirstToLastType DEF Rotate, Executing
    <3> QED  BY <2>11, <3>1 DEF Rotate
  <2>12. CASE BatchTick \/ QuantumTick
    <3>1. /\ cpu = "wait" /\ timesf # t0 /\ cpu' \in {"exec", "verify"}
          /\ busy' = busy + 1 /\ UNCHANGED <<cpuOcioso, fq, rq>>
      BY <2>12 DEF BatchTick, QuantumTick
    <3>2. rq # <<>> /\ Origin = t0 /\ Slack = 1 /\ Origin' = timesf /\ Slack' = 1
      BY <3>1 DEF Executing
    <3>3. t0 + 1 <= timesf /\ cpuOcioso + busy <= t0 + Len(fq) + 1
      BY <3>1, <3>2
    <3> QED  BY <3>1, <3>2, <3>3
  <2> QED  BY <1>6, <2>2, <2>3, <2>4, <2>5, <2>6, <2>7, <2>8, <2>9, <2>10, <2>11, <2>12, CpuCases
<1>7. CASE UNCHANGED vars
  BY <1>1, <1>2, <1>7 DEF vars, clockVars, queueVars, finishVars, localVars, workVars
<1> QED  BY <1>3, <1>4, <1>5, <1>6, <1>7 DEF Next, Ended, CpuStep

(* Idle seconds and executed ticks together exceed TIMESF by at most one     *)
(* second per job (cpuscheduler.h:45-59, 77-87).                             *)
THEOREM TimeAccountedHolds == Spec => []TimeAccounted
<1>1. Init => TimeInv
  BY EmptySeq DEF Init, TimeInv, Origin, Slack
<1>2. TypeInv /\ TimeInv => TimeAccounted
  <2> SUFFICES ASSUME TypeInv, TimeInv
               PROVE  TimeAccounted
    OBVIOUS
  <2>1. timesf \in Nat /\ t0 \in Nat /\ Len(fq) \in Nat /\ cpuOcioso \in Nat /\ busy \in Nat
    BY LenProperties DEF TypeInv, TypeOK, ClockType, LocalType, FinishType, WorkType
  <2>2. Origin \in Nat /\ Origin <= timesf /\ Slack \in {0, 1}
    BY <2>1 DEF TimeInv, Origin, Slack
  <2> QED  BY <2>1, <2>2 DEF TimeInv, TimeAccounted
<1> QED  BY <1>1, <1>2, TimeStep, AlwaysTypeInv, PTL DEF Spec
=============================================================================
