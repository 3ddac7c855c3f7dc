---------------------------- MODULE QueueProofs ----------------------------
(***************************************************************************)
(* The ready queue under fifo and roundRobin, which only ever take its     *)
(* head.  (Under the other two algorithms RQ->last may be left on a freed  *)
(* PCB and NoJobLost is false: see the run sjf_lost.)                      *)
(***************************************************************************)
EXTENDS CpuSchedulerProofs

HeadOnly == Algorithm \in {"FIFO", "RR"}

(* NoJobLost is kept by insert because RQ->last is the last PCB; that is     *)
(* kept by delete because the PCBs are distinct, which is kept by insert     *)
(* because only jobs that insert has not seen are inserted; and delete takes *)
(* a job that is in FQ already because it takes the head.                    *)
QueueInv ==
  /\ TailLinked(rq, last)
  /\ IsInjective(rq)
  /\ \A j \in Range(rq) : phase[j] = "queued"
  /\ RunningAtHead
  /\ cpu = "unlink" => job \in Range(fq)
  /\ NoJobLost

LEMMA QueueInit == Init => QueueInv
<1> SUFFICES ASSUME Init
             PROVE  QueueInv
  OBVIOUS
<1>1. rq = <<>> /\ DOMAIN rq = {} /\ cpu = "loop"
  BY EmptySeq, LenProperties DEF Init
<1>2. \A j \in Job : phase[j] # "queued"
  BY DEF Init
<1> QED  BY <1>1, <1>2 DEF QueueInv, TailLinked, IsInjective, Range, RunningAtHead, NoJobLost, Executing

LEMMA QueueStep == HeadOnly /\ TypeInv /\ QueueInv /\ [Next]_vars => QueueInv'
<1> SUFFICES ASSUME HeadOnly, TypeInv, QueueInv, [Next]_vars
             PROVE  QueueInv'
  OBVIOUS
<1>1. /\ rq \in Seq(Job) /\ fq \in Seq(Job)
      /\ before \in {0, 1}
      /\ HandlerType
      /\ cpu \in Executing \cup {"pick"} => rq # <<>>
      /\ cpu = "pick" => rq # <<>>
      /\ cpu \in Executing => job \in Job /\ job = Head(rq)
  BY DEF TypeInv, TypeOK, FinishType, QueueType, ConsoleType, QueueNotEmpty, JobAssigned,
     QueueInv, RunningAtHead
<1>2. ASSUME UNCHANGED <<rq, last, fq, phase, cpu, job>>
      PROVE  QueueInv'
  BY <1>2 DEF QueueInv, RunningAtHead, NoJobLost
<1>3. CASE start_time_thread
  BY <1>2, <1>3, TimerFrame DEF queueVars, finishVars, handlerVars, localVars
<1>4. CASE window_thread
  <2>1. PICK value \in {0, 1} : SetStop(value)
    BY <1>1, <1>4, ConsoleFrame
  <2> QED  BY <1>2, <2>1 DEF SetStop, queueVars, finishVars, handlerVars, localVars
<1>5. ASSUME NEW j \in Job, handle_connection(j)
      PROVE  QueueInv'
  <2>1. UNCHANGED <<fq, cpu, job>>
    BY <1>5, HandlerFrame DEF finishVars, localVars
  <2>2. CASE Link(j)
    <3>1. phase[j] = "link" /\ phase' = [phase EXCEPT ![j] = "queued"]
      BY <2>2 DEF Link, Goto
    <3>2. j \notin Range(rq)
      BY <3>1 DEF QueueInv
    <3>3. rq' = Append(rq, j) /\ last' = j
      BY <1>1, <2>2, InsertAppends DEF Link, QueueInv
    <3>4. /\ Range(rq') = Range(rq) \cup {j} /\ IsInjective(rq') /\ TailLinked(rq', last')
      BY <1>1, <3>2, <3>3, AppendFacts DEF QueueInv
    <3>5. rq # <<>> => rq' # <<>> /\ Head(rq') = Head(rq)
      BY <1>1, <3>3, AppendProperties, HeadTailAppend
    <3>6. RunningAtHead'
      BY <1>1, <2>1, <3>5 DEF RunningAtHead
    <3>7. \A k \in Range(rq') : phase'[k] = "queued"
      <4>1. \A k \in Job : phase'[k] = IF k = j THEN "queued" ELSE phase[k]
        BY <1>1, <3>1 DEF HandlerType
      <4>2. Range(rq) \subseteq Job
        BY <1>1, LenProperties, ElementOfSeq DEF Range
      <4> QED  BY <3>4, <4>1, <4>2 DEF QueueInv
    <3>8. NoJobLost'
      <4>1. \A k \in Job : phase'[k] = IF k = j THEN "queued" ELSE phase[k]
        BY <1>1, <3>1 DEF HandlerType
      <4> QED  BY <2>1, <3>4, <4>1 DEF QueueInv, NoJobLost
    <3> QED  BY <2>1, <3>4, <3>6, <3>7, <3>8 DEF QueueInv
  <2>3. CASE Receive(j) \/ AwaitTick(j) \/ AwaitGo(j) \/ FillPcb(j)
    <3>1. UNCHANGED <<rq, last>>
      BY <2>3 DEF Receive, AwaitTick, AwaitGo, FillPcb, queueVars
    <3>2. \E there \in {"tick", "held", "closed", "args", "link"} :
             phase[j] # "queued" /\ phase' = [phase EXCEPT ![j] = there]
      BY <2>3 DEF Receive, AwaitTick, AwaitGo, FillPcb, Goto
    <3>3. \A k \in Job : phase'[k] = "queued" <=> phase[k] = "queued"
      BY <1>1, <3>2 DEF HandlerType
    <3>4. Range(rq) \subseteq Job
      BY <1>1, LenProperties, ElementOfSeq DEF Range
    <3> QED  BY <2>1, <3>1, <3>3, <3>4 DEF QueueInv, RunningAtHead, NoJobLost
  <2> QED  BY <1>5, <2>2, <2>3 DEF handle_connection
<1>6. CASE CpuStep
  <2>1. UNCHANGED phase
    BY <1>1, <1>6, CpuFrame DEF handlerVars
  <2>2. ASSUME UNCHANGED <<rq, last, fq>>,
               cpu' \in Executing => rq # <<>> /\ job' = Head(rq),
               cpu' # "unlink"
        PROVE  QueueInv'
    BY <2>1, <2>2 DEF QueueInv, RunningAtHead, NoJobLost
  <2> USE DEF CpuGoto, CpuOnly, queueVars, finishVars, localVars
  <2>3. CASE \/ Resume \/ IdleLeave \/ Drained \/ GoOn \/ Interrupted \/ BatchVerify \/ QuantumVerify
             \/ \E limit : ExecTest(limit)
    BY <1>1, <2>2, <2>3 DEF Resume, IdleLeave, Drained, GoOn, Interrupted, BatchVerify, QuantumVerify,
       ExecTest, Executing
  <2>4. CASE IdleEnter \/ IdleSpin \/ ReadClock \/ IdleExit
    BY <1>1, <2>2, <2>4 DEF IdleEnter, IdleSpin, ReadClock, IdleExit, Executing
  <2>5. CASE \E candidates \in SUBSET Job :
               /\ Pick(candidates)
               /\ Algorithm \in {"FIFO", "RR"} => candidates = {Head(rq)}
    BY <1>1, <2>2, <2>5 DEF Pick, Executing, HeadOnly
  <2>6. CASE Stats \/ BatchTick \/ QuantumTick
    BY <1>1, <2>2, <2>6 DEF Stats, BatchTick, QuantumTick, Executing
  <2>7. CASE DeleteAppend
    <3>1. job \in Job
      BY <1>1, <2>7 DEF DeleteAppend, Executing
    <3>2. Range(fq') = Range(fq) \cup {job}
      BY <1>1, <2>7, <3>1, AppendFacts DEF DeleteAppend
    <3>3. UNCHANGED <<rq, last, job>> /\ cpu \in Executing
      BY <2>7 DEF DeleteAppend, Executing
    <3> QED  BY <1>1, <2>1, <3>2, <3>3 DEF QueueInv, RunningAtHead, NoJobLost
  <2>8. CASE DeleteUnlink
    <3>1. rq # <<>> /\ job = Head(rq) /\ job \in Range(fq)
      BY <1>1, <2>8 DEF DeleteUnlink, Executing, QueueInv
    <3>2. rq' = Tail(rq) /\ TailLinked(rq', last')
      BY <1>1, <2>8, <3>1, UnlinkHead DEF DeleteUnlink, QueueInv
    <3>3. Range(rq) = {job} \cup Range(rq') /\ IsInjective(rq')
      BY <1>1, <3>1, <3>2, TailFacts DEF QueueInv
    <3>4. UNCHANGED fq /\ cpu' = "ready"
      BY <2>8 DEF DeleteUnlink
    <3> QED  BY <2>1, <3>1, <3>2, <3>3, <3>4 DEF QueueInv, RunningAtHead, NoJobLost, Executing
  <2>9. CASE Rotate
    <3>1. rq # <<>>
      BY <1>1, <2>9 DEF Rotate, Executing
    <3>2. /\ Range(rq') = Range(rq) /\ IsInjective(rq') /\ TailLinked(rq', last')
      BY <1>1, <2>9, <3>1, MoveRotates DEF Rotate, QueueInv
    <3>3. UNCHANGED fq /\ cpu' = "ready"
      BY <2>9 DEF Rotate
    <3> QED  BY <2>1, <3>2, <3>3 DEF QueueInv, RunningAtHead, NoJobLost, Executing
  <2> QED  BY <1>1, <1>6, <2>3, <2>4, <2>5, <2>6, <2>7, <2>8, <2>9, CpuCases
<1>7. CASE UNCHANGED vars
  BY <1>2, <1>7 DEF vars, queueVars, finishVars, handlerVars, localVars
<1> QED  BY <1>3, <1>4, <1>5, <1>6, <1>7 DEF Next, Ended, CpuStep

LEMMA AlwaysQueueInv == ASSUME HeadOnly PROVE Spec => []QueueInv
BY QueueInit, QueueStep, AlwaysTypeInv, PTL DEF Spec

(* Under fifo and roundRobin a job that insert has queued is in the ready    *)
(* queue until it is in the finish queue (jobscheduler.h:34-127), whatever   *)
(* the operator does.                                                        *)
THEOREM NoJobLostHolds == ASSUME HeadOnly PROVE Spec => []NoJobLost
BY AlwaysQueueInv, PTL DEF QueueInv

(* fifo and roundRobin delete or move the very PCB they have executed: it    *)
(* stays at RQ->head while others arrive (cpuscheduler.h:66-109, 379-444).   *)
THEOREM RunningAtHeadHolds == ASSUME HeadOnly PROVE Spec => []RunningAtHead
BY AlwaysQueueInv, PTL DEF QueueInv

-----------------------------------------------------------------------------
(* Under fifo the finish queue and the ready queue together are the jobs in  *)
(* the order of their insertion; the job that delete has appended and not    *)
(* yet unlinked is in both and counts once.                                  *)

Waiting == IF cpu = "unlink" THEN Tail(rq) ELSE rq

OrderInv == arrived = fq \o Waiting

LEMMA MoveOver ==
  ASSUME NEW S, NEW done \in Seq(S), NEW queue \in Seq(S), queue # <<>>
  PROVE  Append(done, Head(queue)) \o Tail(queue) = done \o queue
<1> DEFINE first == Head(queue)
           rest == Tail(queue)
           len == Len(done)
           moved == Append(done, first)
<1>1. /\ first \in S /\ rest \in Seq(S) /\ first = queue[1]
      /\ Len(rest) = Len(queue) - 1 /\ Len(queue) \in Nat \ {0} /\ len \in Nat
      /\ \A n \in 1 .. Len(rest) : rest[n] = queue[n + 1]
  BY HeadTailProperties, EmptySeq, LenProperties
<1>2. /\ moved \in Seq(S) /\ Len(moved) = len + 1
      /\ \A n \in 1 .. len : moved[n] = done[n]
      /\ moved[len + 1] = first
  BY <1>1, AppendProperties
<1> HIDE DEF first, rest, moved
<1>3. /\ moved \o rest \in Seq(S) /\ Len(moved \o rest) = Len(moved) + Len(rest)
      /\ \A n \in 1 .. Len(moved) + Len(rest) : (moved \o rest)[n] =
            IF n <= Len(moved) THEN moved[n] ELSE rest[n - Len(moved)]
  BY <1>1, <1>2, ConcatProperties
<1>4. /\ done \o queue \in Seq(S) /\ Len(done \o queue) = len + Len(queue)
      /\ \A n \in 1 .. len + Len(queue) : (done \o queue)[n] =
            IF n <= len THEN done[n] ELSE queue[n - len]
  BY ConcatProperties
<1> HIDE DEF len
<1>5. Len(moved) + Len(rest) = len + Len(queue)
  BY <1>1, <1>2
<1>6. ASSUME NEW n \in 1 .. len + Len(queue)
      PROVE  (moved \o rest)[n] = (done \o queue)[n]
  <2>1. CASE n <= len
    BY <1>1, <1>2, <1>3, <1>4, <1>5, <2>1
  <2>2. CASE n = len + 1
    BY <1>1, <1>2, <1>3, <1>4, <1>5, <2>2
  <2>3. CASE n > len + 1
    <3>1. n - Len(moved) \in 1 .. Len(rest) /\ n - Len(moved) + 1 = n - len
      BY <1>1, <1>2, <2>3
    <3>2. (moved \o rest)[n] = rest[n - Len(moved)] /\ (done \o queue)[n] = queue[n - len]
      BY <1>1, <1>2, <1>3, <1>4, <1>5, <2>3
    <3>3. rest[n - Len(moved)] = queue[n - Len(moved) + 1]
      BY <1>1, <3>1
    <3> QED  BY <3>1, <3>2, <3>3
  <2>4. n <= len \/ n = len + 1 \/ n > len + 1
    BY <1>1
  <2> QED  BY <2>1, <2>2, <2>3, <2>4
<1>7. moved \o rest = done \o queue
  BY <1>3, <1>4, <1>5, <1>6, SeqEqual
<1> QED  BY <1>7 DEF moved, first, rest

LEMMA AppendToConcat ==
  ASSUME NEW S, NEW done \in Seq(S), NEW queue \in Seq(S), NEW pcb \in S
  PROVE  done \o Append(queue, pcb) = Append(done \o queue, pcb)
<1>1. <<pcb>> \in Seq(S) /\ done \o queue \in Seq(S)
  BY ConcatProperties
<1>2. Append(done \o queue, pcb) = (done \o queue) \o <<pcb>>
  BY <1>1, AppendIsConcat
<1>3. Append(queue, pcb) = queue \o <<pcb>>
  BY AppendIsConcat
<1> QED  BY <1>1, <1>2, <1>3, ConcatAssociative

LEMMA OrderStep ==
  Algorithm = "FIFO" /\ TypeInv /\ QueueInv /\ OrderInv /\ [Next]_vars => OrderInv'
<1> SUFFICES ASSUME Algorithm = "FIFO", TypeInv, QueueInv, OrderInv, [Next]_vars
             PROVE  OrderInv'
  OBVIOUS
<1>1. /\ rq \in Seq(Job) /\ fq \in Seq(Job)
      /\ before \in {0, 1}
      /\ cpu \in Executing \cup {"pick"} => rq # <<>>
      /\ cpu = "pick" => rq # <<>>
      /\ cpu \in Executing => job \in Job /\ job = Head(rq)
  BY DEF TypeInv, TypeOK, FinishType, QueueType, ConsoleType, QueueNotEmpty, JobAssigned,
     QueueInv, RunningAtHead
<1>2. ASSUME UNCHANGED <<rq, fq, arrived, cpu>>
      PROVE  OrderInv'
  BY <1>2 DEF OrderInv, Waiting
<1>3. CASE start_time_thread
  BY <1>2, <1>3, TimerFrame DEF queueVars, finishVars
<1>4. CASE window_thread
  <2>1. PICK value \in {0, 1} : SetStop(value)
    BY <1>1, <1>4, ConsoleFrame
  <2> QED  BY <1>2, <2>1 DEF SetStop, queueVars, finishVars
<1>5. ASSUME NEW j \in Job, handle_connection(j)
      PROVE  OrderInv'
  <2>1. UNCHANGED <<fq, cpu>>
    BY <1>5, HandlerFrame DEF finishVars
  <2>2. CASE Link(j)
    <3>1. rq' = Append(rq, j) /\ arrived' = Append(arrived, j)
      BY <1>1, <2>2, InsertAppends DEF Link, QueueInv
    <3>2. Waiting \in Seq(Job) /\ Waiting' = Append(Waiting, j)
      <4>1. CASE cpu = "unlink"
        BY <1>1, <2>1, <3>1, <4>1, HeadTailAppend, HeadTailProperties DEF Waiting, Executing
      <4>2. CASE cpu # "unlink"
        BY <1>1, <2>1, <3>1, <4>2 DEF Waiting
      <4> QED  BY <4>1, <4>2
    <3>3. fq \o Append(Waiting, j) = Append(fq \o Waiting, j)
      BY <1>1, <3>2, AppendToConcat
    <3>4. fq' = fq
      BY <2>1
    <3> QED  BY <3>1, <3>2, <3>3, <3>4 DEF OrderInv
  <2>3. CASE Receive(j) \/ AwaitTick(j) \/ AwaitGo(j) \/ FillPcb(j)
    BY <1>2, <2>1, <2>3 DEF Receive, AwaitTick, AwaitGo, FillPcb, queueVars
  <2> QED  BY <1>5, <2>2, <2>3 DEF handle_connection
<1>6. CASE CpuStep
  <2>1. UNCHANGED arrived
    BY <1>1, <1>6, CpuFrame
  <2>2. ASSUME UNCHANGED <<rq, fq>>, cpu # "unlink", cpu' # "unlink"
        PROVE  OrderInv'
    BY <2>1, <2>2 DEF OrderInv, Waiting
  <2> USE DEF CpuGoto, CpuOnly, queueVars, finishVars
  <2>3. CASE \/ Resume \/ IdleLeave \/ Drained \/ GoOn \/ Interrupted \/ BatchVerify \/ QuantumVerify
             \/ \E limit : ExecTest(limit)
    BY <2>2, <2>3 DEF Resume, IdleLeave, Drained, GoOn, Interrupted, BatchVerify, QuantumVerify, ExecTest
  <2>4. CASE \/ IdleEnter \/ IdleSpin \/ ReadClock \/ IdleExit
             \/ \E candidates \in SUBSET Job : Pick(candidates)
    BY <2>2, <2>4 DEF IdleEnter, IdleSpin, ReadClock, IdleExit, Pick
  <2>5. CASE Stats \/ BatchTick \/ QuantumTick
    BY <2>2, <2>5 DEF Stats, BatchTick, QuantumTick
  <2>6. CASE DeleteAppend
    <3>1. /\ rq # <<>> /\ rq' = rq /\ fq' = Append(fq, Head(rq))
          /\ Waiting = rq /\ Waiting' = Tail(rq)
      BY <1>1, <2>6 DEF DeleteAppend, Executing, Waiting
    <3> QED  BY <1>1, <2>1, <3>1, MoveOver DEF OrderInv
  <2>7. CASE DeleteUnlink
    <3>1. rq # <<>> /\ job = Head(rq)
      BY <1>1, <2>7 DEF DeleteUnlink, Executing
    <3>2. rq' = Tail(rq)
      BY <1>1, <2>7, <3>1, UnlinkHead DEF DeleteUnlink, QueueInv
    <3> QED  BY <2>1, <2>7, <3>2 DEF DeleteUnlink, OrderInv, Waiting
  <2> QED  BY <1>1, <1>6, <2>3, <2>4, <2>5, <2>6, <2>7, CpuCases
<1>7. CASE UNCHANGED vars
  BY <1>2, <1>7 DEF vars, queueVars, finishVars
<1> QED  BY <1>3, <1>4, <1>5, <1>6, <1>7 DEF Next, Ended, CpuStep

(* fifo finishes the jobs in the order in which insert linked them           *)
(* (cpuscheduler.h:66-109), whatever the operator does to stop.              *)
THEOREM FinishInOrderHolds == ASSUME Algorithm = "FIFO" PROVE Spec => []FinishInOrder
<1>1. Init => OrderInv
  BY EmptySeq, ConcatEmptySeq DEF Init, OrderInv, Waiting
<1>2. TypeInv /\ OrderInv => FinishInOrder
  <2> SUFFICES ASSUME TypeInv, OrderInv
               PROVE  FinishInOrder
    OBVIOUS
  <2>1. fq \in Seq(Job) /\ Waiting \in Seq(Job)
    BY HeadTailProperties DEF TypeInv, TypeOK, FinishType, QueueType, QueueNotEmpty, Waiting, Executing
  <2> DEFINE len == Len(fq)
  <2>2. /\ fq \o Waiting \in Seq(Job) /\ Len(fq \o Waiting) = len + Len(Waiting)
        /\ \A n \in 1 .. len + Len(Waiting) : (fq \o Waiting)[n] =
              IF n <= len THEN fq[n] ELSE Waiting[n - len]
        /\ len \in Nat /\ Len(Waiting) \in Nat
    BY <2>1, ConcatProperties, LenProperties
  <2>3. len <= Len(arrived) /\ arrived \in Seq(Job)
    BY <2>2 DEF OrderInv
  <2>4. SubSeq(arrived, 1, len) = SubSeq(fq, 1, len)
    BY <2>1, <2>2, SubSeqProperties, SeqEqual, ElementOfSeq DEF OrderInv
  <2> QED  BY <2>3, <2>4 DEF FinishInOrder, IsPrefix
<1>3. HeadOnly
  BY DEF HeadOnly
<1> QED  BY <1>1, <1>2, <1>3, OrderStep, AlwaysQueueInv, AlwaysTypeInv, PTL DEF Spec
=============================================================================
