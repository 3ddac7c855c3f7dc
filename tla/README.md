# A model of the CPU planner server

The repository is a teaching simulator of CPU scheduling. A server (`src/server.c`) receives jobs
(a burst and a priority) from clients over TCP, keeps them in a ready queue, and one CPU thread
"executes" them by waiting for ticks of a simulated clock, under one of four algorithms: FIFO,
shortest job first, highest priority first, round robin. An operator types commands to freeze the
simulation and to print tables. All of this runs as POSIX threads over shared variables, some of
them protected by one mutex and many not, and that is where the model looks.

## Inventory

| Component | State | Operations | Talks to others by | Modelled in |
|---|---|---|---|---|
| CPU thread, `cpuscheduler.h` | locals `job`, `i`, `tempTime`, `finished`; the PCB's `burstLeft`, `endTime`; counters `finishedJobs`, `cpuOcioso` | `fifo`, `shortestJobFirst`, `highestPriorityFirst`, `roundRobin` | reads `RQ->head`, `TIMESF`, `stop` without the mutex; calls `delete`, `moveFirstToLast`, `getSJF`, `getHPF` | `CpuScheduler`, `SchedulerLoop` |
| Queues, `jobscheduler.h` | `RQ` (`head`, `last`), `FQ`, linked PCBs | `insert`, `delete`, `moveFirstToLast`, `getSJF`, `getHPF` | critical sections of `cpu_mutex` | `JobScheduler` (values), `PcbList` (memory), `JobQueue` (promise) |
| Clock, `start_time_thread` | `TIMESF` | one tick per second while `stop` is 0 | everybody polls `TIMESF` | `CpuScheduler`, `SchedulerLoop` |
| Console, `window_thread` | `stop`, `flagRun` | `stop`, `restart`, `freeze`, `unfreeze`, `queue`, `help`, `exit` | writes `stop`, reads the counters and walks the lists without the mutex | `CpuScheduler`, `PcbList`, `Connections` |
| Connections, `handle_connection` | `tempTime`, `job`, `pid_count` | receive, wait for a tick, wait for `stop` to be 0, `insert`, count, answer, close | `insert`, `stop`, `TIMESF`, sockets | `Connections`, `CpuScheduler` |
| Start, `main` | | sockets, creates the threads, accepts | | `Connections` (the accept loop) |
| Clients, `automatic_client.c`, `manual_client.c`, `client.c` | one socket shared by threads | connect, send a job, receive an answer, close | TCP | `Clients` |

Behaviours that are hard here: the console may set and clear `stop` between any two statements of
the others; the CPU thread holds a pointer into the queue for seconds while connections insert;
`delete` has two critical sections; the lists are walked without the mutex while PCBs are freed;
`pid_count` is read outside its critical section, twice; everybody waits by polling, so that a wait can miss what it
waits for; clients close, are killed or are stopped while jobs and answers are on their way.
`PROJECT.json` lists these hazards line by line.

What makes each component correct: no job is lost or finished twice, jobs finish in the order the
algorithm promises and are executed to the end, the statistics (waiting time, idle time) are those
of the simulated clock, a freeze stops everything within a bounded number of steps and loses nothing,
every job is served in the end, memory is neither leaked nor used after it is freed, a client's jobs are all
inserted, in order, with pids it can tell apart, and no client waits for ever.

## Modules

```
JobQueue                abstract: two queues, insert / finish / move first to last
   ^           ^
   |           |  ImplementsQueue (checked and proved, both)
SchedulerRefinement     PcbList --- MCPcbList
   |  extends CpuScheduler --- MCCpuScheduler
   |                extends JobScheduler
   |  ImplementsLoop (checked and proved)
   v
SchedulerLoop --- MCSchedulerLoop      liveness
   extends JobScheduler

Clients --- MCClients
   extends Connections
```

Definitions that end in `Mutant` are no code of the program: each is a plausible slip in the
definition below it, and each property is known to fail when its mutant takes the place of the
original (the pairs are in `PROJECT.json`).

`JobScheduler` - the operations of `jobscheduler.h`, as operators on the sequence of PCBs
reachable from `RQ->head` and on `RQ->last`. The second is kept apart because the code can leave
it on a PCB that is no longer in the queue; `insert` then links the new PCB to no PCB of the queue. What else that
line 54 overwrites depends on what `malloc` has made of the cell: it may be one of `FQ`, or a PCB that is being filled. Sequences
of PCBs cannot say that, so `CpuScheduler` (`Ended`) and `SchedulerLoop` (`Intact`) end with the first such insert, after which
`PcbList`, which has the cells, goes on. `getSJF` and `getHPF` are sets of at most one PCB: the first one with the least key.

`CpuScheduler` - the state machine with the clock. One action per access to shared state:

| Thread | Actions | Place |
|---|---|---|
| timer | `TimerTest`, `TimerTick` | `timer` |
| console | `Freeze` (commands `freeze`, `stop`), `Unfreeze` (`unfreeze`, `restart`), `QueueBegin`, `QueueEnd`, `ExitCommand` (`exit`) | `console` |
| handler of job `j` | `Receive`, `AwaitTick`, `AwaitGo`, `FillPcb`, `Link` | `phase[j]` |
| CPU, all algorithms | `Resume`, `IdleEnter`, `IdleSpin`, `IdleExit`, `IdleLeave`, `Drained`, `GoOn`, `Pick`, `ExecTest`, `ReadClock`, `Interrupted`, `Stats`, `DeleteAppend`, `DeleteUnlink` | `cpu` |
| CPU, batch | `BatchTick`, `BatchVerify` | |
| CPU, round robin | `QuantumTick`, `QuantumVerify`, `Rotate` | |

`exit` clears `flagRun`; a handler that comes out of its wait for a tick then ends with the job in its hand (`server.c:130`), as it does
with a refused one (`AwaitTick`). The process may end at any moment after that, so the model may stop there too (`Ended`).

The variables have the names of the code in lower case: `timesf` is `TIMESF`, `rq` and `fq` are the
lists of `RQ` and `FQ`, `last` is `RQ->last`, `t0` the CPU thread's `tempTime`, `seen[j]` a handler's,
`i`, `job`, `finished`, `before` themselves. Fields of the PCBs are functions on jobs. `spun` says
that the idle loop has made the hundred passes after which `time >= 1`; `sleep(0.01)` is `sleep(0)`,
so that this can happen at any moment of a second. `arrived`, `busy` and `frozen` are history that no
action reads.

Two accesses are one action only where no third thread can tell: the tests of `stop` at lines 35
and 40, the reads of `RQ->head` and `TIMESF` at lines 45 and 46 (a job or a tick that falls between
them has the effect it has just after), the last two critical sections of `delete` (in between
others can only append). `turnaroundTime` and `waitingTime` are differences of the times kept.

`SchedulerLoop` - the same threads for ever. No decision of `cpuscheduler.h` or `handle_connection` uses
the value of `TIMESF`, only whether it has moved since it was read; that is kept (`ticked`, `late`),
the clock, its bound, the statistics and the passes of the idle loop are not. This makes the state space finite without
a bound on time, which liveness needs. It also has the fairness. What `exit` does to a handler is here that a
model with an operator may refuse any job; no fairness or liveness is claimed of a process that is about to end.

`JobQueue` - what all of this is for, in ten lines: jobs enter at the end of one queue, the first
one leaves for the other, and only round robin sends the first one back to the end.

`SchedulerRefinement` - the two refinement mappings of `CpuScheduler`. To `SchedulerLoop`: `spin` is
`idle`, `ticked` is "in the wait for a tick and `TIMESF` is not `t0`", `late` are the handlers whose `tempTime`
is not `TIMESF`, `burstLeft` below 0 is -1 (it never comes back to 0 but by overflow). To `JobQueue`:
the abstract ready queue is `rq`, without its head while `delete` is between its critical
sections and has that job in both lists.

`PcbList` - the queues in memory. PCBs are cells that `malloc` hands out (any free one) and `free` takes
back; a freed cell keeps its `next` and loses its `pid`. `delete` copies the PCB, its `next` included, and
`moveFirstToLast` is three assignments in three steps, because the two listings
of the console look at the lists without the mutex. Those are here row by row: `queue` prints a row and
half a second later follows `next`; `stop` prints `finishedJobs` rows. Bursts and keys are left open
(any quantum may end a job, the algorithms that search may take any PCB), so that the memory
is safe whatever they are. The mapping to `JobQueue` follows the links from the heads.

`Connections` - `handle_connection`, the accept loop and `pid_count`. The handler's loop has four breaks: a failed receive
(`server.c:122`, `RecvFailed`), `flagRun` at 0 after the wait for a tick (131, `FlagBreak`), a zero (136, `Refuse`) and a failed answer
(170, `SendFailed`). The end of the process has its steps: `ExitCommand` clears `flagRun`; handlers run on and see it or not; `main` tests it
after one more accept; `exit()` closes everything at some later moment (`Exit`). The operating system's sockets are
modelled as the code meets them, per direction a stream and per end a state: an end that is closed
with nothing unread is `fin`, one closed with data unread is `rst`. The other side reads what is queued; then
`recv` returns 0 (`fin`) or -1 (`rst`). The first `send` to a `fin` succeeds and is answered by a reset
(`broken`), the next raises SIGPIPE, which no program here handles or ignores; a `send` to `rst`
returns -1. `recv`'s 0 is not tested, so that the handler goes on with what `malloc` has returned: zeros (`blank`), which
are refused, or where the memory was used before (`leftovers`) possibly an old job (`phantom`), which is inserted.

`Clients` - the three programs. A thread of `manual_client.c` or `automatic_client.c` sends its job and waits for an answer
on the socket all of them share, so that any waiting thread may get any answer; `client.c` never receives.
`Script` is what a program sends: the jobs of its file, with the last line twice where the file ends with
a newline (`while(!feof(fp))`), and for `client.c` the end mark (-1, -1). Of the programs' sleeps three orders are
assumed, which the module names: `manual_client`'s threads send in the order of the lines, have all sent before `main`
closes, and `client.c`'s automatic mode is over before its thread has slept its first second.

`MC*` - values of the constants, symmetry and views for TLC.

`JobSchedulerProofs` (operations on queues), `CpuSchedulerProofs` (types and frames), `TimeProofs` (freeze and clock),
`QueueProofs` (nothing lost, order), `TurnProofs` (one turn of a job), `RefinementProofs` (both refinements), `PcbListProofs`,
`ClientsProofs` - lemmas and theorems.

## Runs

| Run | Instance | Checks |
|---|---|---|
| `fifo` | `MCCpuScheduler`: 3 jobs, bursts 1-2, 2 connections, freeze/unfreeze, 4 ticks | `TypeOK`, `NoJobLost`, `RunningAtHead`, `FinishInOrder`, `RunsUntilFinished`, `ImplementsQueue` |
| `sjf` | 3 jobs, bursts 0-2 (0 closes), 2 connections, exit, 4 ticks | `FinishedOnce`, `WaitingTimeOK`, `RunsUntilFinished` |
| `hpf` | 3 jobs, priorities 0-2, 2 connections, freeze/unfreeze/queue, 3 ticks | `TimeAccounted`, `FrozenClock`, `FrozenCpu`, `FrozenQueue` |
| `rr` | 3 jobs, bursts 1-2, quantum 1, 1 connection, freeze/unfreeze, 4 ticks | `NoJobLost`, `WaitingTimeOK`, `ImplementsQueue` |
| `rr_unattended` | 3 jobs, bursts 2-3 or the end mark of `client.c`, quantum 2, 2 connections, 6 ticks | `QueuedHasBurstLeft`, `TimeAccounted`, `PassedAfterQuantum`, `ImplementsLoop` |
| `live` | `MCSchedulerLoop`: FIFO and RR, 2 jobs of 2 or 3 ticks, refused or end marks, quantum 1, 2 connections, any commands, no bound on time | `EveryJobFinishes`, `EveryJobIsAdmitted`, `TurnComes`, `FreezeTakesHold` |
| `heap` | `MCPcbList`: FIFO, RR and the searching algorithms, 4 jobs, 4 addresses, all commands, 4 rows | `TypeOK`, `EveryCellOwned`, `ReachableAlive`, `CalmTable`, `CalmListing`, `ImplementsQueue` |
| `clients` | `MCClients`: 4 scenarios, a menu client beside an automatic one with leftovers; a file with a refused last line beside an automatic client; a menu client with three messages; an `exit` while jobs arrive | `TypeOK`, `PidCountIsInserted`, `PidsIncrease`, `AnswersBetweenPids`, `ShownPidsDistinct`, `EndingLosesNoJob`, `InsertedInOrder`, `NoThreadWaitsForever` |

Deadlock is checked in the instances of `CpuScheduler` and `SchedulerLoop`. In `heap` and `clients` the system really may stop: all jobs
are done, the process has ended, all connections are closed. In `CpuScheduler` the disjunct `Ended` ends the
model when the bounded clock is used up, when `flagRun` is 0, and with the first job lost; it is the only step added to the code's.

What the last three show, in words:

- *`live`*. A freeze can come at any moment and wedges nothing: once the operator leaves `stop` at 0 every received job is
  queued or refused, every job in the queue gets its next turn, and under FIFO every job finishes. Under RR the
  last is promised only to jobs with a positive burst (the end mark of `client.c` goes round for ever) and only if `stop` was never set, because a
  freeze can make a job immortal (`rr_immortal`). Under SJF and HPF it is promised to none: a job can be lost without any operator
  (`sjf_lost`). A freeze that lasts brings the CPU thread to one of its waits and no handler inserts any more.
- *`heap`*. Under FIFO and RR all special cases of the list operations agree with a plain queue, no cell leaks, and a listing or a
  table that begins while the CPU thread is away from the lists is right even though connections insert meanwhile. Under every
  algorithm no list leads to a freed cell although `RQ->last` may dangle.
- *`clients`*. The pids of one connection increase although `pid_count` is read before and after other
  connections change it, and the answers lie between them; the threads of one client never show the same pid twice. A
  handler that ends on its own has inserted all that its client had sent, also what was sent before a close; that it comes to its end is not
  said, for with three messages pending after a close the second answer kills the server (`server_killed`
  shows how) and the rest is lost. Jobs are inserted in the order they were sent, each once. Every waiting thread gets an
  answer, the end of the connection, or an error, also when the server exits or is killed.

Four runs end in a counterexample, each against a sentence of the source:

| Run | Property | What the code does |
|---|---|---|
| `sjf_lost` | `NoJobLost` | `delete` compares at `jobscheduler.h:109` where it should assign; after the last of three PCBs was taken, the next job is linked behind a freed cell and lost ("here you need to add to the ready queue", `server.c:158`) |
| `rr_immortal` | `QueuedHasBurstLeft` | a freeze after the last tick of a job loses the flag `finished`; the job then rotates for ever ("everything is ok", `cpuscheduler.h:327`) |
| `pid_twice` | `PidUnique` | two handlers read `pid_count` before either increments it ("add critical section for incrementing pid", `server.c:162`; "global pid", `server.c:20`) |
| `server_killed` | `ServerSurvives` | `client.c` closes without receiving; the second answer to the closed socket raises SIGPIPE and ends the server where the code expects an error ("Send failed pid", `server.c:169`) |

`RunsUntilFinished` says two things of "executes it until it finishes" (`cpuscheduler.h:18`): that no other job is taken first, and that what
is finished has had its whole burst. The second is false of the code for one job per freeze: a freeze that comes and goes between lines 79 and 90
ends the job wherever it is. The property excepts exactly that job, and says so; without the exception `fifo` ends in the counterexample.

Why `NoJobLost` is checked of FIFO and RR, `WaitingTimeOK` without an operator only (RR excepted,
where a job ends by its count and not by the loop), `EveryCellOwned`, the table and the listings without the searching algorithms, and
the latter two from calm moments: elsewhere they are false. After a search has taken the last of three PCBs, `insert` writes through the stale `RQ->last`
into whatever that cell is by now. With 6 jobs and 8 cells a listing then skips into the wrong rows, with 7 jobs and 7 cells
a table does (TLC finds both; `heap` is too small for them). The other cases are in the next section.

**Bounds.** Three jobs are the least with which a queue has a middle and `RQ->last` matters (four
for `sjf_lost` and `heap`: three in the queue and one more to arrive or to be finished). Bursts 1 and 2 give a job that ends at once and
one that can be interrupted; 2 and 3 with quantum 2 give a job that ends with its quantum and one
that ends inside it. `live` has two jobs, each of four kinds: with quantum 1 two or three ticks give a turn that ends in a rotation and one
that ends the job, at different moments of the two; a refused one closes its connection; an end mark never finishes, alone or beside a job that must. `Connections` bounds how many handlers work on a job at a time: two is the least for handlers
to overlap. `MaxTime` is enough ticks for every run to finish at least two jobs after a
wait of one tick for their arrival. In `heap` `Addr` bounds memory: with four cells for four jobs each cell that
is freed is handed out again while listings still point at it; when no cell is free `malloc` waits (the program does not test its
result, and does not run out of memory). `MaxRows` ends a listing that goes round in a ring.
In `clients` two connections suffice for the races on `pid_count`; three messages are the least with which a server is killed
while a job is still unread (`ThreeMessages`), two jobs and an exit the least with which one is in a handler's hand and one behind it
(`ExitAmongJobs`), a job and a refused line sent twice show a file that ends in a newline (`FileAndAutomatic`).
Mutants of the code are caught within these bounds.

**Symmetry and views.** Jobs are interchangeable: no definition names one; so are addresses. The views leave out
values that no later step reads: of `seen` and `t0` only whether they equal `TIMESF` counts, a local
counter counts only while it is in use, `frozen` only while `stop` is set, the times in the PCBs only where a property
reads them (`TimedView`). `TIMESF` itself is in the view. The runs with liveness properties use neither.

**Fairness.** `SchedulerLoop` assumes weak fairness of the timer, of the CPU thread and of each handler, `Clients` of each handler
and of each client's threads that have something to receive, and of `exit()` once `flagRun` is 0 (nothing keeps the console thread from
its end). This is what the operating system's scheduler gives to threads
that wait by polling. None is strong: a poll may miss a condition that comes and goes, and whether a
thread can starve on that is a question the properties ask. Clients need not
connect, send or close; the operator need not do anything, and the properties
say where they rely on an operator who stops disturbing. That a handler in `Clients` goes on does rely on `stop` not staying 1
for ever; `EveryJobIsAdmitted` is where that wait is examined.

## What else differs from what the code says

Seen while modelling, and not given a run of their own:

- `cpuscheduler.h:54`: passes of the polling loop are counted as hundredths of a second, but `sleep(0.01)` does not sleep; "Time in secs of
  idle CPU" (`server.c:237`) can exceed the clock, by at most one second per finished job and one more (`TimeAccounted`).
- `cpuscheduler.h:90` (also 193, 296): freeze and unfreeze between the two tests of `stop` finish a job that was not executed
  to its end, with a negative waiting time; line 18 says "executes it until it finishes". `RunsUntilFinished` excepts one such job per setting of `stop`.
- `cpuscheduler.h:411`: in the same way a freeze that is lifted in time sends RR's job to the end of the queue with its quantum unused.
- `cpuscheduler.h:169`: after a freeze SJF and HPF choose again and drop the progress of the job they had started.
- `cpuscheduler.h:393`: with a quantum of 0 or less (`atoi(argv[2])` of something that is no number) no job executes and RR rotates its queue for ever.
- `server.c:248` with `cpuscheduler.h:98`: `finishedJobs` is raised before `delete` appends, so that a `stop` typed in between walks one row
  too far, to a NULL pointer or into the ready queue.
- `jobscheduler.h:102-117`: under SJF and HPF an `insert` through a stale `RQ->last` can cut a PCB off from `RQ->head` while it is executed; the search does
  not find it and `delete` returns without freeing it. Nor is a PCB ever freed that was linked behind a freed one.
- `server.c:300`: the listing of `queue` does not wait for the CPU thread to notice `stop` and may stand on a PCB that is freed, or on one that
  `moveFirstToLast` moves, and show a job twice.
- `server.c:168`: the answer is `pid_count` after the increment, the pid of the next job and not of the one just inserted.
- `automatic_client.c:71`: a thread may show the answer to another thread's job as its own.
- `server.c:134` with `client.c:196`: the end mark (-1, -1) is not 0 and is inserted as a job; under RR its `burstLeft` starts
  below 0 and is never seen to reach 0. So `QueuedHasBurstLeft` speaks of the jobs that came with a burst of 0 or more, with end marks among
  them in the queue, and `EveryJobFinishes` of those with a positive one.
- `server.c:130`: on `exit` a handler drops a job that it has received, and its client gets no answer to it.
- `server.c:168-171`: after a reset the handler drops the jobs that are still queued in its socket.

## Proofs

TLAPS checks the theorems below for any finite set of jobs or clients, any integers as bursts and priorities,
any quantum, commands, scenarios, number of connections and length of time. The assumptions are those named in
`CpuScheduler` (`JobAssumption` and its neighbours), `PcbList`, `Connections` and `Clients`; TLC evaluates them in the runs.

| Theorem | Module | States | For |
|---|---|---|---|
| `TypeCorrect` | `CpuSchedulerProofs` | `[]TypeOK` | all algorithms |
| `FrozenClockHolds` | `TimeProofs` | `[]FrozenClock` | all algorithms |
| `FrozenCpuHolds` | `TimeProofs` | `[]FrozenCpu` | all algorithms |
| `FrozenQueueHolds` | `TimeProofs` | `[]FrozenQueue` | all algorithms |
| `TimeAccountedHolds` | `TimeProofs` | `[]TimeAccounted` | all algorithms |
| `NoJobLostHolds`, `RunningAtHeadHolds` | `QueueProofs` | `[]NoJobLost`, `[]RunningAtHead` | FIFO, RR |
| `FinishInOrderHolds` | `QueueProofs` | `[]FinishInOrder` | FIFO |
| `ImplementsQueueHolds` | `RefinementProofs` | `ImplementsQueue` | FIFO, RR |
| `ImplementsLoopHolds` | `RefinementProofs` | `ImplementsLoop` | all algorithms |
| `FinishedOnceHolds` | `TurnProofs` | `[]FinishedOnce` | all algorithms, up to the first insert through a dangling `RQ->last` |
| `WaitingTimeHolds` | `TurnProofs` | `[]WaitingTimeOK` | RR; the others unattended |
| `QueuedHasBurstLeftHolds` | `TurnProofs` | `[]QueuedHasBurstLeft` | jobs with a burst of 0 or more, among any others; RR unattended, the others always |
| `RunsUntilFinishedHolds` | `TurnProofs` | `RunsUntilFinished`, whose second half excepts one job per freeze | FIFO; SJF, HPF unattended |
| `PassedAfterQuantumHolds` | `TurnProofs` | `PassedAfterQuantum` | RR unattended |
| `ScanFindsEarliestLeast` | `JobSchedulerProofs` | the loop of `getSJF` and `getHPF` computes `EarliestLeast` | any queue |
| `OneChoice` | `TurnProofs` | at `pick` both find exactly one PCB, one with the least key | all algorithms |
| `PcbTypeCorrect` | `PcbListProofs` | `[]TypeOK` of `PcbList` | all algorithms |
| `EveryCellOwnedHolds`, `ReachableAliveHolds` | `PcbListProofs` | `[]EveryCellOwned`, `[]ReachableAlive` | FIFO, RR |
| `CalmListingHolds`, `CalmTableHolds` | `PcbListProofs` | `[]CalmListing`, `[]CalmTable` | FIFO, RR |
| `PcbImplementsQueue` | `PcbListProofs` | `ImplementsQueue` of `PcbList` | FIFO, RR |
| `ClientsTypeCorrect` | `ClientsProofs` | `[]TypeOK` of `Clients` | any clients |
| `PidCountHolds`, `PidsIncreaseHolds` | `ClientsProofs` | `[]PidCountIsInserted`, `[]PidsIncrease` | any clients |
| `EndingLosesNoJobHolds` | `ClientsProofs` | `[]EndingLosesNoJob` | any clients |
| `AnswersBetweenPidsHolds`, `InsertedInOrderHolds` | `ClientsProofs` | `[]AnswersBetweenPids`, `[]InsertedInOrder` | any clients |
| `ShownPidsDistinctHolds` | `ClientsProofs` | `[]ShownPidsDistinct` | any clients |

"Unattended" (`TurnProofs`) means that the operator does not set `stop`: neither `freeze` nor `queue` is among the commands of the
model. Without it the property is false, as `rr_immortal` and the section above show; the run that checks the property has the same commands.

The arguments, each an inductive invariant that is stronger than what it proves:

- *Types.* `TypeOK` would have to give a type to `Head(<<>>)`; `TypeInv` adds that the queue is not
  empty from `pick` to the end of a job's turn, and that `job` is a job there. Only the CPU takes PCBs
  out, and it does so as the last step of a turn.
- *Freeze.* `ClockInv`: a timer that is asleep when `stop` is set has not used up its one tick.
  `DoneInv`: a job on its way from `verify` to `FQ` counts before it arrives. `ArrivalInv`: a handler
  between its test of `stop` and its insertion counts as an arrival, and `Serving` bounds how many there are.
- *Time.* `TimeInv`: while the CPU waits for the clock to leave `t0`, all that is booked is booked up
  to `t0`; the only second booked early is the one in which a job ended the idle wait, one per job
  in `FQ` and one for the jobs now in the queue, which the queue has used up when the job it stands for is
  appended to `FQ`.
- *Queue.* `QueueInv`: `insert` loses nothing because `RQ->last` is the last PCB; `delete` keeps
  that because the PCBs are distinct and it takes the head; they stay distinct because `insert` gets a new PCB.
  Under SJF and HPF the second step fails, which is what `sjf_lost` shows.
- *Order.* `OrderInv`: `arrived` is `fq` followed by what waits, the job between the two halves of
  `delete` counted once.
- *Finished once.* `OnceInv`: both lists have distinct jobs, all of them inserted, and share at most the one that `delete` is taking,
  which is in the ready queue while it is executed. It holds under SJF and HPF too, as long as the lists are what their values say: that the search takes a job from the middle, or leaves `RQ->last`
  behind, makes no job come twice. From the first insert through a dangling `RQ->last` on nothing is claimed, for that insert may write into `FQ`'s list.
- *Waiting time.* `WaitInv`: the seconds a job has been counted for since its `startTime` fit between that time and the clock, and a job on its way to
  `FQ` has been counted for its whole burst. The second half is what an operator can break.
- *Burst left.* `LeftInv`: every PCB in the queue that came with a burst of 0 or more has burst left, but the one that RR has just counted down and is about to take out. Nothing is assumed of the inputs.
- *Started, finished.* `Kept`: the job that the CPU thread took last is finished, or being executed, or, under FIFO, still at the head;
  `ExecutedInv`: a job is on its way to `FQ` with its whole burst executed, unless `stop` was set since the last job finished.
  `Expired`: RR comes to the end of its inner loop only with the job finished or the quantum used up.
- *The choice.* The loop of `getSJF` is stated pass by pass (`Pass`), and not as a recursion. If its
  invariant (`IsKept`: what is kept is the first PCB with the least key of those looked at) failed at some pass there would be a least such pass,
  and it does not fail there. This replaces induction, which the installed provers cannot instantiate; so does the same argument for `Walk` below.
- *Memory.* `QueuesInv`: under FIFO and RR there are two sequences of cells, r and f, distinct and disjoint. r is linked from `RQ->head` to `RQ->last` and
  ends in NULL; inside `moveFirstToLast` it is a ring or cut open again (`ReadyCells`). f is linked from `FQ`'s head to its last, whose
  `next` may still point into r because `delete` copies it (`FinishCells`). Handlers hold other cells, one each (`HeldCells`), `delete` holds its copy
  (`CopyCell`), the job on the CPU is the first of r (`FirstInHand`), and nothing else is allocated (`Owned`). `Contents` says which jobs are in the cells, `Listing` where a listing that began in a calm
  moment stands, `Stopped` that the CPU thread stays away while it lasts. The state does not hold r and f; that `Walk`, which follows the links, yields
  them is a lemma. All theorems of `PcbListProofs` but the types follow from it.
- *Implements the queue.* With `QueueInv` every step maps: `Link` to an insertion, `DeleteAppend` to a finish, `Rotate` to a
  rotation, `DeleteUnlink` and all others to a stutter.
- *Implements the loop.* `LoopInv`: nobody has read a time that is still to come, so that a tick is news for everyone who waits; the
  flag `finished` is down while a quantum runs; only an operator who has commands is in a listing. Then each action maps to the one of
  the same name, and the passes of the idle loop to a stutter. Safety of `SchedulerLoop` thus holds of `CpuScheduler` at every bound.
- *Pids.* `PidInv`: a pid in use is at most `pid_count`, and below it once its handler has counted; so the next pid of the
  same connection is greater. Nothing of the kind holds across connections (`pid_twice`).
- *Connections.* `KeptInv`: while `flagRun` is 1 a received message is a refused one, inserted or in hand; a handler that ends then has seen
  a reset, a refused job, or the end of a connection of which it has taken everything.
- *Answers.* `TurnInv`: a connection has as many answers as inserted jobs, one fewer between an insertion and its answer,
  and all its answers are within the `pid_count` that a later job takes its pid from.
- *Order of insertion.* `OrderInv`: the job in a handler's hand is the message it has just taken, or what `malloc` returned once all messages
  are taken, and the messages before it are the jobs already inserted.
- *Shown.* `RisingInv`: the answers of a connection increase, because its handler has incremented `pid_count` since the last one, and
  nobody decreases it. `ShownInv`: no two threads show the same answer. Together no two show the same pid.

`CpuCases` and the frame lemmas of `CpuSchedulerProofs` say once which actions the CPU thread has and what
each thread leaves alone; the step lemmas rest on them. The lemmas on queues are in `JobSchedulerProofs`.

Model-checked only: liveness (`EveryJobFinishes`, `EveryJobIsAdmitted`, `TurnComes`, `FreezeTakesHold`, `NoThreadWaitsForever`), which under
fairness is beyond TLAPS, and `ReachableAlive` under SJF and HPF. There the links behind a stale `RQ->last` are neither in a
list nor free, may lead into cells of either list, and need an invariant of their own, which is not found yet. The four properties
of the runs that end in a counterexample are false and have no theorem.

## Not modelled

Left out for good: drawing in the windows and `help` (output only), the socket set-up of `main` and of the clients with its error exits,
the menus and the parsing of files (input and output), the random numbers, `printRQ` (never called), `cpuScheduler.c` (a draft that no file includes
and that does not compile), `test.c` (calls an older `insert`, does not compile), the functions
commented out at the end of `cpuscheduler.h`.

Sent and received structs are taken to be whole: a TCP stream may split them in theory, and the code does not look at the
number of bytes.

Next, if the project is taken further: an invariant of the memory under SJF and HPF that gives `ReachableAlive`; the action steps that
the liveness of `SchedulerLoop` rests on, as theorems.
