---------------------------- MODULE Connections ----------------------------
(***************************************************************************)
(* The server's side of its connections (src/server.c): main accepts, a    *)
(* handle_connection thread per connection receives jobs, inserts them and *)
(* answers with a pid, and all threads share pid_count.                    *)
(*                                                                         *)
(* The sockets are the kernel's, modelled as the code meets them: each     *)
(* direction of a connection is a stream, and an end that is closed shows  *)
(* as end of file, as a reset, or as SIGPIPE, which no program of this     *)
(* repository handles.  The queues are CpuScheduler's part; here a job has *)
(* left for the ready queue when insert has linked it.                     *)
(* Definitions whose name ends in Mutant are slips in the next one.        *)
(***************************************************************************)
EXTENDS Integers, SequencesExt

CONSTANTS
  Client,     \* the clients that may connect, once each
  Scenarios   \* what their users may have started them with, and ...

\* ... whether the memory that malloc returns to the server may hold an old job,
\* and whether the operator may type "exit".
ASSUME ClientAssumption == IsFiniteSet(Client)
ASSUME ServerAssumption ==
  \A s \in Scenarios : s.leftovers \in BOOLEAN /\ s.exit \in BOOLEAN

(* A message is a "job", a "zero" (its burst or its priority is 0) or the    *)
(* "end" of client.c.  What a handler has in its hand when recv has returned *)
(* nothing is "blank", fresh memory, or "phantom", a job of old.             *)

VARIABLES
  scenario,           \* the one of Scenarios that is the case
  server,             \* "up", or how the process has ended
  flagRun, accepting, \* the flag that "exit" clears; main is in its loop
  pid_count,
  place, msg, pid,    \* handlers: where, the job, the pid_count read for insert
  inserted,           \* what insert linked: whose job, which one, with which pid
  sent, taken,        \* jobs sent on a connection; how many of them are received
  answers, read,      \* pids sent back; how many of them are received
  near, far           \* the client's and the server's end of a connection

handlerVars == <<place, msg, pid>>
clientToServer == <<sent, taken>>
serverToClient == <<answers, read>>
ends == <<near, far>>
processVars == <<scenario, server, flagRun, accepting>>
serverVars == <<processVars, pid_count, handlerVars, inserted>>

ConnectionsInit ==
  /\ scenario \in Scenarios
  /\ server = "up" /\ flagRun = 1 /\ accepting = TRUE
  /\ pid_count = 0 /\ inserted = <<>>
  /\ place = [c \in Client |-> "none"] /\ msg = [c \in Client |-> "zero"]
  /\ pid = [c \in Client |-> 0]
  /\ sent = [c \in Client |-> <<>>] /\ taken = [c \in Client |-> 0]
  /\ answers = [c \in Client |-> <<>>] /\ read = [c \in Client |-> 0]
  /\ near = [c \in Client |-> "off"] /\ far = [c \in Client |-> "open"]
-----------------------------------------------------------------------------
(* An end that is "open" takes data, also before main accepts.  Closing it   *)
(* with data unread resets the connection ("rst": the other end reads what   *)
(* is queued, then recv and send fail); otherwise it is "fin": the other end *)
(* reads what is queued, then recv returns 0, its first send is answered by  *)
(* a reset and the next one raises SIGPIPE ("broken").                       *)

Closing(unread) == IF unread THEN "rst" ELSE "fin"

AfterSend(end) == IF end = "fin" THEN "broken" ELSE end

TakesSend(end) == end \in {"open", "fin"}

AtEndOfFile(end) == end \in {"fin", "broken"}

\* Bytes that wait in the socket of a handler, of a client.
JobWaits(c) == taken[c] < Len(sent[c])
AnswerWaits(c) == read[c] < Len(answers[c])
-----------------------------------------------------------------------------
(* The process ends: the kernel closes every socket it had.                  *)

End(how) ==
  /\ server' = how
  /\ far' = [c \in Client |-> IF near[c] # "off" /\ far[c] = "open"
                              THEN Closing(JobWaits(c) \/ place[c] = "none") ELSE far[c]]

\* The console command "exit".  The threads go on until exit() is called, at the
\* end of window_thread, or main returns.
ExitCommand ==
  /\ server = "up" /\ scenario.exit /\ flagRun = 1 /\ flagRun' = 0
  /\ UNCHANGED <<scenario, server, accepting, pid_count, handlerVars, inserted,
                 clientToServer, serverToClient, ends>>

Exit ==
  /\ server = "up" /\ flagRun = 0 /\ End("exited")
  /\ UNCHANGED <<scenario, flagRun, accepting, pid_count, handlerVars, inserted,
                 clientToServer, serverToClient, near>>

\* The loop of main, which tests flagRun after it has accepted; a connection that
\* is closed again is accepted all the same.
Accept(c) ==
  /\ server = "up" /\ accepting /\ near[c] # "off" /\ place[c] = "none"
  /\ place' = [place EXCEPT ![c] = "recv"] /\ accepting' = (flagRun = 1)
  /\ UNCHANGED <<scenario, server, flagRun, pid_count, msg, pid, inserted,
                 clientToServer, serverToClient, ends>>
-----------------------------------------------------------------------------
(* handle_connection. *)

Goto(c, here, there) == server = "up" /\ place[c] = here /\ place' = [place EXCEPT ![c] = there]

BreakMutant(c, here) ==   \* the socket is not closed
  Goto(c, here, "ended") /\ UNCHANGED far

\* A break of the loop: the socket is closed and the thread ends.
Break(c, here) == Goto(c, here, "ended") /\ far' = [far EXCEPT ![c] = Closing(JobWaits(c))]

RecvJob(c) ==
  /\ Goto(c, "recv", "tick") /\ JobWaits(c)
  /\ taken' = [taken EXCEPT ![c] = @ + 1] /\ msg' = [msg EXCEPT ![c] = sent[c][taken[c] + 1]]
  /\ UNCHANGED <<processVars, pid_count, pid, inserted, sent, serverToClient, ends>>

RecvNothingMutant(c) ==   \* sees the end of file before the data
  /\ Goto(c, "recv", "tick") /\ AtEndOfFile(near[c])
  /\ msg' = [msg EXCEPT ![c] = "blank"]
  /\ UNCHANGED <<processVars, pid_count, pid, inserted, clientToServer, serverToClient, ends>>

\* recv returns 0: not the -1 that is tested, and nothing is written to the job.
RecvNothing(c) ==
  /\ Goto(c, "recv", "tick") /\ ~JobWaits(c) /\ AtEndOfFile(near[c])
  /\ \E m \in {"blank", "phantom"} : (m = "phantom" => scenario.leftovers) /\ msg' = [msg EXCEPT ![c] = m]
  /\ UNCHANGED <<processVars, pid_count, pid, inserted, clientToServer, serverToClient, ends>>

RecvFailed(c) ==
  /\ ~JobWaits(c) /\ near[c] = "rst" /\ Break(c, "recv")
  /\ UNCHANGED <<processVars, pid_count, msg, pid, inserted, clientToServer, serverToClient, near>>

\* After the wait for a tick, which is CpuScheduler's.  The handler of a process
\* that is to end drops the job that it has received.
FlagBreak(c) ==
  /\ flagRun = 0 /\ Break(c, "tick")
  /\ UNCHANGED <<processVars, pid_count, msg, pid, inserted, clientToServer, serverToClient, near>>

IsZero(m) == m \in {"zero", "blank"}

Refuse(c) ==
  /\ flagRun = 1 /\ IsZero(msg[c]) /\ Break(c, "tick")
  /\ UNCHANGED <<processVars, pid_count, msg, pid, inserted, clientToServer, serverToClient, near>>

ProceedMutant(c) ==   \* the test for 0 is missing
  /\ flagRun = 1 /\ Goto(c, "tick", "admit")
  /\ UNCHANGED <<processVars, pid_count, msg, pid, inserted, clientToServer, serverToClient, ends>>

\* The wait for stop = 0 begins, CpuScheduler's too.
Proceed(c) ==
  /\ flagRun = 1 /\ ~IsZero(msg[c]) /\ Goto(c, "tick", "admit")
  /\ UNCHANGED <<processVars, pid_count, msg, pid, inserted, clientToServer, serverToClient, ends>>

AdmitMutant(c) ==   \* pid_count is read once per connection
  /\ Goto(c, "admit", "link")
  /\ pid' = [pid EXCEPT ![c] = IF taken[c] = 1 THEN pid_count ELSE @]
  /\ UNCHANGED <<processVars, pid_count, msg, inserted, clientToServer, serverToClient, ends>>

Admit(c) ==
  /\ Goto(c, "admit", "link")
  /\ pid' = [pid EXCEPT ![c] = pid_count]
  /\ UNCHANGED <<processVars, pid_count, msg, inserted, clientToServer, serverToClient, ends>>

Link(c) ==
  /\ Goto(c, "link", "count")
  /\ inserted' = Append(inserted, [client |-> c, pid |-> pid[c],
                                   n |-> IF msg[c] \in {"blank", "phantom"} THEN 0 ELSE taken[c]])
  /\ UNCHANGED <<processVars, pid_count, msg, pid, clientToServer, serverToClient, ends>>

CountMutant(c) ==   \* from the value read for insert
  /\ Goto(c, "count", "send")
  /\ pid_count' = pid[c] + 1
  /\ UNCHANGED <<processVars, msg, pid, inserted, clientToServer, serverToClient, ends>>

CountDownMutant(c) ==   \* pid_count--
  /\ Goto(c, "count", "send")
  /\ pid_count' = pid_count - 1
  /\ UNCHANGED <<processVars, msg, pid, inserted, clientToServer, serverToClient, ends>>

Count(c) ==
  /\ Goto(c, "count", "send")
  /\ pid_count' = pid_count + 1
  /\ UNCHANGED <<processVars, msg, pid, inserted, clientToServer, serverToClient, ends>>

SendMutant(c) ==   \* the number of jobs in the queues
  /\ Goto(c, "send", "recv") /\ TakesSend(near[c])
  /\ answers' = [answers EXCEPT ![c] = Append(@, Len(inserted))]
  /\ near' = [near EXCEPT ![c] = AfterSend(@)]
  /\ UNCHANGED <<processVars, pid_count, msg, pid, inserted, clientToServer, read, far>>

Send(c) ==
  /\ Goto(c, "send", "recv") /\ TakesSend(near[c])
  /\ answers' = [answers EXCEPT ![c] = Append(@, pid_count)]
  /\ near' = [near EXCEPT ![c] = AfterSend(@)]
  /\ UNCHANGED <<processVars, pid_count, msg, pid, inserted, clientToServer, read, far>>

SendFailed(c) ==
  /\ near[c] = "rst" /\ Break(c, "send")
  /\ UNCHANGED <<processVars, pid_count, msg, pid, inserted, clientToServer, serverToClient, near>>

\* The signal ends the process, with all its threads.
SendKills(c) ==
  /\ server = "up" /\ place[c] = "send" /\ near[c] = "broken" /\ End("killed")
  /\ UNCHANGED <<scenario, flagRun, accepting, pid_count, handlerVars, inserted, clientToServer, serverToClient, near>>

handle_connection(c) ==
  \/ RecvJob(c) \/ RecvNothing(c) \/ RecvFailed(c) \/ FlagBreak(c) \/ Refuse(c) \/ Proceed(c)
  \/ Admit(c) \/ Link(c) \/ Count(c) \/ Send(c) \/ SendFailed(c) \/ SendKills(c)
=============================================================================
