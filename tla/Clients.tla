------------------------------ MODULE Clients ------------------------------
(***************************************************************************)
(* The client programs on the connections of Connections.                  *)
(*                                                                         *)
(* manual_client.c and automatic_client.c start a thread per job, which    *)
(* sends it and then waits for an answer on the socket they all share;     *)
(* client.c sends the jobs of a file, then an end mark, and never waits.   *)
(* A thread is known by the number of the job it sends.  It has no other   *)
(* effect before it sends, so that its start is not a step.                *)
(*                                                                         *)
(* Of the sleeps of the programs three orders are kept: the threads of     *)
(* manual_client send in the order of the lines (2 s after the start of    *)
(* each, lines are at least 3 s apart), they have all sent when main       *)
(* closes the socket (12 s later), and the thread of client.c's automatic  *)
(* mode, which sleeps for a second first, is ended by main before it sends.*)
(***************************************************************************)
EXTENDS Connections

\* A scenario says of each client which program it is, which jobs are in its file
\* (of an automatic one, bound: those it creates before it rests or is stopped;
\* none for the menu's automatic modes, which send no job), and whose files end
\* with a newline.
ASSUME ScenarioAssumption ==
  \A s \in Scenarios :
    /\ s.program \in [Client -> {"manual", "automatic", "menu"}]
    /\ \A c \in Client : s.lines[c] \in Seq({"job", "zero"})
    /\ s.newlines \subseteq Client

Program(c) == scenario.program[c]
Lines(c) == scenario.lines[c]

VARIABLES
  waiting,   \* the threads of a client that wait for an answer
  shown      \* the answers they have shown: whose thread, which one, which answer

clientVars == <<waiting, shown>>
vars == <<serverVars, clientToServer, serverToClient, ends, clientVars>>

Init == ConnectionsInit /\ waiting = [c \in Client |-> {}] /\ shown = {}

\* while(!feof(fp)) in manual_client reads once more after a final newline, and
\* finds the last line still in its buffer.
Script(c) ==
  CASE Program(c) = "menu" -> Append(Lines(c), "end")
    [] Program(c) = "manual" /\ c \in scenario.newlines /\ Lines(c) # <<>> -> Append(Lines(c), Last(Lines(c)))
    [] OTHER -> Lines(c)
-----------------------------------------------------------------------------
connect_to_server(c) ==
  /\ server = "up" /\ near[c] = "off"
  /\ near' = [near EXCEPT ![c] = "open"]
  /\ UNCHANGED <<serverVars, clientToServer, serverToClient, far, clientVars>>

\* The process ends, in whichever way, and its threads with it.
Quit(c) ==
  /\ near' = [near EXCEPT ![c] = Closing(AnswerWaits(c))]
  /\ waiting' = [waiting EXCEPT ![c] = {}]
  /\ UNCHANGED <<serverVars, clientToServer, serverToClient, far, shown>>

HasNext(c) == near[c] = "open" /\ Len(sent[c]) < Len(Script(c))

send_job(c) ==
  /\ HasNext(c) /\ TakesSend(far[c])
  /\ sent' = [sent EXCEPT ![c] = Append(@, Script(c)[Len(@) + 1])]
  /\ far' = [far EXCEPT ![c] = AfterSend(@)]
  /\ waiting' = IF Program(c) = "menu" THEN waiting
                ELSE [waiting EXCEPT ![c] = @ \cup {Len(sent[c]) + 1}]
  /\ UNCHANGED <<serverVars, taken, serverToClient, near, shown>>

\* send fails, and the program exits, or raises SIGPIPE.
SendJobFailed(c) == HasNext(c) /\ ~TakesSend(far[c]) /\ Quit(c)

Show(c, k, answer) ==
  /\ k \in waiting[c] /\ waiting' = [waiting EXCEPT ![c] = @ \ {k}]
  /\ shown' = shown \cup {[client |-> c, n |-> k, answer |-> answer]}
  /\ UNCHANGED <<serverVars, clientToServer, answers, ends>>

\* Any of the threads that wait may be the one that gets the next answer.
RecvAnswer(c, k) ==
  /\ AnswerWaits(c) /\ read' = [read EXCEPT ![c] = @ + 1]
  /\ Show(c, k, read[c] + 1)

\* recv returns 0 and the thread shows what its pid happens to hold.
RecvNoAnswer(c, k) ==
  /\ ~AnswerWaits(c) /\ AtEndOfFile(far[c]) /\ UNCHANGED read
  /\ Show(c, k, 0)

RecvAnswerFailed(c, k) == k \in waiting[c] /\ ~AnswerWaits(c) /\ far[c] = "rst" /\ Quit(c)

\* Threads of a process that has ended do not run: waiting is empty then.
Receive(c) ==
  \E k \in waiting[c] : RecvAnswer(c, k) \/ RecvNoAnswer(c, k) \/ RecvAnswerFailed(c, k)

\* main of manual_client and client.c: the file is sent, the socket is closed.
close(c) ==
  /\ Program(c) # "automatic" /\ near[c] = "open" /\ Len(sent[c]) = Len(Script(c))
  /\ Quit(c)

\* automatic_client goes on until its user stops it.
Stop(c) == Program(c) = "automatic" /\ near[c] = "open" /\ Quit(c)

Clients(c) == connect_to_server(c) \/ send_job(c) \/ SendJobFailed(c) \/ Receive(c) \/ close(c) \/ Stop(c)
-----------------------------------------------------------------------------
Handle(c) == (Accept(c) \/ handle_connection(c)) /\ UNCHANGED clientVars

Next == \/ (ExitCommand \/ Exit) /\ UNCHANGED clientVars
        \/ \E c \in Client : Handle(c) \/ Clients(c)

Spec == Init /\ [][Next]_vars

(* The server's threads go on when they can, an operator who leaves stop at  *)
(* 1 aside (SchedulerLoop!EveryJobIsAdmitted), and so does a client's thread *)
(* that has something to receive.  Once flagRun is 0 nothing keeps the       *)
(* console thread from exit().  Clients need not connect, send or close.     *)
Fairness == /\ WF_vars(Exit /\ UNCHANGED clientVars)
            /\ \A c \in Client : WF_vars(Handle(c)) /\ WF_vars(Receive(c))

FairSpec == Spec /\ Fairness
-----------------------------------------------------------------------------
\* The types of the variables.
TypeOK ==
  /\ scenario \in Scenarios
  /\ server \in {"up", "exited", "killed"} /\ flagRun \in {0, 1} /\ accepting \in BOOLEAN
  /\ pid_count \in Nat
  /\ place \in [Client -> {"none", "recv", "tick", "admit", "link", "count", "send", "ended"}]
  /\ msg \in [Client -> {"job", "zero", "end", "blank", "phantom"}] /\ pid \in [Client -> Nat]
  /\ inserted \in Seq([client : Client, n : Nat, pid : Nat])
  /\ sent \in [Client -> Seq({"job", "zero", "end"})] /\ taken \in [Client -> Nat]
  /\ answers \in [Client -> Seq(Nat)] /\ read \in [Client -> Nat]
  /\ near \in [Client -> {"off", "open", "fin", "broken", "rst"}]
  /\ far \in [Client -> {"open", "fin", "broken", "rst"}]
  /\ waiting \in [Client -> SUBSET Nat]
  /\ shown \subseteq [client : Client, n : Nat, answer : Nat]

\* The jobs of a connection among the first m inserted; the place of job m among
\* those of its own connection.
JobsOf(c, m) == {l \in 1..m : inserted[l].client = c}
Rank(m) == Cardinality(JobsOf(inserted[m].client, m))

\* pid_count counts the inserted jobs, but for those whose handler is between
\* insert and its increment: no increment is lost, however handlers interleave.
PidCountIsInserted ==
  pid_count + Cardinality({c \in Client : place[c] = "count"}) = Len(inserted)

\* The jobs of one connection have increasing pids, although pid_count is read
\* for insert before, and incremented after: no two of its jobs share a pid.
PidsIncrease ==
  \A m, n \in DOMAIN inserted :
    m < n /\ inserted[m].client = inserted[n].client => inserted[m].pid < inserted[n].pid

\* The answers on a connection and the pids of its jobs take turns: each answer
\* has a job, is at least the pid of that job, and at most the pid of the next one.
AnswersBetweenPids ==
  /\ \A c \in Client : Len(answers[c]) <= Cardinality(JobsOf(c, Len(inserted)))
  /\ \A m \in DOMAIN inserted :
       LET answer == answers[inserted[m].client]  k == Rank(m) IN
       /\ k \in DOMAIN answer => inserted[m].pid <= answer[k]
       /\ k - 1 \in DOMAIN answer => answer[k - 1] <= inserted[m].pid

\* The jobs that a connection has inserted are those its client sent, in that
\* order, from the first one on, each once, and none is a "zero".  Nor does a
\* handler insert the end of a connection, although recv's 0 is not tested: fresh
\* memory is 0, and 0 is refused.  Only an old job left in the memory gets through.
InsertedInOrder ==
  \A m \in DOMAIN inserted :
    \/ inserted[m].n = Rank(m) /\ sent[inserted[m].client][Rank(m)] # "zero"
    \/ inserted[m].n = 0 /\ scenario.leftovers

\* The threads of a client share a socket, and one may show the answer to the job
\* of another; but no two show the same pid, whatever the other connections do to
\* pid_count between the handler's increment and its answer.
ShownPidsDistinct ==
  \A s, t \in shown :
    s # t /\ s.client = t.client /\ s.answer # 0 /\ t.answer # 0
      => answers[s.client][s.answer] # answers[t.client][t.answer]

\* A handler that ends loses none of its client's jobs, unless the client has
\* reset the connection or sent a job that is refused, or the process is to end:
\* it has inserted all that were queued in the socket, also those that came
\* before a close.  It need not come to that: with two answers to send after the
\* close, the second kills the server (ServerSurvives) and the rest is lost.
EndingLosesNoJob ==
  \A c \in Client :
    flagRun = 1 /\ place[c] = "ended" /\ near[c] # "rst" /\ "zero" \notin Range(sent[c])
      => \A k \in DOMAIN sent[c] : \E m \in DOMAIN inserted : inserted[m].client = c /\ inserted[m].n = k

\* No client's thread waits for ever for the answer to its job: one comes, or
\* the connection ends, whoever closed it.  A client starts finitely many threads.
NoThreadWaitsForever == \A c \in Client : waiting[c] # {} ~> waiting[c] = {}

\* "global pid": no two jobs have the same one.
PidUnique == \A m, n \in DOMAIN inserted : inserted[m].pid = inserted[n].pid => m = n

\* "Send failed pid": a client that is gone does not end the server.
ServerSurvives == server # "killed"
=============================================================================
