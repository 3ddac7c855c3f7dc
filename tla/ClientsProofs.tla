---------------------------- MODULE ClientsProofs ----------------------------
(***************************************************************************)
(* Theorems about Connections and Clients: any number of clients, with any *)
(* programs and files.                                                     *)
(***************************************************************************)
EXTENDS Clients, FiniteSetTheorems, TLAPS

Places == {"none", "recv", "tick", "admit", "link", "count", "send", "ended"}
Sent == {"job", "zero", "end"}
InHand == Sent \cup {"blank", "phantom"}
Ends == {"open", "fin", "broken", "rst"}
Entry == [client : Client, n : Nat, pid : Nat]

-----------------------------------------------------------------------------
(* Types. *)

\* What a program sends are jobs, refused or not, and the end mark.
LEMMA ScriptType == ASSUME TypeOK, NEW c \in Client PROVE Script(c) \in Seq(Sent)
<1>1. Lines(c) \in Seq({"job", "zero"})
  BY ScenarioAssumption DEF TypeOK, Lines
<1>2. Lines(c) \in Seq(Sent)
  BY <1>1 DEF Sent
<1>3. Lines(c) # <<>> => Append(Lines(c), Last(Lines(c))) \in Seq(Sent)
  BY <1>2 DEF Last
<1>4. Append(Lines(c), "end") \in Seq(Sent)
  BY <1>2 DEF Sent
<1> QED  BY <1>2, <1>3, <1>4 DEF Script

LEMMA ClosingType == ASSUME NEW unread \in BOOLEAN PROVE Closing(unread) \in Ends
BY DEF Closing, Ends

LEMMA AfterSendType ==
  ASSUME NEW end
  PROVE  /\ end \in Ends => AfterSend(end) \in Ends
         /\ end \in Ends \cup {"off"} => AfterSend(end) \in Ends \cup {"off"}
BY DEF AfterSend, Ends

LEMMA InitTypeOK == Init => TypeOK
BY DEF Init, ConnectionsInit, TypeOK

\* End, Exit and the signal: every open end is closed.
LEMMA EndType == ASSUME TypeOK, NEW how \in {"exited", "killed"}, End(how)
                 PROVE  server' \in {"up", "exited", "killed"} /\ far' \in [Client -> Ends]
<1>1. far \in [Client -> Ends]
  BY DEF TypeOK, Ends
<1>2. \A c \in Client : Closing(JobWaits(c) \/ place[c] = "none") \in Ends
  BY DEF Closing, Ends
<1> QED  BY <1>1, <1>2 DEF End

LEMMA HandlerTypeOK == ASSUME TypeOK, NEW c \in Client, handle_connection(c), UNCHANGED clientVars
                       PROVE  TypeOK'
<1> USE DEF clientVars, processVars, handlerVars, clientToServer, serverToClient, ends
<1>1. ASSUME NEW here, NEW there \in Places, Goto(c, here, there)
      PROVE  place' \in [Client -> Places]
  BY <1>1 DEF Goto, TypeOK, Places
<1>2. ASSUME NEW here, Break(c, here)
      PROVE  /\ place' \in [Client -> Places]
             /\ far' \in [Client -> {"open", "fin", "broken", "rst"}]
  <2>1. place' \in [Client -> Places]
    BY <1>1, <1>2 DEF Break, Places
  <2> QED  BY <1>2, <2>1 DEF Break, TypeOK, Closing
<1>3. CASE RecvJob(c)
  <2>1. sent[c] \in Seq({"job", "zero", "end"}) /\ taken[c] \in Nat
    BY DEF TypeOK
  <2>2. sent[c][taken[c] + 1] \in {"job", "zero", "end"}
    BY <1>3, <2>1 DEF RecvJob, JobWaits
  <2>3. msg' \in [Client -> {"job", "zero", "end", "blank", "phantom"}]
    BY <1>3, <2>2 DEF RecvJob, TypeOK
  <2>4. taken' \in [Client -> Nat]
    BY <1>3, <2>1 DEF RecvJob, TypeOK
  <2>5. place' \in [Client -> Places]
    BY <1>1, <1>3 DEF RecvJob, Places
  <2> QED  BY <1>3, <2>3, <2>4, <2>5 DEF RecvJob, TypeOK, Places
<1>4. CASE RecvNothing(c)
  <2>1. place' \in [Client -> Places]
    BY <1>1, <1>4 DEF RecvNothing, Places
  <2>2. msg' \in [Client -> {"job", "zero", "end", "blank", "phantom"}]
    BY <1>4 DEF RecvNothing, TypeOK
  <2> QED  BY <1>4, <2>1, <2>2 DEF RecvNothing, TypeOK, Places
<1>5. CASE RecvFailed(c) \/ FlagBreak(c) \/ Refuse(c) \/ SendFailed(c)
  <2>1. UNCHANGED <<processVars, pid_count, msg, pid, inserted, clientToServer, serverToClient, near>>
    BY <1>5 DEF RecvFailed, FlagBreak, Refuse, SendFailed
  <2>2. \E here : Break(c, here)
    BY <1>5 DEF RecvFailed, FlagBreak, Refuse, SendFailed
  <2> QED  BY <1>2, <2>1, <2>2 DEF TypeOK, Places
<1>6. CASE Admit(c)
  <2>1. place' \in [Client -> Places]
    BY <1>1, <1>6 DEF Admit, Places
  <2>2. pid' \in [Client -> Nat]
    BY <1>6 DEF Admit, TypeOK
  <2> QED  BY <1>6, <2>1, <2>2 DEF Admit, TypeOK, Places
<1>7. CASE Link(c)
  <2>1. place' \in [Client -> Places]
    BY <1>1, <1>7 DEF Link, Places
  <2>2. [client |-> c, pid |-> pid[c], n |-> IF msg[c] \in {"blank", "phantom"} THEN 0 ELSE taken[c]] \in Entry
    BY DEF TypeOK, Entry
  <2>3. inserted' \in Seq(Entry)
    BY <1>7, <2>2 DEF Link, TypeOK, Entry
  <2> QED  BY <1>7, <2>1, <2>3 DEF Link, TypeOK, Places, Entry
<1>8. CASE Count(c)
  <2>1. place' \in [Client -> Places]
    BY <1>1, <1>8 DEF Count, Places
  <2>2. pid_count' \in Nat
    BY <1>8 DEF Count, TypeOK
  <2> QED  BY <1>8, <2>1, <2>2 DEF Count, TypeOK, Places
<1>9. CASE Send(c)
  <2>1. place' \in [Client -> Places]
    BY <1>1, <1>9 DEF Send, Places
  <2>2. answers' \in [Client -> Seq(Nat)]
    BY <1>9 DEF Send, TypeOK
  <2>3. near' \in [Client -> {"off", "open", "fin", "broken", "rst"}]
    BY <1>9 DEF Send, TypeOK, AfterSend
  <2> QED  BY <1>9, <2>1, <2>2, <2>3 DEF Send, TypeOK, Places
<1>10. CASE SendKills(c)
  <2>1. End("killed") /\ UNCHANGED <<scenario, flagRun, accepting, pid_count, handlerVars, inserted, clientToServer, serverToClient, near>>
    BY <1>10 DEF SendKills
  <2> QED  BY <2>1, EndType DEF TypeOK, Ends
<1>11. CASE Proceed(c)
  <2>1. place' \in [Client -> Places]
    BY <1>1, <1>11 DEF Proceed, Places
  <2> QED  BY <1>11, <2>1 DEF Proceed, TypeOK, Places
<1> QED  BY <1>3, <1>4, <1>5, <1>6, <1>7, <1>8, <1>9, <1>10, <1>11 DEF handle_connection

LEMMA ClientTypeOK == ASSUME TypeOK, NEW c \in Client, Clients(c) PROVE TypeOK'
<1> USE DEF processVars, serverVars, handlerVars, clientToServer, serverToClient, ends, clientVars
<1>1. ASSUME Quit(c)
      PROVE  TypeOK'
  <2>1. near' \in [Client -> {"off", "open", "fin", "broken", "rst"}]
    BY <1>1 DEF Quit, Closing, TypeOK
  <2>2. waiting' \in [Client -> SUBSET Nat]
    BY <1>1 DEF Quit, TypeOK
  <2> QED  BY <1>1, <2>1, <2>2 DEF Quit, TypeOK
<1>2. ASSUME NEW k \in waiting[c], NEW answer \in Nat, Show(c, k, answer)
      PROVE  waiting' \in [Client -> SUBSET Nat] /\ shown' \subseteq [client : Client, n : Nat, answer : Nat]
  <2>1. waiting[c] \in SUBSET Nat
    BY DEF TypeOK
  <2>2. waiting' \in [Client -> SUBSET Nat]
    BY <1>2, <2>1 DEF Show, TypeOK
  <2>3. [client |-> c, n |-> k, answer |-> answer] \in [client : Client, n : Nat, answer : Nat]
    BY <1>2, <2>1
  <2> QED  BY <1>2, <2>2, <2>3 DEF Show, TypeOK
<1>3. CASE connect_to_server(c)
  BY <1>3 DEF connect_to_server, TypeOK
<1>4. CASE send_job(c)
  <2>1. sent[c] \in Seq({"job", "zero", "end"}) /\ far[c] \in Ends
    BY DEF TypeOK, Ends
  <2>2. Script(c)[Len(sent[c]) + 1] \in Sent
    BY <1>4, <2>1, ScriptType DEF send_job, HasNext
  <2>3. sent' \in [Client -> Seq({"job", "zero", "end"})]
    BY <1>4, <2>1, <2>2 DEF send_job, TypeOK, Sent
  <2>4. far' \in [Client -> {"open", "fin", "broken", "rst"}]
    BY <1>4, <2>1 DEF send_job, AfterSend, TypeOK, Ends
  <2>5. waiting' \in [Client -> SUBSET Nat]
    BY <1>4, <2>1 DEF send_job, TypeOK
  <2> QED  BY <1>4, <2>3, <2>4, <2>5 DEF send_job, TypeOK
<1>5. CASE SendJobFailed(c) \/ close(c) \/ Stop(c)
  BY <1>1, <1>5 DEF SendJobFailed, close, Stop
<1>6. CASE Receive(c)
  <2>1. PICK k \in waiting[c] : RecvAnswer(c, k) \/ RecvNoAnswer(c, k) \/ RecvAnswerFailed(c, k)
    BY <1>6 DEF Receive
  <2>2. CASE RecvAnswer(c, k)
    <3>1. read[c] + 1 \in Nat /\ read' \in [Client -> Nat]
      BY <2>2 DEF RecvAnswer, TypeOK
    <3>2. Show(c, k, read[c] + 1)
      BY <2>2 DEF RecvAnswer
    <3>3. waiting' \in [Client -> SUBSET Nat] /\ shown' \subseteq [client : Client, n : Nat, answer : Nat]
      BY <1>2, <3>1, <3>2
    <3> QED  BY <3>1, <3>2, <3>3 DEF Show, TypeOK
  <2>3. CASE RecvNoAnswer(c, k)
    <3>1. Show(c, k, 0) /\ UNCHANGED read
      BY <2>3 DEF RecvNoAnswer
    <3>2. waiting' \in [Client -> SUBSET Nat] /\ shown' \subseteq [client : Client, n : Nat, answer : Nat]
      BY <1>2, <3>1
    <3> QED  BY <3>1, <3>2 DEF Show, TypeOK
  <2>4. CASE RecvAnswerFailed(c, k)
    BY <1>1, <2>4 DEF RecvAnswerFailed
  <2> QED  BY <2>1, <2>2, <2>3, <2>4
<1> QED  BY <1>3, <1>4, <1>5, <1>6 DEF Clients

\* Every variable keeps its type, whatever clients and server do and in whichever
\* order: server.c:112-177, manual_client.c, automatic_client.c and client.c.
THEOREM ClientsTypeCorrect == Spec => []TypeOK
<1>1. TypeOK /\ [Next]_vars => TypeOK'
  <2> SUFFICES ASSUME TypeOK, [Next]_vars PROVE TypeOK'
    OBVIOUS
  <2>1. CASE (ExitCommand \/ Exit) /\ UNCHANGED clientVars
    BY <2>1, EndType
    DEF ExitCommand, Exit, TypeOK, Ends, handlerVars, clientToServer, serverToClient, ends, clientVars
  <2>2. ASSUME NEW c \in Client, Handle(c)
        PROVE  TypeOK'
    <3>1. CASE Accept(c) /\ UNCHANGED clientVars
      BY <3>1 DEF Accept, TypeOK, clientToServer, serverToClient, ends, clientVars
    <3> QED  BY <2>2, <3>1, HandlerTypeOK DEF Handle
  <2>3. ASSUME NEW c \in Client, Clients(c)
        PROVE  TypeOK'
    BY <2>3, ClientTypeOK
  <2>4. CASE UNCHANGED vars
    BY <2>4 DEF vars, processVars, serverVars, handlerVars, clientToServer, serverToClient, ends, clientVars, TypeOK
  <2> QED  BY <2>1, <2>2, <2>3, <2>4 DEF Next
<1> QED  BY <1>1, InitTypeOK, PTL DEF Spec

LEMMA AlwaysTypeOK == Spec => []TypeOK
BY ClientsTypeCorrect

-----------------------------------------------------------------------------
(* The pids. *)

\* Every step but Admit, Link and Count: it moves at most one handler, and not
\* from or to a place where pids count.
Quiet ==
  /\ UNCHANGED <<pid_count, inserted, pid>>
  /\ \/ UNCHANGED place
     \/ \E c \in Client, here \in {"none", "recv", "tick", "send"},
                   there \in {"recv", "tick", "admit", "ended"} :
          place[c] = here /\ place' = [place EXCEPT ![c] = there]

LEMMA PidSteps ==
  ASSUME [Next]_vars
  PROVE  Quiet \/ \E c \in Client : Admit(c) \/ Link(c) \/ Count(c)
<1> USE DEF processVars, serverVars, handlerVars
<1>1. CASE (ExitCommand \/ Exit) /\ UNCHANGED clientVars
  BY <1>1 DEF ExitCommand, Exit, Quiet
<1>2. ASSUME NEW c \in Client, Handle(c)
      PROVE  Quiet \/ Admit(c) \/ Link(c) \/ Count(c)
  <2>1. CASE Accept(c)
    BY <2>1 DEF Accept, Quiet
  <2>2. CASE RecvJob(c) \/ RecvNothing(c) \/ Proceed(c)
    BY <2>2 DEF RecvJob, RecvNothing, Proceed, Goto, Quiet
  <2>3. CASE RecvFailed(c) \/ FlagBreak(c) \/ Refuse(c) \/ SendFailed(c)
    BY <2>3 DEF RecvFailed, FlagBreak, Refuse, SendFailed, Break, Goto, Quiet
  <2>4. CASE Send(c) \/ SendKills(c)
    BY <2>4 DEF Send, SendKills, Goto, Quiet
  <2> QED  BY <1>2, <2>1, <2>2, <2>3, <2>4 DEF Handle, handle_connection
<1>3. ASSUME NEW c \in Client, Clients(c)
      PROVE  Quiet
  <2>1. UNCHANGED serverVars
    BY <1>3 DEF Clients, connect_to_server, send_job, SendJobFailed, Quit, close, Stop,
                Receive, RecvAnswer, RecvNoAnswer, RecvAnswerFailed, Show
  <2> QED  BY <2>1 DEF Quiet
<1>4. CASE UNCHANGED vars
  BY <1>4 DEF vars, Quiet
<1> QED  BY <1>1, <1>2, <1>3, <1>4 DEF Next

Counting == {c \in Client : place[c] = "count"}

\* pid_count never loses an increment (server.c:163-165), for any number of
\* connections: it counts the jobs that insert has linked, but for those whose
\* handler has not come to the increment yet.
THEOREM PidCountHolds == Spec => []PidCountIsInserted
<1>1. Init => PidCountIsInserted
  <2> SUFFICES ASSUME Init PROVE PidCountIsInserted
    OBVIOUS
  <2>1. {c \in Client : place[c] = "count"} = {}
    BY DEF Init, ConnectionsInit
  <2>2. pid_count = 0 /\ Len(inserted) = 0
    BY DEF Init, ConnectionsInit
  <2>3. Cardinality({c \in Client : place[c] = "count"}) = 0
    BY <2>1, FS_EmptySet
  <2> QED  BY <2>2, <2>3 DEF PidCountIsInserted
<1>2. TypeOK /\ PidCountIsInserted /\ [Next]_vars => PidCountIsInserted'
  <2> SUFFICES ASSUME TypeOK, PidCountIsInserted, [Next]_vars PROVE PidCountIsInserted'
    OBVIOUS
  <2>1. /\ place \in [Client -> Places] /\ pid_count \in Nat /\ inserted \in Seq(Entry)
    BY DEF TypeOK, Places, Entry
  <2>2. IsFiniteSet(Counting)
    BY ClientAssumption, FS_Subset DEF Counting
  <2>3. Cardinality(Counting) \in Nat
    BY <2>2, FS_CardinalityType
  <2>4. pid_count + Cardinality(Counting) = Len(inserted)
    BY DEF PidCountIsInserted, Counting
  <2>5. CASE Quiet
    <3>1. Counting' = Counting
      BY <2>1, <2>5 DEF Quiet, Counting, Places
    <3> QED  BY <2>4, <2>5, <3>1 DEF Quiet, PidCountIsInserted, Counting
  <2>6. ASSUME NEW c \in Client, Admit(c)
        PROVE  PidCountIsInserted'
    <3>1. Counting' = Counting /\ UNCHANGED <<pid_count, inserted>>
      BY <2>1, <2>6 DEF Admit, Goto, Counting
    <3> QED  BY <2>4, <3>1 DEF PidCountIsInserted, Counting
  <2>7. ASSUME NEW c \in Client, Link(c)
        PROVE  PidCountIsInserted'
    <3>1. Counting' = Counting \cup {c} /\ c \notin Counting
      BY <2>1, <2>7 DEF Link, Goto, Counting
    <3>2. Cardinality(Counting') = Cardinality(Counting) + 1
      BY <2>2, <3>1, FS_AddElement
    <3>3. Len(inserted') = Len(inserted) + 1 /\ pid_count' = pid_count
      BY <2>1, <2>7 DEF Link
    <3> QED  BY <2>1, <2>3, <2>4, <3>2, <3>3 DEF PidCountIsInserted, Counting
  <2>8. ASSUME NEW c \in Client, Count(c)
        PROVE  PidCountIsInserted'
    <3>1. Counting' = Counting \ {c} /\ c \in Counting
      BY <2>1, <2>8 DEF Count, Goto, Counting
    <3>2. Cardinality(Counting') = Cardinality(Counting) - 1
      BY <2>2, <3>1, FS_RemoveElement
    <3>3. inserted' = inserted /\ pid_count' = pid_count + 1
      BY <2>8 DEF Count
    <3> QED  BY <2>1, <2>3, <2>4, <3>2, <3>3 DEF PidCountIsInserted, Counting
  <2> QED  BY <2>5, <2>6, <2>7, <2>8, PidSteps
<1> QED  BY <1>1, <1>2, AlwaysTypeOK, PTL DEF Spec

\* What keeps the pids of a connection apart: its handler increments pid_count
\* before it reads it again, whatever the others add in between.
PidInv ==
  /\ \A m \in DOMAIN inserted :
       /\ inserted[m].pid <= pid_count
       /\ place[inserted[m].client] # "count" => inserted[m].pid < pid_count
  /\ \A c \in Client : place[c] = "link" =>
       /\ pid[c] <= pid_count
       /\ \A m \in DOMAIN inserted : inserted[m].client = c => inserted[m].pid < pid[c]
  /\ PidsIncrease

LEMMA PidInvStep == TypeOK /\ PidInv /\ [Next]_vars => PidInv'
<1> SUFFICES ASSUME TypeOK, PidInv, [Next]_vars PROVE PidInv'
  OBVIOUS
<1>1. /\ place \in [Client -> Places] /\ pid \in [Client -> Nat] /\ pid_count \in Nat
      /\ inserted \in Seq(Entry)
  BY DEF TypeOK, Places, Entry
<1>2. \A m \in DOMAIN inserted : inserted[m] \in Entry
  BY <1>1
<1>3. \A m \in DOMAIN inserted : inserted[m].client \in Client /\ inserted[m].pid \in Nat
  BY <1>2 DEF Entry
<1>4. CASE Quiet
  <2>1. \A c \in Client : /\ place'[c] = "link" => place[c] = "link"
                          /\ place'[c] # "count" => place[c] # "count"
    BY <1>1, <1>4 DEF Quiet
  <2>2. inserted' = inserted /\ pid_count' = pid_count /\ pid' = pid
    BY <1>4 DEF Quiet
  <2>3. \A m \in DOMAIN inserted :
          /\ inserted[m].pid <= pid_count
          /\ place'[inserted[m].client] # "count" => inserted[m].pid < pid_count
    <3> TAKE m \in DOMAIN inserted
    <3>1. inserted[m].client \in Client
      BY <1>3
    <3>2. /\ inserted[m].pid <= pid_count
          /\ place[inserted[m].client] # "count" => inserted[m].pid < pid_count
      BY DEF PidInv
    <3> QED  BY <2>1, <3>1, <3>2
  <2>4. \A c \in Client : place'[c] = "link" =>
          /\ pid[c] <= pid_count
          /\ \A m \in DOMAIN inserted : inserted[m].client = c => inserted[m].pid < pid[c]
    <3> TAKE c \in Client
    <3> HAVE place'[c] = "link"
    <3>1. place[c] = "link"
      BY <2>1
    <3> QED  BY <3>1 DEF PidInv
  <2>5. PidsIncrease'
    BY <2>2 DEF PidInv, PidsIncrease
  <2> QED  BY <2>2, <2>3, <2>4, <2>5 DEF PidInv
<1>5. ASSUME NEW c \in Client, Admit(c)
      PROVE  PidInv'
  <2>1. /\ place[c] = "admit" /\ place' = [place EXCEPT ![c] = "link"]
        /\ pid' = [pid EXCEPT ![c] = pid_count] /\ UNCHANGED <<pid_count, inserted>>
    BY <1>5 DEF Admit, Goto
  <2>2. \A m \in DOMAIN inserted : inserted[m].client = c => inserted[m].pid < pid_count
    BY <2>1 DEF PidInv
  <2> QED  BY <1>1, <1>3, <2>1, <2>2 DEF PidInv, PidsIncrease
<1>6. ASSUME NEW c \in Client, Count(c)
      PROVE  PidInv'
  <2>1. /\ place[c] = "count" /\ place' = [place EXCEPT ![c] = "send"]
        /\ pid_count' = pid_count + 1 /\ UNCHANGED <<pid, inserted>>
    BY <1>6 DEF Count, Goto
  <2> QED  BY <1>1, <1>3, <2>1 DEF PidInv, PidsIncrease
<1>7. ASSUME NEW c \in Client, Link(c)
      PROVE  PidInv'
  <2> DEFINE entry == [client |-> c, pid |-> pid[c], n |-> IF msg[c] \in {"blank", "phantom"} THEN 0 ELSE taken[c]]
  <2>1. /\ place[c] = "link" /\ place' = [place EXCEPT ![c] = "count"]
        /\ inserted' = Append(inserted, entry) /\ UNCHANGED <<pid, pid_count>>
    BY <1>7 DEF Link, Goto
  <2>2. entry \in Entry /\ entry.client = c /\ entry.pid = pid[c]
    BY DEF TypeOK, Entry
  <2>3. /\ pid[c] <= pid_count
        /\ \A m \in DOMAIN inserted : inserted[m].client = c => inserted[m].pid < pid[c]
    BY <2>1 DEF PidInv
  <2> HIDE DEF entry
  <2>4. /\ DOMAIN inserted' = 1..(Len(inserted) + 1) /\ DOMAIN inserted = 1..Len(inserted)
        /\ Len(inserted) \in Nat
        /\ \A m \in DOMAIN inserted : inserted'[m] = inserted[m]
        /\ inserted'[Len(inserted) + 1] = entry
    BY <1>1, <2>1, <2>2
  <2>5. \A m \in DOMAIN inserted' :
          /\ inserted'[m].pid <= pid_count'
          /\ place'[inserted'[m].client] # "count" => inserted'[m].pid < pid_count'
    BY <1>1, <1>3, <2>1, <2>2, <2>3, <2>4 DEF PidInv
  <2>6. \A d \in Client : place'[d] = "link" =>
          /\ pid'[d] <= pid_count'
          /\ \A m \in DOMAIN inserted' : inserted'[m].client = d => inserted'[m].pid < pid'[d]
    BY <1>1, <1>3, <2>1, <2>2, <2>4 DEF PidInv
  <2>7. PidsIncrease'
    BY <1>3, <2>2, <2>3, <2>4 DEF PidInv, PidsIncrease
  <2> QED  BY <2>5, <2>6, <2>7 DEF PidInv
<1> QED  BY <1>4, <1>5, <1>6, <1>7, PidSteps

\* The jobs of one connection have increasing pids (server.c:160-165), for any
\* number of connections that interleave; only across connections may pids repeat.
THEOREM PidsIncreaseHolds == Spec => []PidsIncrease
<1>1. Init => PidInv
  BY DEF Init, ConnectionsInit, PidInv, PidsIncrease
<1>2. TypeOK /\ PidInv /\ [Next]_vars => PidInv'
  BY PidInvStep
<1>3. PidInv => PidsIncrease
  BY DEF PidInv
<1> QED  BY <1>1, <1>2, <1>3, AlwaysTypeOK, PTL DEF Spec

-----------------------------------------------------------------------------
(* What is received is what was sent.                                        *)

\* Where a handler has no message in hand and goes on.
Between == {"none", "recv", "count", "send"}

\* Steps that leave alone what handlers have in hand, and what is inserted.
Idle ==
  /\ UNCHANGED <<scenario, msg, taken, inserted>>
  /\ \A c \in Client : place'[c] \in {"tick", "admit", "link"} => place'[c] = place[c]
  /\ \A c \in Client : place'[c] \in Between => place[c] \in Between

LEMMA HandSteps ==
  ASSUME TypeOK, [Next]_vars
  PROVE  Idle \/ \E c \in Client : RecvJob(c) \/ RecvNothing(c) \/ Proceed(c) \/ Admit(c) \/ Link(c)
<1> USE DEF processVars, serverVars, handlerVars, clientToServer, Between
<1>0. place \in [Client -> Places]
  BY DEF TypeOK, Places
<1>1. CASE (ExitCommand \/ Exit) /\ UNCHANGED clientVars
  BY <1>1 DEF ExitCommand, Exit, Idle
<1>2. ASSUME NEW c \in Client, Handle(c)
      PROVE  Idle \/ RecvJob(c) \/ RecvNothing(c) \/ Proceed(c) \/ Admit(c) \/ Link(c)
  <2>1. CASE Accept(c)
    BY <1>0, <2>1 DEF Accept, Idle
  <2>2. CASE RecvFailed(c) \/ FlagBreak(c) \/ Refuse(c) \/ SendFailed(c)
    BY <1>0, <2>2 DEF RecvFailed, FlagBreak, Refuse, SendFailed, Break, Goto, Idle
  <2>3. CASE Count(c) \/ Send(c)
    BY <1>0, <2>3 DEF Count, Send, Goto, Idle
  <2>4. CASE SendKills(c)
    BY <2>4 DEF SendKills, Idle
  <2> QED  BY <1>2, <2>1, <2>2, <2>3, <2>4 DEF Handle, handle_connection
<1>3. ASSUME NEW c \in Client, Clients(c)
      PROVE  Idle
  BY <1>3 DEF Clients, connect_to_server, send_job, SendJobFailed, Quit, close, Stop,
              Receive, RecvAnswer, RecvNoAnswer, RecvAnswerFailed, Show, Idle
<1>4. CASE UNCHANGED vars
  BY <1>4 DEF vars, Idle
<1> QED  BY <1>1, <1>2, <1>3, <1>4 DEF Next

-----------------------------------------------------------------------------
(* What is sent is received.                                                 *)

InsertedIs(c, k) == \E m \in DOMAIN inserted : inserted[m].client = c /\ inserted[m].n = k

\* A received message is refused, inserted, or on its way to be, until "exit".
Kept(c) ==
  /\ taken[c] <= Len(sent[c])
  /\ flagRun = 1 => \A k \in 1..taken[c] :
       \/ sent[c][k] = "zero" \/ InsertedIs(c, k)
       \/ k = taken[c] /\ place[c] \in {"tick", "admit", "link"} /\ msg[c] = sent[c][k]

\* All is received of a client that sends no more.
AllTaken(c) == AtEndOfFile(near[c]) /\ taken[c] = Len(sent[c])

Refused(c) == \E k \in 1..taken[c] : sent[c][k] = "zero"

\* A handler that has ended, or will without another message, had a reason to.
Reason(c) ==
  place[c] = "ended" \/ (place[c] = "tick" /\ IsZero(msg[c]))
    => flagRun = 0 \/ near[c] = "rst" \/ AllTaken(c) \/ Refused(c)

\* Only a client that is there has threads that wait.
Present(c) == waiting[c] # {} => near[c] = "open"

KeptInv == \A c \in Client : Kept(c) /\ Reason(c) /\ Present(c)

\* The steps of clients: a job more, or an end that closes; what is closed stays so.
LEMMA KeptClient == ASSUME TypeOK, KeptInv, NEW c \in Client, Clients(c) PROVE KeptInv'
<1> USE DEF processVars, serverVars, handlerVars, clientToServer, serverToClient, ends, clientVars
<1>1. /\ near \in [Client -> Ends \cup {"off"}] /\ sent \in [Client -> Seq(Sent)]
      /\ taken \in [Client -> Nat] /\ waiting \in [Client -> SUBSET Nat]
  BY DEF TypeOK, Ends, Sent
<1>2. ASSUME Quit(c), near[c] = "open"
      PROVE  KeptInv'
  <2>1. /\ near' = [near EXCEPT ![c] = Closing(AnswerWaits(c))] /\ waiting' = [waiting EXCEPT ![c] = {}]
        /\ UNCHANGED <<flagRun, place, msg, inserted, sent, taken>>
    BY <1>2 DEF Quit
  <2>2. \A d \in Client : Kept(d)'
    BY <2>1 DEF KeptInv, Kept, InsertedIs
  <2>3. \A d \in Client : Reason(d)'
    BY <1>1, <1>2, <2>1 DEF KeptInv, Reason, AllTaken, Refused, AtEndOfFile
  <2>4. \A d \in Client : Present(d)'
    BY <1>1, <2>1 DEF KeptInv, Present
  <2> QED  BY <2>2, <2>3, <2>4 DEF KeptInv
<1>3. CASE connect_to_server(c)
  <2>1. /\ near[c] = "off" /\ near' = [near EXCEPT ![c] = "open"]
        /\ UNCHANGED <<flagRun, place, msg, inserted, sent, taken, waiting>>
    BY <1>3 DEF connect_to_server
  <2>2. \A d \in Client : Kept(d)'
    BY <2>1 DEF KeptInv, Kept, InsertedIs
  <2>3. \A d \in Client : Reason(d)'
    BY <1>1, <2>1 DEF KeptInv, Reason, AllTaken, Refused, AtEndOfFile
  <2>4. \A d \in Client : Present(d)'
    BY <1>1, <2>1 DEF KeptInv, Present
  <2> QED  BY <2>2, <2>3, <2>4 DEF KeptInv
<1>4. CASE send_job(c)
  <2> DEFINE new == Script(c)[Len(sent[c]) + 1]
  <2>1. /\ near[c] = "open" /\ sent' = [sent EXCEPT ![c] = Append(@, new)]
        /\ waiting' = waiting \/ waiting' = [waiting EXCEPT ![c] = @ \cup {Len(sent[c]) + 1}]
        /\ UNCHANGED <<flagRun, place, msg, inserted, near, taken>>
    BY <1>4 DEF send_job, HasNext
  <2>2. new \in Sent
    BY <1>1, <1>4, ScriptType DEF send_job, HasNext
  <2> HIDE DEF new
  <2>3. /\ \A d \in Client \ {c} : sent'[d] = sent[d]
        /\ Len(sent[c]) \in Nat /\ Len(sent'[c]) = Len(sent[c]) + 1
        /\ \A k \in 1..Len(sent[c]) : sent'[c][k] = sent[c][k]
    BY <1>1, <2>1, <2>2
  <2>4. \A d \in Client : Kept(d)'
    <3> SUFFICES ASSUME NEW d \in Client PROVE Kept(d)'
      OBVIOUS
    <3>1. Kept(d) /\ taken[d] \in Nat
      BY <1>1 DEF KeptInv
    <3>2. CASE d = c
      BY <2>1, <2>3, <3>1, <3>2 DEF Kept, InsertedIs
    <3>3. CASE d # c
      BY <2>1, <2>3, <3>1, <3>3 DEF Kept, InsertedIs
    <3> QED  BY <3>2, <3>3
  <2>5. \A d \in Client : Reason(d)'
    <3> SUFFICES ASSUME NEW d \in Client PROVE Reason(d)'
      OBVIOUS
    <3>1. Reason(d) /\ Kept(d) /\ taken[d] \in Nat
      BY <1>1 DEF KeptInv
    <3>2. CASE d = c
      BY <2>1, <2>3, <3>1, <3>2 DEF Reason, Kept, AllTaken, Refused, AtEndOfFile
    <3>3. CASE d # c
      BY <2>1, <2>3, <3>1, <3>3 DEF Reason, AllTaken, Refused, AtEndOfFile
    <3> QED  BY <3>2, <3>3
  <2>6. \A d \in Client : Present(d)'
    BY <1>1, <2>1 DEF KeptInv, Present
  <2> QED  BY <2>4, <2>5, <2>6 DEF KeptInv
<1>5. CASE SendJobFailed(c) \/ close(c) \/ Stop(c)
  BY <1>2, <1>5 DEF SendJobFailed, HasNext, close, Stop
<1>6. CASE Receive(c)
  <2>1. PICK k \in waiting[c] : RecvAnswer(c, k) \/ RecvNoAnswer(c, k) \/ RecvAnswerFailed(c, k)
    BY <1>6 DEF Receive
  <2>2. CASE RecvAnswerFailed(c, k)
    BY <1>2, <2>1, <2>2 DEF RecvAnswerFailed, KeptInv, Present
  <2>3. CASE RecvAnswer(c, k) \/ RecvNoAnswer(c, k)
    <3>1. /\ waiting' = [waiting EXCEPT ![c] = @ \ {k}]
          /\ UNCHANGED <<flagRun, place, msg, inserted, near, sent, taken>>
      BY <2>3 DEF RecvAnswer, RecvNoAnswer, Show
    <3>2. \A d \in Client : waiting'[d] \subseteq waiting[d]
      BY <1>1, <3>1
    <3>3. \A d \in Client : Kept(d)' /\ Reason(d)'
      BY <3>1 DEF KeptInv, Kept, InsertedIs, Reason, AllTaken, Refused, AtEndOfFile
    <3>4. \A d \in Client : Present(d)'
      BY <3>1, <3>2 DEF KeptInv, Present
    <3> QED  BY <3>3, <3>4 DEF KeptInv
  <2> QED  BY <2>1, <2>2, <2>3
<1> QED  BY <1>3, <1>4, <1>5, <1>6 DEF Clients

\* The steps of the server, for the handler c and every connection d.
LEMMA KeptHandler == ASSUME TypeOK, KeptInv, NEW c \in Client, Handle(c) PROVE KeptInv'
<1> USE DEF processVars, serverVars, handlerVars, clientToServer, serverToClient, ends, clientVars
<1>1. /\ near \in [Client -> Ends \cup {"off"}] /\ sent \in [Client -> Seq(Sent)]
      /\ taken \in [Client -> Nat] /\ place \in [Client -> Places]
      /\ msg \in [Client -> InHand] /\ inserted \in Seq(Entry)
  BY DEF TypeOK, Ends, Sent, InHand, Places, Entry
<1>2. \A d \in Client : Kept(d) /\ Reason(d) /\ Present(d) /\ taken[d] \in Nat /\ Len(sent[d]) \in Nat
  BY <1>1 DEF KeptInv
<1>3. SUFFICES ASSUME NEW d \in Client PROVE Kept(d)' /\ Reason(d)' /\ Present(d)'
  BY DEF KeptInv
<1>4. UNCHANGED <<sent, waiting, flagRun>>
  BY DEF Handle, Accept, handle_connection, RecvJob, RecvNothing, RecvFailed, FlagBreak, Refuse, Proceed, Admit,
         Link, Count, Send, SendFailed, SendKills
<1>5. ASSUME UNCHANGED <<taken, inserted>>,
              place[d] \in {"tick", "admit", "link"} =>
                (place'[d] \in {"tick", "admit", "link"} /\ msg'[d] = msg[d]) \/ IsZero(msg[d])
       PROVE  Kept(d)'
  <2>1. SUFFICES ASSUME flagRun = 1, NEW k \in 1..taken[d]
                 PROVE  \/ sent[d][k] = "zero" \/ InsertedIs(d, k)'
                        \/ k = taken[d] /\ place'[d] \in {"tick", "admit", "link"} /\ msg'[d] = sent[d][k]
    BY <1>2, <1>4, <1>5 DEF Kept
  <2>2. \/ sent[d][k] = "zero" \/ InsertedIs(d, k)
        \/ k = taken[d] /\ place[d] \in {"tick", "admit", "link"} /\ msg[d] = sent[d][k]
    BY <1>2, <2>1 DEF Kept
  <2>3. sent[d][k] \in Sent
    BY <1>1, <1>2 DEF Kept
  <2>4. InsertedIs(d, k) => InsertedIs(d, k)'
    BY <1>5 DEF InsertedIs
  <2> QED  BY <1>5, <2>2, <2>3, <2>4 DEF IsZero, Sent
<1>6. ASSUME UNCHANGED <<taken, inserted, near>>, NEW here, NEW there, place[c] = here,
             place' = [place EXCEPT ![c] = there], here \notin {"tick", "admit", "link"}, msg'[d] = msg[d] \/ d = c,
             there = "ended" \/ (there = "tick" /\ IsZero(msg'[c])) => near[c] = "rst" \/ AllTaken(c)
      PROVE  Kept(d)' /\ Reason(d)' /\ Present(d)'
  <2>1. Present(d)'
    BY <1>2, <1>4, <1>6 DEF Present
  <2>2. Kept(d)'
    BY <1>1, <1>6, <1>5
  <2>3. Reason(d)'
    BY <1>1, <1>2, <1>4, <1>6 DEF Reason, AllTaken, Refused, AtEndOfFile
  <2> QED  BY <2>1, <2>2, <2>3
<1>7. CASE Accept(c)
  BY <1>6, <1>7 DEF Accept
<1>8. CASE RecvJob(c)
  <2>1. /\ taken[c] < Len(sent[c]) /\ taken' = [taken EXCEPT ![c] = @ + 1]
        /\ place[c] = "recv" /\ place' = [place EXCEPT ![c] = "tick"]
        /\ msg' = [msg EXCEPT ![c] = sent[c][taken[c] + 1]] /\ UNCHANGED <<inserted, near>>
    BY <1>8 DEF RecvJob, JobWaits, Goto
  <2>2. Present(d)'
    BY <1>2, <1>4, <2>1 DEF Present
  <2>3. CASE d # c
    BY <1>1, <1>2, <1>4, <2>1, <2>2, <2>3 DEF Kept, InsertedIs, Reason, AllTaken, Refused, AtEndOfFile
  <2>4. CASE d = c
    <3>1. taken'[c] = taken[c] + 1 /\ place'[c] = "tick" /\ msg'[c] = sent[c][taken[c] + 1]
      BY <1>1, <2>1
    <3>2. Kept(c)'
      BY <1>2, <1>4, <2>1, <3>1 DEF Kept, InsertedIs
    <3>3. IsZero(msg'[c]) => Refused(c)'
      <4>1. taken[c] + 1 \in 1..taken'[c] /\ sent'[c][taken[c] + 1] = msg'[c] /\ msg'[c] \in Sent
        BY <1>1, <1>2, <1>4, <2>1, <3>1
      <4> QED  BY <4>1 DEF Refused, IsZero, Sent
    <3> QED  BY <2>2, <2>4, <3>1, <3>2, <3>3 DEF Reason
  <2> QED  BY <2>3, <2>4
<1>9. CASE RecvNothing(c)
  <2>1. /\ ~JobWaits(c) /\ AtEndOfFile(near[c]) /\ Goto(c, "recv", "tick")
        /\ UNCHANGED <<taken, inserted, near>> /\ \A b \in Client \ {c} : msg'[b] = msg[b]
    BY <1>1, <1>9 DEF RecvNothing
  <2>2. AllTaken(c)
    BY <1>2, <2>1 DEF AllTaken, JobWaits, Kept
  <2> QED  BY <1>6, <2>1, <2>2 DEF Goto
<1>10. CASE RecvFailed(c)
  BY <1>6, <1>10 DEF RecvFailed, Break, Goto
<1>11. CASE SendFailed(c)
  BY <1>6, <1>11 DEF SendFailed, Break, Goto
<1>12. CASE Refuse(c)
  <2>1. /\ IsZero(msg[c]) /\ place[c] = "tick" /\ place' = [place EXCEPT ![c] = "ended"]
        /\ UNCHANGED <<msg, taken, inserted, near>>
    BY <1>12 DEF Refuse, Break, Goto
  <2>2. Present(d)'
    BY <1>2, <1>4, <2>1 DEF Present
  <2>3. Kept(d)'
    BY <1>1, <1>5, <2>1
  <2>4. Reason(d)'
    BY <1>1, <1>2, <1>4, <2>1 DEF Reason, AllTaken, Refused, AtEndOfFile
  <2> QED  BY <2>2, <2>3, <2>4
<1>13. CASE Proceed(c) \/ Admit(c)
  <2>1. /\ \/ place[c] = "tick" /\ place' = [place EXCEPT ![c] = "admit"]
           \/ place[c] = "admit" /\ place' = [place EXCEPT ![c] = "link"]
        /\ UNCHANGED <<msg, taken, inserted, near>>
    BY <1>13 DEF Proceed, Admit, Goto
  <2>2. Present(d)'
    BY <1>2, <1>4, <2>1 DEF Present
  <2>3. Kept(d)'
    BY <1>1, <1>5, <2>1
  <2>4. Reason(d)'
    BY <1>1, <1>2, <1>4, <2>1 DEF Reason, AllTaken, Refused, AtEndOfFile
  <2> QED  BY <2>2, <2>3, <2>4
<1>14. CASE FlagBreak(c)
  <2>1. /\ flagRun = 0 /\ UNCHANGED <<taken, inserted, near>>
    BY <1>14 DEF FlagBreak
  <2> QED  BY <1>2, <1>4, <2>1 DEF Kept, Reason, Present
<1>15. CASE Link(c)
  <2> DEFINE entry == [client |-> c, pid |-> pid[c], n |-> IF msg[c] \in {"blank", "phantom"} THEN 0 ELSE taken[c]]
  <2>1. /\ place[c] = "link" /\ place' = [place EXCEPT ![c] = "count"]
        /\ inserted' = Append(inserted, entry) /\ UNCHANGED <<msg, taken, near>>
    BY <1>15 DEF Link, Goto
  <2>2. entry \in Entry
    BY DEF TypeOK, Entry
  <2>3. entry.client = c /\ (msg[c] \in Sent => entry.n = taken[c])
    BY DEF Sent
  <2> HIDE DEF entry
  <2>4. /\ \A m \in DOMAIN inserted : m \in DOMAIN inserted' /\ inserted'[m] = inserted[m]
        /\ Len(inserted) + 1 \in DOMAIN inserted' /\ inserted'[Len(inserted) + 1] = entry
    BY <1>1, <2>1, <2>2
  <2>5. /\ \A b \in Client, k \in Nat : InsertedIs(b, k) => InsertedIs(b, k)'
        /\ msg[c] \in Sent => InsertedIs(c, taken[c])'
    BY <2>1, <2>3, <2>4 DEF InsertedIs
  <2>6. Present(d)'
    BY <1>2, <1>4, <2>1 DEF Present
  <2>7. Reason(d)'
    BY <1>1, <1>2, <1>4, <2>1 DEF Reason, AllTaken, Refused, AtEndOfFile
  <2>8. Kept(d)'
    <3>1. taken'[d] = taken[d] /\ sent'[d] = sent[d] /\ (d # c => place'[d] = place[d]) /\ msg'[d] = msg[d]
      BY <1>1, <1>4, <2>1
    <3>2. SUFFICES ASSUME flagRun = 1, NEW k \in 1..taken[d]
                   PROVE  \/ sent[d][k] = "zero" \/ InsertedIs(d, k)'
                          \/ k = taken[d] /\ place'[d] \in {"tick", "admit", "link"} /\ msg[d] = sent[d][k]
      BY <1>2, <1>4, <3>1 DEF Kept
    <3>3. k \in Nat /\ sent[d][k] \in Sent
      BY <1>1, <1>2 DEF Kept
    <3>4. \/ sent[d][k] = "zero" \/ InsertedIs(d, k)
          \/ k = taken[d] /\ place[d] \in {"tick", "admit", "link"} /\ msg[d] = sent[d][k]
      BY <1>2, <3>2 DEF Kept
    <3> QED  BY <2>5, <3>1, <3>3, <3>4
  <2> QED  BY <2>6, <2>7, <2>8
<1>16. CASE Count(c)
  BY <1>6, <1>16 DEF Count, Goto
<1>17. CASE Send(c)
  <2>1. /\ place[c] = "send" /\ place' = [place EXCEPT ![c] = "recv"] /\ TakesSend(near[c])
        /\ near' = [near EXCEPT ![c] = AfterSend(@)] /\ UNCHANGED <<msg, taken, inserted>>
    BY <1>17 DEF Send, Goto
  <2>2. near'[d] = near[d] \/ (near[d] = "fin" /\ near'[d] = "broken")
    BY <1>1, <2>1 DEF TakesSend, AfterSend
  <2>3. Present(d)'
    BY <1>2, <1>4, <2>1, <2>2 DEF Present
  <2>4. Kept(d)'
    BY <1>1, <1>2, <1>4, <2>1 DEF Kept, InsertedIs
  <2>5. Reason(d)'
    BY <1>1, <1>2, <1>4, <2>1, <2>2 DEF Reason, AllTaken, Refused, AtEndOfFile
  <2> QED  BY <2>3, <2>4, <2>5
<1>18. CASE SendKills(c)
  <2>1. UNCHANGED <<place, msg, taken, inserted, near>>
    BY <1>18 DEF SendKills
  <2> QED  BY <1>2, <1>4, <2>1 DEF Kept, InsertedIs, Reason, AllTaken, Refused, AtEndOfFile, Present
<1> QED  BY <1>7, <1>8, <1>9, <1>10, <1>11, <1>12, <1>13, <1>14, <1>15, <1>16, <1>17, <1>18
         DEF Handle, handle_connection

LEMMA AlwaysKept == Spec => []KeptInv
<1>1. Init => KeptInv
  BY DEF Init, ConnectionsInit, KeptInv, Kept, Reason, Present
<1>2. TypeOK /\ KeptInv /\ [Next]_vars => KeptInv'
  <2> SUFFICES ASSUME TypeOK, KeptInv, [Next]_vars PROVE KeptInv'
    OBVIOUS
  <2>1. ASSUME UNCHANGED <<place, msg, inserted, sent, taken, near, waiting>>, UNCHANGED flagRun \/ flagRun' = 0
        PROVE  KeptInv'
    BY <2>1 DEF KeptInv, Kept, InsertedIs, Reason, AllTaken, Refused, AtEndOfFile, Present
  <2>2. CASE (ExitCommand \/ Exit) /\ UNCHANGED clientVars
    BY <2>1, <2>2 DEF ExitCommand, Exit, handlerVars, clientToServer, ends, clientVars
  <2>3. CASE UNCHANGED vars
    BY <2>1, <2>3 DEF vars, processVars, serverVars, handlerVars, clientToServer, ends, clientVars
  <2> QED  BY <2>2, <2>3, KeptClient, KeptHandler DEF Next
<1> QED  BY <1>1, <1>2, AlwaysTypeOK, PTL DEF Spec

\* A handler that has ended on its own, no reset and no refused job in between, has
\* inserted all that its client had sent (server.c:119-176), for any programs and
\* files: recv returns 0 when nothing is left to receive, and not before.
THEOREM EndingLosesNoJobHolds == Spec => []EndingLosesNoJob
<1>1. TypeOK /\ KeptInv => EndingLosesNoJob
  <2> SUFFICES ASSUME TypeOK, KeptInv, NEW c \in Client, flagRun = 1, place[c] = "ended", near[c] # "rst",
                      "zero" \notin Range(sent[c]), NEW k \in DOMAIN sent[c]
               PROVE  InsertedIs(c, k)
    BY DEF EndingLosesNoJob, InsertedIs
  <2>1. sent[c] \in Seq(Sent) /\ taken[c] \in Nat /\ Kept(c) /\ Reason(c)
    BY DEF TypeOK, Sent, KeptInv
  <2>2. \A n \in 1..Len(sent[c]) : sent[c][n] # "zero"
    BY <2>1 DEF Range
  <2>3. taken[c] = Len(sent[c])
    BY <2>1, <2>2 DEF Reason, Refused, AllTaken, Kept
  <2> QED  BY <2>1, <2>2, <2>3 DEF Kept
<1> QED  BY <1>1, AlwaysTypeOK, AlwaysKept, PTL

-----------------------------------------------------------------------------
(* What is inserted for a connection, in which order.                        *)

\* How many of the inserted jobs are c's.
Total(c) == Cardinality(JobsOf(c, Len(inserted)))

LEMMA RankType ==
  ASSUME inserted \in Seq(Entry)
  PROVE  /\ \A c, m : m \in Nat => Cardinality(JobsOf(c, m)) \in Nat
         /\ \A c : Total(c) \in Nat
         /\ \A m \in DOMAIN inserted : Rank(m) \in 1..Total(inserted[m].client)
<1>1. \A c, m : m \in Nat => IsFiniteSet(JobsOf(c, m)) /\ Cardinality(JobsOf(c, m)) \in Nat
  <2> SUFFICES ASSUME NEW c, NEW m \in Nat
               PROVE  IsFiniteSet(JobsOf(c, m)) /\ Cardinality(JobsOf(c, m)) \in Nat
    OBVIOUS
  <2>1. IsFiniteSet(1..m)
    BY FS_Interval
  <2>2. JobsOf(c, m) \in SUBSET (1..m)
    BY DEF JobsOf
  <2>3. IsFiniteSet(JobsOf(c, m))
    BY <2>1, <2>2, FS_Subset
  <2> QED  BY <2>3, FS_CardinalityType
<1>2. Len(inserted) \in Nat /\ DOMAIN inserted = 1..Len(inserted)
  OBVIOUS
<1>3. ASSUME NEW m \in DOMAIN inserted
      PROVE  Rank(m) \in 1..Total(inserted[m].client)
  <2> DEFINE c == inserted[m].client
             mine == JobsOf(c, m)
             all == JobsOf(c, Len(inserted))
  <2>1. m \in mine /\ mine \in SUBSET all
    BY <1>2 DEF JobsOf
  <2>2. IsFiniteSet(mine) /\ IsFiniteSet(all) /\ Cardinality(mine) \in Nat /\ Cardinality(all) \in Nat
    BY <1>1, <1>2
  <2> HIDE DEF mine, all
  <2>3. Cardinality(mine) <= Cardinality(all)
    BY <2>1, <2>2, FS_Subset
  <2>4. Cardinality(mine) # 0
    BY <2>1, <2>2, FS_EmptySet
  <2> QED  BY <2>2, <2>3, <2>4 DEF Rank, Total, mine, all
<1> QED  BY <1>1, <1>2, <1>3 DEF Total

\* insert gives the new job the next place of its connection, and no other a new one.
LEMMA RankAppend ==
  ASSUME inserted \in Seq(Entry), NEW entry \in Entry, inserted' = Append(inserted, entry)
  PROVE  /\ \A m \in DOMAIN inserted : m \in DOMAIN inserted' /\ inserted'[m] = inserted[m] /\ Rank(m)' = Rank(m)
         /\ \A m \in DOMAIN inserted' : m \in DOMAIN inserted \/ m = Len(inserted) + 1
         /\ \A c : c # entry.client => Total(c)' = Total(c)
         /\ Total(entry.client)' = Total(entry.client) + 1
         /\ Len(inserted) + 1 \in DOMAIN inserted' /\ inserted'[Len(inserted) + 1] = entry
         /\ \A m : m = Len(inserted) + 1 => Rank(m)' = Total(entry.client) + 1
<1> DEFINE n == Len(inserted)
<1>1. /\ n \in Nat /\ DOMAIN inserted = 1..n /\ DOMAIN inserted' = 1..(n + 1) /\ Len(inserted') = n + 1
      /\ \A m \in 1..n : inserted'[m] = inserted[m]
      /\ inserted'[n + 1] = entry
  OBVIOUS
<1> DEFINE After(c, m) == {l \in 1..m : inserted'[l].client = c}
<1>2. \A c, m : m \in 0..n => After(c, m) = JobsOf(c, m)
  <2> SUFFICES ASSUME NEW c, NEW m \in 0..n PROVE After(c, m) = JobsOf(c, m)
    OBVIOUS
  <2>1. \A l \in 1..m : inserted'[l].client = inserted[l].client
    BY <1>1
  <2> QED  BY <2>1 DEF JobsOf
<1>3. \A c : After(c, n + 1) = IF c = entry.client THEN JobsOf(c, n) \cup {n + 1} ELSE JobsOf(c, n)
  <2> SUFFICES ASSUME NEW c
               PROVE  After(c, n + 1) = IF c = entry.client THEN JobsOf(c, n) \cup {n + 1} ELSE JobsOf(c, n)
    OBVIOUS
  <2>1. 1..(n + 1) = (1..n) \cup {n + 1}
    BY <1>1
  <2>2. After(c, n + 1) = {l \in (1..n) \cup {n + 1} : inserted'[l].client = c}
    BY <2>1
  <2>3. JobsOf(c, n) = {l \in 1..n : inserted[l].client = c}
    BY DEF JobsOf
  <2> HIDE DEF n, After
  <2> QED  BY <1>1, <2>2, <2>3
<1>4. \A c : n + 1 \notin JobsOf(c, n) /\ IsFiniteSet(JobsOf(c, n))
  <2> SUFFICES ASSUME NEW c PROVE n + 1 \notin JobsOf(c, n) /\ IsFiniteSet(JobsOf(c, n))
    OBVIOUS
  <2>1. n + 1 \notin JobsOf(c, n) /\ JobsOf(c, n) \in SUBSET (1..n)
    BY <1>1 DEF JobsOf
  <2>2. IsFiniteSet(1..n)
    BY <1>1, FS_Interval
  <2> QED  BY <2>1, <2>2, FS_Subset
<1>5. Cardinality(JobsOf(entry.client, n) \cup {n + 1}) = Cardinality(JobsOf(entry.client, n)) + 1
  BY <1>4, FS_AddElement
<1>6. \A c : Total(c) = Cardinality(JobsOf(c, n)) /\ Total(c)' = Cardinality(After(c, n + 1))
  BY <1>1 DEF Total, JobsOf
<1>7. \A m \in 1..n : Rank(m)' = Rank(m)
  <2> TAKE m \in 1..n
  <2>1. Rank(m)' = Cardinality(After(inserted'[m].client, m))
    BY DEF Rank, JobsOf
  <2>2. After(inserted'[m].client, m) = JobsOf(inserted[m].client, m)
    BY <1>1, <1>2
  <2> QED  BY <2>1, <2>2 DEF Rank
<1>8. \A m : m = n + 1 => Rank(m)' = Cardinality(After(entry.client, n + 1))
  <2> SUFFICES ASSUME NEW m, m = n + 1 PROVE Rank(m)' = Cardinality(After(entry.client, m))
    OBVIOUS
  <2>1. Rank(m)' = Cardinality(After(inserted'[m].client, m))
    BY DEF Rank, JobsOf
  <2> QED  BY <1>1, <2>1
<1> HIDE DEF After
<1>9. /\ \A c : c # entry.client => Total(c)' = Total(c)
      /\ Total(entry.client)' = Total(entry.client) + 1
  BY <1>3, <1>5, <1>6
<1>10. \A m : m = n + 1 => Rank(m)' = Total(entry.client) + 1
  BY <1>3, <1>5, <1>6, <1>8
<1> QED  BY <1>1, <1>7, <1>9, <1>10

\* Messages are added to a stream only, and none to one whose end is closed.
LEMMA Streams ==
  ASSUME TypeOK, KeptInv, [Next]_vars, NEW d \in Client
  PROVE  /\ Len(sent[d]) \in Nat /\ Len(sent'[d]) \in Nat /\ Len(sent[d]) <= Len(sent'[d])
         /\ \A k \in 1..Len(sent[d]) : sent'[d][k] = sent[d][k]
         /\ AtEndOfFile(near[d]) => AtEndOfFile(near'[d]) /\ sent'[d] = sent[d]
<1> USE DEF clientToServer, ends
<1>1. /\ near \in [Client -> Ends \cup {"off"}] /\ sent \in [Client -> Seq(Sent)]
  BY DEF TypeOK, Ends, Sent
<1>2. CASE UNCHANGED <<near, sent>>
  BY <1>1, <1>2
<1>3. CASE (ExitCommand \/ Exit) /\ UNCHANGED clientVars
  BY <1>2, <1>3 DEF ExitCommand, Exit
<1>4. CASE UNCHANGED vars
  BY <1>2, <1>4 DEF vars
<1>5. ASSUME NEW c \in Client, Handle(c), ~UNCHANGED <<near, sent>>
      PROVE  Send(c)
  BY <1>5 DEF Handle, Accept, handle_connection, RecvJob, RecvNothing, RecvFailed, FlagBreak, Refuse, Proceed, Admit,
              Link, Count, Send, SendFailed, SendKills
<1>6. ASSUME NEW c \in Client, Send(c)
      PROVE  UNCHANGED sent /\ (AtEndOfFile(near[d]) => AtEndOfFile(near'[d]))
  BY <1>1, <1>6 DEF Send, AfterSend, AtEndOfFile
<1>7. ASSUME NEW c \in Client, Clients(c), ~UNCHANGED <<near, sent>>
      PROVE  \/ near[c] \in {"off", "open"} /\ UNCHANGED sent
                /\ \A e \in Client \ {c} : near'[e] = near[e]
             \/ send_job(c)
  <2>1. CASE connect_to_server(c)
    BY <1>1, <2>1 DEF connect_to_server
  <2>2. CASE SendJobFailed(c) \/ close(c) \/ Stop(c)
    BY <1>1, <2>2 DEF SendJobFailed, HasNext, close, Stop, Quit
  <2>3. CASE Receive(c)
    <3>1. PICK k \in waiting[c] : RecvAnswer(c, k) \/ RecvNoAnswer(c, k) \/ RecvAnswerFailed(c, k)
      BY <2>3 DEF Receive
    <3>2. RecvAnswerFailed(c, k)
      BY <1>7, <3>1 DEF RecvAnswer, RecvNoAnswer, Show
    <3> QED  BY <1>1, <3>1, <3>2 DEF KeptInv, Present, RecvAnswerFailed, Quit
  <2> QED  BY <1>7, <2>1, <2>2, <2>3 DEF Clients
<1>8. ASSUME NEW c \in Client, send_job(c)
      PROVE  \/ sent'[d] = sent[d] /\ near'[d] = near[d]
             \/ near[d] = "open" /\ \E new \in Sent : sent'[d] = Append(sent[d], new)
  <2>1. Script(c)[Len(sent[c]) + 1] \in Sent
    BY <1>1, <1>8, ScriptType DEF send_job, HasNext
  <2> QED  BY <1>1, <1>8, <2>1 DEF send_job, HasNext
<1> QED  BY <1>1, <1>2, <1>3, <1>4, <1>5, <1>6, <1>7, <1>8 DEF Next, AtEndOfFile

LEMMA RankSame == ASSUME inserted' = inserted
                  PROVE  (\A c : Total(c)' = Total(c)) /\ (\A m : Rank(m)' = Rank(m))
<1>1. \A c, m : {l \in 1..m : inserted'[l].client = c} = JobsOf(c, m)
  BY DEF JobsOf
<1>2. \A c : Total(c)' = Cardinality({l \in 1..Len(inserted) : inserted'[l].client = c})
  BY DEF Total, JobsOf
<1>3. \A m : Rank(m)' = Cardinality({l \in 1..m : inserted'[l].client = inserted[m].client})
  BY DEF Rank, JobsOf
<1> QED  BY <1>1, <1>2, <1>3 DEF Total, Rank

\* Between an insert and its answer a connection has a job more than answers; a
\* later job takes its pid from the pid_count that all its answers are within.
TurnInv ==
  /\ \A c \in Client :
       /\ place[c] \in {"none", "recv", "tick", "admit", "link"} => Len(answers[c]) = Total(c)
       /\ place[c] \in {"count", "send"} => Len(answers[c]) + 1 = Total(c)
       /\ \A k \in DOMAIN answers[c] :
            answers[c][k] <= pid_count /\ (place[c] = "link" => answers[c][k] <= pid[c])
  /\ AnswersBetweenPids

\* Every step but Admit, Link, Count and Send.
Calm ==
  /\ UNCHANGED <<pid_count, inserted, pid, answers>>
  /\ \/ UNCHANGED place
     \/ \E c \in Client, here \in {"none", "recv", "tick"}, there \in {"recv", "tick", "admit", "ended"} :
          place[c] = here /\ place' = [place EXCEPT ![c] = there]
     \/ \E c \in Client : place' = [place EXCEPT ![c] = "ended"]

LEMMA TurnSteps ==
  ASSUME [Next]_vars
  PROVE  Calm \/ \E c \in Client : Admit(c) \/ Link(c) \/ Count(c) \/ Send(c)
<1> USE DEF processVars, serverVars, handlerVars, serverToClient
<1>1. CASE (ExitCommand \/ Exit) /\ UNCHANGED clientVars
  BY <1>1 DEF ExitCommand, Exit, Calm
<1>2. ASSUME NEW c \in Client, Handle(c)
      PROVE  Calm \/ Admit(c) \/ Link(c) \/ Count(c) \/ Send(c)
  <2>1. CASE Accept(c)
    BY <2>1 DEF Accept, Calm
  <2>2. CASE RecvJob(c) \/ RecvNothing(c) \/ Proceed(c)
    BY <2>2 DEF RecvJob, RecvNothing, Proceed, Goto, Calm
  <2>3. CASE RecvFailed(c) \/ FlagBreak(c) \/ Refuse(c) \/ SendFailed(c)
    BY <2>3 DEF RecvFailed, FlagBreak, Refuse, SendFailed, Break, Goto, Calm
  <2>4. CASE SendKills(c)
    BY <2>4 DEF SendKills, Calm
  <2> QED  BY <1>2, <2>1, <2>2, <2>3, <2>4 DEF Handle, handle_connection
<1>3. ASSUME NEW c \in Client, Clients(c)
      PROVE  Calm
  BY <1>3 DEF Calm, Clients, connect_to_server, send_job, SendJobFailed, Quit, close, Stop,
              Receive, RecvAnswer, RecvNoAnswer, RecvAnswerFailed, Show
<1>4. CASE UNCHANGED vars
  BY <1>4 DEF vars, Calm
<1> QED  BY <1>1, <1>2, <1>3, <1>4 DEF Next

\* What AnswersBetweenPids says of the job m.
Turn(m) ==
  LET answer == answers[inserted[m].client] IN
  /\ Rank(m) \in DOMAIN answer => inserted[m].pid <= answer[Rank(m)]
  /\ Rank(m) - 1 \in DOMAIN answer => answer[Rank(m) - 1] <= inserted[m].pid

LEMMA TurnsAre ==
  AnswersBetweenPids <=> (\A c \in Client : Len(answers[c]) <= Total(c)) /\ (\A m \in DOMAIN inserted : Turn(m))
BY DEF AnswersBetweenPids, Turn, Total

LEMMA TurnInvStep == TypeOK /\ PidInv /\ TurnInv /\ [Next]_vars => TurnInv'
<1> SUFFICES ASSUME TypeOK, PidInv, TurnInv, [Next]_vars PROVE TurnInv'
  OBVIOUS
<1>1. /\ place \in [Client -> Places] /\ pid \in [Client -> Nat] /\ pid_count \in Nat
      /\ inserted \in Seq(Entry) /\ answers \in [Client -> Seq(Nat)]
  BY DEF TypeOK, Places, Entry
<1>2. \A m \in DOMAIN inserted : inserted[m].client \in Client /\ inserted[m].pid \in Nat
  <2>1. \A m \in DOMAIN inserted : inserted[m] \in Entry
    BY <1>1
  <2> QED  BY <2>1 DEF Entry
<1>3. \A c \in Client : Len(answers[c]) \in Nat /\ DOMAIN answers[c] = 1..Len(answers[c]) /\ Len(answers[c]) <= Total(c)
  BY <1>1, TurnsAre DEF TurnInv
<1>4. \A m \in DOMAIN inserted : Turn(m)
  BY TurnsAre DEF TurnInv
<1>5. /\ \A c \in Client : Len(answers'[c]) <= Total(c)'
      /\ \A m \in DOMAIN inserted' : Turn(m)'
      /\ \A c \in Client :
           /\ place'[c] \in {"none", "recv", "tick", "admit", "link"} => Len(answers'[c]) = Total(c)'
           /\ place'[c] \in {"count", "send"} => Len(answers'[c]) + 1 = Total(c)'
           /\ \A k \in DOMAIN answers'[c] :
                answers'[c][k] <= pid_count' /\ (place'[c] = "link" => answers'[c][k] <= pid'[c])
      => TurnInv'
  <2>1. AnswersBetweenPids' <=> (\A c \in Client : Len(answers'[c]) <= Total(c)') /\ (\A m \in DOMAIN inserted' : Turn(m)')
    BY DEF AnswersBetweenPids, Turn, Total
  <2> QED  BY <2>1 DEF TurnInv
<1>6. \A c \in Client : Total(c) \in Nat /\ \A k \in 1..Len(answers[c]) : answers[c][k] \in Nat
  BY <1>1, RankType
<1>7. ASSUME UNCHANGED <<inserted, answers>>
      PROVE  /\ \A c \in Client : Total(c)' = Total(c) /\ Len(answers'[c]) <= Total(c)'
             /\ \A m \in DOMAIN inserted' : Turn(m)'
  <2>1. (\A c : Total(c)' = Total(c)) /\ (\A m : Rank(m)' = Rank(m))
    BY <1>7, RankSame
  <2> QED  BY <1>3, <1>4, <1>7, <2>1 DEF Turn
<1>8. CASE Calm
  <2>1. \A c \in Client :
          /\ place'[c] \in {"none", "recv", "tick", "admit", "link"} => place[c] \in {"none", "recv", "tick", "admit", "link"}
          /\ place'[c] \in {"count", "send"} => place[c] \in {"count", "send"}
          /\ place'[c] = "link" => place[c] = "link"
    BY <1>1, <1>8 DEF Calm
  <2>2. UNCHANGED <<pid_count, inserted, pid, answers>>
    BY <1>8 DEF Calm
  <2> QED  BY <1>5, <1>7, <2>1, <2>2 DEF TurnInv
<1>9. ASSUME NEW c \in Client, Admit(c) \/ Count(c)
      PROVE  TurnInv'
  <2>1. UNCHANGED <<inserted, answers>>
    BY <1>9 DEF Admit, Count, serverToClient
  <2>2. CASE Admit(c)
    <3>1. /\ place[c] = "admit" /\ place' = [place EXCEPT ![c] = "link"]
          /\ pid' = [pid EXCEPT ![c] = pid_count] /\ UNCHANGED pid_count
      BY <2>2 DEF Admit, Goto
    <3> QED  BY <1>1, <1>5, <1>7, <2>1, <3>1 DEF TurnInv
  <2>3. CASE Count(c)
    <3>1. /\ place[c] = "count" /\ place' = [place EXCEPT ![c] = "send"]
          /\ pid_count' = pid_count + 1 /\ UNCHANGED pid
      BY <2>3 DEF Count, Goto
    <3>2. \A d \in Client : \A k \in DOMAIN answers[d] : answers[d][k] \in Nat /\ answers[d][k] <= pid_count
      BY <1>3, <1>6 DEF TurnInv
    <3> QED  BY <1>1, <1>5, <1>7, <2>1, <3>1, <3>2 DEF TurnInv
  <2> QED  BY <1>9, <2>2, <2>3
<1>10. ASSUME NEW c \in Client, Link(c)
       PROVE  TurnInv'
  <2> DEFINE entry == [client |-> c, pid |-> pid[c], n |-> IF msg[c] \in {"blank", "phantom"} THEN 0 ELSE taken[c]]
  <2>1. /\ place[c] = "link" /\ place' = [place EXCEPT ![c] = "count"]
        /\ inserted' = Append(inserted, entry) /\ UNCHANGED <<pid, pid_count, answers>>
    BY <1>10 DEF Link, Goto, serverToClient
  <2>2. entry \in Entry /\ entry.client = c /\ entry.pid = pid[c]
    BY DEF TypeOK, Entry
  <2> HIDE DEF entry
  <2>3. /\ \A m \in DOMAIN inserted : inserted'[m] = inserted[m] /\ Rank(m)' = Rank(m)
        /\ \A m \in DOMAIN inserted' : m \in DOMAIN inserted \/ m = Len(inserted) + 1
        /\ \A d \in Client \ {c} : Total(d)' = Total(d)
        /\ Total(c)' = Total(c) + 1
        /\ inserted'[Len(inserted) + 1] = entry
        /\ \A m : m = Len(inserted) + 1 => Rank(m)' = Total(c) + 1
    BY <1>1, <2>1, <2>2, RankAppend
  <2>4. Len(answers[c]) = Total(c) /\ \A k \in DOMAIN answers[c] : answers[c][k] <= pid[c]
    BY <2>1 DEF TurnInv
  <2>5. \A m \in DOMAIN inserted' : Turn(m)'
    <3> SUFFICES ASSUME NEW m \in DOMAIN inserted' PROVE Turn(m)'
      OBVIOUS
    <3>1. CASE m \in DOMAIN inserted
      BY <1>4, <2>1, <2>3, <3>1 DEF Turn
    <3>2. CASE m = Len(inserted) + 1
      <4>1. Rank(m)' = Len(answers[c]) + 1 /\ inserted'[m].client = c /\ inserted'[m].pid = pid[c]
        BY <2>2, <2>3, <2>4, <3>2
      <4> QED  BY <1>3, <2>1, <2>4, <4>1 DEF Turn
    <3> QED  BY <2>3, <3>1, <3>2
  <2>6. \A d \in Client : Len(answers'[d]) <= Total(d)'
    BY <1>3, <1>6, <2>1, <2>3
  <2>7. \A d \in Client :
          /\ place'[d] \in {"none", "recv", "tick", "admit", "link"} => Len(answers'[d]) = Total(d)'
          /\ place'[d] \in {"count", "send"} => Len(answers'[d]) + 1 = Total(d)'
          /\ \A k \in DOMAIN answers'[d] :
               answers'[d][k] <= pid_count' /\ (place'[d] = "link" => answers'[d][k] <= pid'[d])
    BY <1>1, <2>1, <2>3, <2>4 DEF TurnInv
  <2> QED  BY <1>5, <2>5, <2>6, <2>7
<1>11. ASSUME NEW c \in Client, Send(c)
       PROVE  TurnInv'
  <2>1. /\ place[c] = "send" /\ place' = [place EXCEPT ![c] = "recv"]
        /\ answers' = [answers EXCEPT ![c] = Append(@, pid_count)] /\ UNCHANGED <<pid, pid_count, inserted>>
    BY <1>11 DEF Send, Goto
  <2>2. /\ \A d \in Client \ {c} : answers'[d] = answers[d]
        /\ Len(answers'[c]) = Len(answers[c]) + 1 /\ DOMAIN answers'[c] = 1..(Len(answers[c]) + 1)
        /\ \A k \in 1..Len(answers[c]) : answers'[c][k] = answers[c][k]
        /\ answers'[c][Len(answers[c]) + 1] = pid_count
    BY <1>1, <2>1
  <2>3. Len(answers[c]) + 1 = Total(c)
    BY <2>1 DEF TurnInv
  <2>4. (\A d : Total(d)' = Total(d)) /\ (\A m : Rank(m)' = Rank(m))
    BY <2>1, RankSame
  <2>5. \A m \in DOMAIN inserted' : Turn(m)'
    <3> SUFFICES ASSUME NEW m \in DOMAIN inserted PROVE Turn(m)'
      BY <2>1
    <3>1. CASE inserted[m].client # c
      BY <1>2, <1>4, <2>1, <2>2, <2>4, <3>1 DEF Turn
    <3>2. CASE inserted[m].client = c
      <4>1. Rank(m) \in 1..(Len(answers[c]) + 1)
        BY <1>1, <2>3, <3>2, RankType
      <4>2. inserted[m].pid <= pid_count
        BY DEF PidInv
      <4>3. /\ Rank(m) \in DOMAIN answers[c] => inserted[m].pid <= answers[c][Rank(m)]
            /\ Rank(m) - 1 \in DOMAIN answers[c] => answers[c][Rank(m) - 1] <= inserted[m].pid
        BY <1>4, <3>2 DEF Turn
      <4>4. /\ Rank(m) \in DOMAIN answers'[c] => inserted[m].pid <= answers'[c][Rank(m)]
            /\ Rank(m) - 1 \in DOMAIN answers'[c] => answers'[c][Rank(m) - 1] <= inserted[m].pid
        <5>1. Len(answers[c]) \in Nat /\ DOMAIN answers[c] = 1..Len(answers[c])
          BY <1>3
        <5>2. CASE Rank(m) = Len(answers[c]) + 1
          BY <2>2, <4>2, <4>3, <5>1, <5>2
        <5>3. CASE Rank(m) \in 1..Len(answers[c])
          BY <2>2, <4>3, <5>1, <5>3
        <5> QED  BY <4>1, <5>1, <5>2, <5>3
      <4> QED  BY <2>1, <2>4, <3>2, <4>4 DEF Turn
    <3> QED  BY <3>1, <3>2
  <2>6. \A d \in Client : Len(answers'[d]) <= Total(d)'
    BY <1>3, <1>6, <2>2, <2>3, <2>4
  <2>7. \A d \in Client :
          /\ place'[d] \in {"none", "recv", "tick", "admit", "link"} => Len(answers'[d]) = Total(d)'
          /\ place'[d] \in {"count", "send"} => Len(answers'[d]) + 1 = Total(d)'
          /\ \A k \in DOMAIN answers'[d] :
               answers'[d][k] <= pid_count' /\ (place'[d] = "link" => answers'[d][k] <= pid'[d])
    <3> SUFFICES ASSUME NEW d \in Client
                 PROVE  /\ place'[d] \in {"none", "recv", "tick", "admit", "link"} => Len(answers'[d]) = Total(d)'
                        /\ place'[d] \in {"count", "send"} => Len(answers'[d]) + 1 = Total(d)'
                        /\ \A k \in DOMAIN answers'[d] :
                             answers'[d][k] <= pid_count' /\ (place'[d] = "link" => answers'[d][k] <= pid'[d])
      OBVIOUS
    <3>1. CASE d # c
      BY <1>1, <2>1, <2>2, <2>4, <3>1 DEF TurnInv
    <3>2. CASE d = c
      <4>1. \A k \in 1..Len(answers[c]) : answers[c][k] <= pid_count
        BY <1>3 DEF TurnInv
      <4> QED  BY <1>1, <1>3, <2>1, <2>2, <2>3, <2>4, <3>2, <4>1
    <3> QED  BY <3>1, <3>2
  <2> QED  BY <1>5, <2>5, <2>6, <2>7
<1> QED  BY <1>5, <1>8, <1>9, <1>10, <1>11, TurnSteps

\* A client can tell by its answers where its jobs are (server.c:160-168): each is
\* between the pids of the job it answers and of the next one, for any number of
\* connections whose handlers interleave.
THEOREM AnswersBetweenPidsHolds == Spec => []AnswersBetweenPids
<1>1. Init => PidInv /\ TurnInv
  <2> SUFFICES ASSUME Init PROVE PidInv /\ TurnInv
    OBVIOUS
  <2>1. inserted = <<>> /\ answers = [c \in Client |-> <<>>] /\ place = [c \in Client |-> "none"]
    BY DEF Init, ConnectionsInit
  <2>2. \A c \in Client : JobsOf(c, Len(inserted)) = {}
    BY <2>1 DEF JobsOf
  <2>3. \A c \in Client : Cardinality(JobsOf(c, Len(inserted))) = 0
    BY <2>2, FS_EmptySet
  <2>4. \A c \in Client : Len(answers[c]) = 0 /\ DOMAIN answers[c] = {}
    BY <2>1
  <2> QED  BY <2>1, <2>3, <2>4 DEF PidInv, PidsIncrease, TurnInv, AnswersBetweenPids, Total
<1>2. TypeOK /\ PidInv /\ TurnInv /\ [Next]_vars => (PidInv /\ TurnInv)'
  BY PidInvStep, TurnInvStep
<1>3. TurnInv => AnswersBetweenPids
  BY DEF TurnInv
<1> QED  BY <1>1, <1>2, <1>3, AlwaysTypeOK, PTL DEF Spec

\* What a handler has in hand is the next job of its connection, a message that it
\* will refuse, or, when all is received and the client is gone, an old job.
InHandIs(c) ==
  \/ msg[c] = "phantom" /\ AllTaken(c) /\ scenario.leftovers
  \/ IsZero(msg[c]) /\ place[c] = "tick"
  \/ msg[c] \in {"job", "end"} /\ taken[c] = Total(c) + 1 /\ sent[c][taken[c]] = msg[c]

Hand(c) ==
  /\ place[c] \in Between => taken[c] = Total(c) \/ AllTaken(c)
  /\ place[c] \in {"tick", "admit", "link"} => InHandIs(c)

\* What InsertedInOrder says of the job m, and that it was sent.
Order(m) ==
  LET messages == sent[inserted[m].client] IN
  \/ inserted[m].n = Rank(m) /\ Rank(m) <= Len(messages) /\ messages[Rank(m)] # "zero"
  \/ inserted[m].n = 0 /\ scenario.leftovers

OrderInv == (\A c \in Client : Hand(c)) /\ (\A m \in DOMAIN inserted : Order(m))

LEMMA HandStays ==
  ASSUME TypeOK, KeptInv, [Next]_vars, NEW c \in Client, Hand(c),
         UNCHANGED scenario, taken'[c] = taken[c], msg'[c] = msg[c], Total(c)' = Total(c),
         place'[c] \in Between => place[c] \in Between,
         place'[c] \in {"tick", "admit", "link"} => place'[c] = place[c]
  PROVE  Hand(c)'
<1>1. /\ Len(sent[c]) \in Nat /\ \A k \in 1..Len(sent[c]) : sent'[c][k] = sent[c][k]
      /\ AllTaken(c) => AtEndOfFile(near'[c]) /\ taken'[c] = Len(sent'[c])
  BY Streams DEF AllTaken
<1>2. AllTaken(c) => AllTaken(c)'
  BY <1>1 DEF AllTaken
<1>3. taken[c] \in Nat /\ taken[c] <= Len(sent[c])
  BY DEF TypeOK, KeptInv, Kept
<1>4. Total(c) \in Nat
  BY RankType DEF TypeOK, Entry
<1>5. place'[c] \in Between => taken'[c] = Total(c)' \/ AllTaken(c)'
  BY <1>2 DEF Hand
<1>6. taken[c] = Total(c) + 1 => sent'[c][taken[c]] = sent[c][taken[c]]
  BY <1>1, <1>3, <1>4
<1>7. place'[c] \in {"tick", "admit", "link"} => InHandIs(c)'
  BY <1>2, <1>6 DEF Hand, InHandIs
<1> QED  BY <1>5, <1>7 DEF Hand

LEMMA OrderStays ==
  ASSUME TypeOK, KeptInv, [Next]_vars, NEW m \in DOMAIN inserted, Order(m),
         UNCHANGED scenario, inserted'[m] = inserted[m], Rank(m)' = Rank(m)
  PROVE  Order(m)'
<1>1. inserted \in Seq(Entry)
  BY DEF TypeOK, Entry
<1>2. inserted[m].client \in Client /\ inserted[m].n \in Nat
  <2>1. inserted[m] \in Entry
    BY <1>1
  <2> QED  BY <2>1 DEF Entry
<1>3. Rank(m) \in Nat /\ Rank(m) >= 1
  BY <1>1, RankType
<1>4. /\ Len(sent[inserted[m].client]) \in Nat /\ Len(sent'[inserted[m].client]) \in Nat
      /\ Len(sent[inserted[m].client]) <= Len(sent'[inserted[m].client])
      /\ \A k \in 1..Len(sent[inserted[m].client]) : sent'[inserted[m].client][k] = sent[inserted[m].client][k]
  BY <1>2, Streams
<1> QED  BY <1>2, <1>3, <1>4 DEF Order

LEMMA OrderInvStep == TypeOK /\ KeptInv /\ OrderInv /\ [Next]_vars => OrderInv'
<1> SUFFICES ASSUME TypeOK, KeptInv, OrderInv, [Next]_vars PROVE OrderInv'
  OBVIOUS
<1> USE DEF clientToServer, processVars
<1>1. /\ place \in [Client -> Places] /\ msg \in [Client -> InHand]
      /\ taken \in [Client -> Nat] /\ inserted \in Seq(Entry) /\ sent \in [Client -> Seq(Sent)]
  BY DEF TypeOK, Places, Sent, InHand, Entry
<1>2. \A c \in Client : Total(c) \in Nat /\ taken[c] \in Nat /\ Len(sent[c]) \in Nat /\ taken[c] <= Len(sent[c])
  BY <1>1, RankType DEF KeptInv, Kept
<1>3. ASSUME UNCHANGED <<inserted, scenario>>
      PROVE  (\A m \in DOMAIN inserted' : Order(m)') /\ (\A d \in Client : Total(d)' = Total(d))
  <2>1. (\A c : Total(c)' = Total(c)) /\ (\A m : Rank(m)' = Rank(m))
    BY <1>3, RankSame
  <2>2. \A m \in DOMAIN inserted : Order(m)'
    BY <1>3, <2>1, OrderStays DEF OrderInv
  <2> QED  BY <1>3, <2>1, <2>2
<1>4. CASE Idle
  <2>1. \A c \in Client : Hand(c)'
    <3> TAKE c \in Client
    <3>1. /\ UNCHANGED scenario /\ taken'[c] = taken[c] /\ msg'[c] = msg[c] /\ Total(c)' = Total(c)
          /\ place'[c] \in Between => place[c] \in Between
          /\ place'[c] \in {"tick", "admit", "link"} => place'[c] = place[c]
      BY <1>3, <1>4 DEF Idle
    <3> QED  BY <3>1, HandStays DEF OrderInv
  <2> QED  BY <1>3, <1>4, <2>1 DEF Idle, OrderInv
<1>5. ASSUME NEW c \in Client, RecvJob(c) \/ RecvNothing(c) \/ Proceed(c) \/ Admit(c)
      PROVE  OrderInv'
  <2>1. UNCHANGED <<inserted, scenario>> /\ \A d \in Client \ {c} :
          place'[d] = place[d] /\ taken'[d] = taken[d] /\ msg'[d] = msg[d]
    BY <1>1, <1>5 DEF RecvJob, RecvNothing, Proceed, Admit, Goto
  <2>2. \A d \in Client \ {c} : Hand(d)'
    BY <1>3, <2>1, HandStays DEF OrderInv
  <2>3. Hand(c)'
    <3>1. CASE RecvJob(c)
      <4>1. /\ place[c] = "recv" /\ place'[c] = "tick" /\ taken[c] < Len(sent[c])
            /\ taken'[c] = taken[c] + 1 /\ msg'[c] = sent[c][taken[c] + 1] /\ UNCHANGED sent
        BY <1>1, <3>1 DEF RecvJob, Goto, JobWaits
      <4>2. taken[c] = Total(c)
        BY <1>2, <4>1 DEF OrderInv, Hand, AllTaken, Between
      <4>3. msg'[c] \in Sent
        BY <1>1, <1>2, <4>1
      <4> QED  BY <1>3, <2>1, <4>1, <4>2, <4>3 DEF Hand, InHandIs, IsZero, Sent, Between
    <3>2. CASE RecvNothing(c)
      <4>1. /\ place'[c] = "tick" /\ ~JobWaits(c) /\ AtEndOfFile(near[c]) /\ UNCHANGED <<taken, sent, near>>
        BY <1>1, <3>2 DEF RecvNothing, Goto, ends
      <4>2. AllTaken(c)'
        BY <1>2, <4>1 DEF AllTaken, JobWaits, AtEndOfFile
      <4>3. msg'[c] = "blank" \/ (msg'[c] = "phantom" /\ scenario.leftovers)
        <5>1. PICK m \in {"blank", "phantom"} : (m = "phantom" => scenario.leftovers) /\ msg' = [msg EXCEPT ![c] = m]
          BY <3>2 DEF RecvNothing
        <5> QED  BY <1>1, <5>1
      <4> QED  BY <2>1, <4>1, <4>2, <4>3 DEF Hand, InHandIs, IsZero, Between
    <3>3. CASE Proceed(c) \/ Admit(c)
      <4>1. /\ \/ place[c] = "tick" /\ place'[c] = "admit" /\ ~IsZero(msg[c])
               \/ place[c] = "admit" /\ place'[c] = "link"
            /\ UNCHANGED <<msg, taken, sent, near>>
        BY <1>1, <3>3 DEF Proceed, Admit, Goto, ends
      <4> QED  BY <1>3, <2>1, <4>1 DEF OrderInv, Hand, InHandIs, AllTaken, Between
    <3> QED  BY <1>5, <3>1, <3>2, <3>3
  <2> QED  BY <1>3, <2>1, <2>2, <2>3 DEF OrderInv
<1>6. ASSUME NEW c \in Client, Link(c)
      PROVE  OrderInv'
  <2> DEFINE entry == [client |-> c, pid |-> pid[c], n |-> IF msg[c] \in {"blank", "phantom"} THEN 0 ELSE taken[c]]
  <2>1. /\ place[c] = "link" /\ place' = [place EXCEPT ![c] = "count"]
        /\ inserted' = Append(inserted, entry) /\ UNCHANGED <<scenario, msg, taken, sent, near>>
    BY <1>6 DEF Link, Goto, ends
  <2>2. /\ entry \in Entry /\ entry.client = c
        /\ entry.n = IF msg[c] \in {"blank", "phantom"} THEN 0 ELSE taken[c]
    BY DEF TypeOK, Entry
  <2> HIDE DEF entry
  <2>3. /\ \A m \in DOMAIN inserted : inserted'[m] = inserted[m] /\ Rank(m)' = Rank(m)
        /\ \A m \in DOMAIN inserted' : m \in DOMAIN inserted \/ m = Len(inserted) + 1
        /\ \A d \in Client \ {c} : Total(d)' = Total(d)
        /\ Total(c)' = Total(c) + 1
        /\ inserted'[Len(inserted) + 1] = entry
        /\ \A m : m = Len(inserted) + 1 => Rank(m)' = Total(c) + 1
    BY <1>1, <2>1, <2>2, RankAppend
  <2>4. \/ msg[c] = "phantom" /\ AllTaken(c) /\ scenario.leftovers
        \/ msg[c] \in {"job", "end"} /\ taken[c] = Total(c) + 1 /\ sent[c][taken[c]] = msg[c]
    BY <2>1 DEF OrderInv, Hand, InHandIs
  <2>5. \A d \in Client \ {c} : Hand(d)'
    BY <1>1, <2>1, <2>3, HandStays DEF OrderInv
  <2>6. Hand(c)'
    <3>1. place'[c] = "count"
      BY <1>1, <2>1
    <3> QED  BY <2>1, <2>3, <2>4, <3>1 DEF Hand, AllTaken, Between
  <2>7. \A m \in DOMAIN inserted' : Order(m)'
    <3> SUFFICES ASSUME NEW m \in DOMAIN inserted' PROVE Order(m)'
      OBVIOUS
    <3>1. CASE m \in DOMAIN inserted
      BY <2>1, <2>3, <3>1, OrderStays DEF OrderInv
    <3>2. CASE m = Len(inserted) + 1
      BY <1>2, <2>1, <2>2, <2>3, <2>4, <3>2 DEF Order
    <3> QED  BY <2>3, <3>1, <3>2
  <2> QED  BY <2>5, <2>6, <2>7 DEF OrderInv
<1> QED  BY <1>4, <1>5, <1>6, HandSteps

\* A connection's jobs go to the ready queue in the order in which its client sent
\* them, none twice and none left out before a later one (server.c:119-163), for
\* any program, any file and any number of connections beside it; and no handler
\* takes the end of a connection for a job, unless malloc returns an old one.
THEOREM InsertedInOrderHolds == Spec => []InsertedInOrder
<1>1. Init => OrderInv
  <2> SUFFICES ASSUME Init PROVE OrderInv
    OBVIOUS
  <2>1. inserted = <<>> /\ \A c \in Client : place[c] = "none" /\ taken[c] = 0
    BY DEF Init, ConnectionsInit
  <2>2. \A c \in Client : JobsOf(c, Len(inserted)) = {}
    BY <2>1 DEF JobsOf
  <2>3. \A c \in Client : Total(c) = 0
    BY <2>2, FS_EmptySet DEF Total
  <2> QED  BY <2>1, <2>3 DEF OrderInv, Hand
<1>2. TypeOK /\ KeptInv /\ OrderInv /\ [Next]_vars => OrderInv'
  BY OrderInvStep
<1>3. OrderInv => InsertedInOrder
  BY DEF OrderInv, Order, InsertedInOrder
<1> QED  BY <1>1, <1>2, <1>3, AlwaysTypeOK, AlwaysKept, PTL DEF Spec

-----------------------------------------------------------------------------
(* What the clients show. *)

\* A connection's answers rise: its handler increments pid_count before each.
RisingInv ==
  \A c \in Client :
    /\ \A k \in 1..Len(answers[c]) :
         answers[c][k] <= pid_count /\ (place[c] = "send" => answers[c][k] < pid_count)
    /\ \A k, l \in 1..Len(answers[c]) : k < l => answers[c][k] < answers[c][l]

LEMMA RisingInvStep == TypeOK /\ RisingInv /\ [Next]_vars => RisingInv'
<1> SUFFICES ASSUME TypeOK, RisingInv, [Next]_vars PROVE RisingInv'
  OBVIOUS
<1>1. /\ place \in [Client -> Places] /\ pid_count \in Nat /\ answers \in [Client -> Seq(Nat)]
  BY DEF TypeOK, Places
<1>2. \A d \in Client : Len(answers[d]) \in Nat /\ \A k \in 1..Len(answers[d]) : answers[d][k] \in Nat
  BY <1>1
<1>3. ASSUME UNCHANGED <<answers, pid_count>>, \A d \in Client : place'[d] = "send" => place[d] = "send"
      PROVE  RisingInv'
  BY <1>3 DEF RisingInv
<1>4. CASE Calm
  <2>1. \A d \in Client : place'[d] = "send" => place[d] = "send"
    BY <1>1, <1>4 DEF Calm
  <2> QED  BY <1>3, <1>4, <2>1 DEF Calm
<1>5. ASSUME NEW c \in Client, Admit(c) \/ Link(c)
      PROVE  RisingInv'
  <2>1. \A d \in Client : place'[d] = "send" => place[d] = "send"
    BY <1>1, <1>5 DEF Admit, Link, Goto
  <2> QED  BY <1>3, <1>5, <2>1 DEF Admit, Link, serverToClient
<1>6. ASSUME NEW c \in Client, Count(c)
      PROVE  RisingInv'
  <2>1. pid_count' = pid_count + 1 /\ UNCHANGED answers
    BY <1>6 DEF Count, serverToClient
  <2>2. \A d \in Client : \A k \in 1..Len(answers[d]) : answers[d][k] \in Nat /\ answers[d][k] < pid_count + 1
    BY <1>1, <1>2 DEF RisingInv
  <2> QED  BY <1>1, <2>1, <2>2 DEF RisingInv
<1>7. ASSUME NEW c \in Client, Send(c)
      PROVE  RisingInv'
  <2>1. /\ place[c] = "send" /\ place' = [place EXCEPT ![c] = "recv"]
        /\ answers' = [answers EXCEPT ![c] = Append(@, pid_count)] /\ UNCHANGED pid_count
    BY <1>7 DEF Send, Goto
  <2>2. /\ \A d \in Client \ {c} : answers'[d] = answers[d] /\ place'[d] = place[d]
        /\ place'[c] = "recv" /\ Len(answers'[c]) = Len(answers[c]) + 1
        /\ \A k \in 1..Len(answers[c]) : answers'[c][k] = answers[c][k]
        /\ answers'[c][Len(answers[c]) + 1] = pid_count
    BY <1>1, <2>1
  <2>3. \A k \in 1..Len(answers[c]) : answers[c][k] < pid_count
    BY <2>1 DEF RisingInv
  <2>4. \A k \in 1..Len(answers'[c]) : k \in 1..Len(answers[c]) \/ k = Len(answers[c]) + 1
    BY <1>2, <2>2
  <2>5. \A k \in 1..Len(answers'[c]) : answers'[c][k] <= pid_count
    BY <1>1, <1>2, <2>2, <2>3, <2>4
  <2>6. \A k, l \in 1..Len(answers'[c]) : k < l => answers'[c][k] < answers'[c][l]
    <3> SUFFICES ASSUME NEW k \in 1..Len(answers'[c]), NEW l \in 1..Len(answers'[c]), k < l
                 PROVE  answers'[c][k] < answers'[c][l]
      OBVIOUS
    <3>1. k \in 1..Len(answers[c])
      BY <1>2, <2>2
    <3>2. CASE l \in 1..Len(answers[c])
      BY <2>2, <3>1, <3>2 DEF RisingInv
    <3>3. CASE l = Len(answers[c]) + 1
      BY <2>2, <2>3, <3>1, <3>3
    <3> QED  BY <2>4, <3>2, <3>3
  <2>7. \A d \in Client :
          /\ \A k \in 1..Len(answers'[d]) :
               answers'[d][k] <= pid_count' /\ (place'[d] = "send" => answers'[d][k] < pid_count')
          /\ \A k, l \in 1..Len(answers'[d]) : k < l => answers'[d][k] < answers'[d][l]
    <3> SUFFICES ASSUME NEW d \in Client
                 PROVE  /\ \A k \in 1..Len(answers'[d]) :
                             answers'[d][k] <= pid_count' /\ (place'[d] = "send" => answers'[d][k] < pid_count')
                        /\ \A k, l \in 1..Len(answers'[d]) : k < l => answers'[d][k] < answers'[d][l]
      OBVIOUS
    <3>1. CASE d # c
      BY <2>1, <2>2, <3>1 DEF RisingInv
    <3>2. CASE d = c
      BY <2>1, <2>2, <2>5, <2>6, <3>2
    <3> QED  BY <3>1, <3>2
  <2> QED  BY <2>7 DEF RisingInv
<1> QED  BY <1>4, <1>5, <1>6, <1>7, TurnSteps

\* The answers that a client has shown are among those it has read, each once.
ShownInv ==
  /\ \A c \in Client : read[c] <= Len(answers[c])
  /\ \A s \in shown : s.answer <= read[s.client]
  /\ \A s, t \in shown : s.client = t.client /\ s.answer = t.answer /\ s.answer # 0 => s = t

LEMMA ShownInvStep == TypeOK /\ ShownInv /\ [Next]_vars => ShownInv'
<1> SUFFICES ASSUME TypeOK, ShownInv, [Next]_vars PROVE ShownInv'
  OBVIOUS
<1> USE DEF serverToClient, clientVars
<1>1. /\ answers \in [Client -> Seq(Nat)] /\ read \in [Client -> Nat]
      /\ shown \subseteq [client : Client, n : Nat, answer : Nat]
  BY DEF TypeOK
<1>2. /\ \A c \in Client : Len(answers[c]) \in Nat /\ read[c] \in Nat
      /\ \A s \in shown : s.client \in Client /\ s.n \in Nat /\ s.answer \in Nat
  BY <1>1
<1>3. CASE UNCHANGED <<shown, read, answers>>
  BY <1>3 DEF ShownInv
<1>4. CASE ((ExitCommand \/ Exit) /\ UNCHANGED clientVars) \/ UNCHANGED vars
  BY <1>3, <1>4 DEF ExitCommand, Exit, vars
<1>5. ASSUME NEW c \in Client, Handle(c)
      PROVE  ShownInv'
  <2>1. CASE Send(c)
    <3>1. answers' = [answers EXCEPT ![c] = Append(@, pid_count)] /\ UNCHANGED <<shown, read>>
      BY <1>5, <2>1 DEF Send, Handle
    <3>2. pid_count \in Nat
      BY DEF TypeOK
    <3>3. \A d \in Client : Len(answers'[d]) \in Nat /\ Len(answers'[d]) >= Len(answers[d])
      BY <1>1, <3>1, <3>2
    <3> QED  BY <1>2, <3>1, <3>3 DEF ShownInv
  <2>2. CASE ~Send(c)
    <3>1. UNCHANGED <<answers, read>>
      BY <1>5, <2>2 DEF Handle, Accept, handle_connection, RecvJob, RecvNothing, RecvFailed, FlagBreak, Refuse,
                        Proceed, Admit, Link, Count, SendFailed, SendKills
    <3> QED  BY <1>3, <1>5, <3>1 DEF Handle
  <2> QED  BY <2>1, <2>2
<1>6. ASSUME NEW c \in Client, NEW k \in waiting[c], RecvAnswer(c, k) \/ RecvNoAnswer(c, k)
      PROVE  ShownInv'
  <2>1. PICK answer \in {0, read[c] + 1} :
          /\ shown' = shown \cup {[client |-> c, n |-> k, answer |-> answer]} /\ UNCHANGED answers
          /\ \/ answer = 0 /\ UNCHANGED read
             \/ answer = read[c] + 1 /\ read[c] < Len(answers[c]) /\ read' = [read EXCEPT ![c] = @ + 1]
    BY <1>6 DEF RecvAnswer, RecvNoAnswer, Show, AnswerWaits
  <2> DEFINE new == [client |-> c, n |-> k, answer |-> answer]
  <2>2. new.client = c /\ new.answer = answer /\ answer \in Nat
    BY <1>2, <2>1
  <2>3. shown' = shown \cup {new}
    BY <2>1
  <2> HIDE DEF new
  <2>4. /\ \A d \in Client : read'[d] \in Nat /\ read[d] <= read'[d] /\ read'[d] <= Len(answers[d])
        /\ answer <= read'[c] /\ (answer # 0 => answer > read[c])
    <3>1. \A d \in Client : read[d] \in Nat /\ Len(answers[d]) \in Nat /\ read[d] <= Len(answers[d])
      BY <1>2 DEF ShownInv
    <3>2. CASE answer = 0 /\ UNCHANGED read
      BY <3>1, <3>2
    <3>3. CASE answer = read[c] + 1 /\ read[c] < Len(answers[c]) /\ read' = [read EXCEPT ![c] = @ + 1]
      <4>1. \A d \in Client : read'[d] = IF d = c THEN read[c] + 1 ELSE read[d]
        BY <1>1, <3>3
      <4> QED  BY <3>1, <3>3, <4>1
    <3> QED  BY <2>1, <3>2, <3>3
  <2>5. \A s \in shown : s.answer <= read[s.client] /\ s.answer <= read'[s.client]
    BY <1>2, <2>4 DEF ShownInv
  <2>6. \A s \in shown' : s.answer <= read'[s.client]
    BY <2>2, <2>3, <2>4, <2>5
  <2>7. \A s \in shown : s.client = c /\ answer # 0 => s.answer # answer
    BY <1>2, <2>2, <2>4, <2>5
  <2>8. \A s, t \in shown' : s.client = t.client /\ s.answer = t.answer /\ s.answer # 0 => s = t
    BY <2>2, <2>3, <2>7 DEF ShownInv
  <2> QED  BY <2>1, <2>4, <2>6, <2>8 DEF ShownInv
<1>7. ASSUME NEW c \in Client, Clients(c)
      PROVE  ShownInv'
  <2>1. CASE connect_to_server(c) \/ send_job(c)
    BY <1>3, <2>1 DEF connect_to_server, send_job
  <2>2. CASE SendJobFailed(c) \/ close(c) \/ Stop(c)
    BY <1>3, <2>2 DEF SendJobFailed, close, Stop, Quit
  <2>3. CASE Receive(c)
    BY <1>3, <1>6, <2>3 DEF Receive, RecvAnswerFailed, Quit
  <2> QED  BY <1>7, <2>1, <2>2, <2>3 DEF Clients
<1> QED  BY <1>4, <1>5, <1>7 DEF Next

\* The threads of a client that wait on one socket never show the same pid twice
\* (server.c:160-168, manual_client.c:55-72, automatic_client.c:57-77), for any
\* number of threads and of connections that change pid_count in between.
THEOREM ShownPidsDistinctHolds == Spec => []ShownPidsDistinct
<1>1. Init => RisingInv /\ ShownInv
  BY DEF Init, ConnectionsInit, RisingInv, ShownInv
<1>2. TypeOK /\ RisingInv /\ ShownInv /\ [Next]_vars => (RisingInv /\ ShownInv)'
  BY RisingInvStep, ShownInvStep
<1>3. TypeOK /\ RisingInv /\ ShownInv => ShownPidsDistinct
  <2> SUFFICES ASSUME TypeOK, RisingInv, ShownInv, NEW s \in shown, NEW t \in shown,
                      s # t, s.client = t.client, s.answer # 0, t.answer # 0
               PROVE  answers[s.client][s.answer] # answers[t.client][t.answer]
    BY DEF ShownPidsDistinct
  <2>1. /\ s.client \in Client /\ s.answer \in Nat /\ t.answer \in Nat
        /\ answers[s.client] \in Seq(Nat) /\ read[s.client] \in Nat
    BY DEF TypeOK
  <2>2. s.answer # t.answer /\ s.answer \in 1..Len(answers[s.client]) /\ t.answer \in 1..Len(answers[s.client])
    BY <2>1 DEF ShownInv
  <2>3. s.answer < t.answer \/ t.answer < s.answer
    BY <2>1, <2>2
  <2>4. answers[s.client][s.answer] \in Nat /\ answers[s.client][t.answer] \in Nat
    BY <2>1, <2>2
  <2> QED  BY <2>1, <2>2, <2>3, <2>4 DEF RisingInv
<1> QED  BY <1>1, <1>2, <1>3, AlwaysTypeOK, PTL DEF Spec
=============================================================================
