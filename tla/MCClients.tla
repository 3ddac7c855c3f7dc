----------------------------- MODULE MCClients -----------------------------
(* Instances of Clients for TLC: who is started, with which file. *)
EXTENDS Clients

CONSTANTS c1, c2

Jobs(n) == [k \in 1..n |-> "job"]

Started(prog, file) ==
  [program |-> prog, lines |-> file, newlines |-> {}, leftovers |-> FALSE, exit |-> FALSE]

\* The menu client beside an automatic one, whatever is in the memory of the
\* server; a file with a refused last line, which is sent twice, beside another;
\* three messages of the menu client, alone; a manual client beside an automatic one, and
\* an operator who ends the server.
MenuAndAutomatic ==
  [Started((c1 :> "menu") @@ (c2 :> "automatic"), (c1 :> Jobs(1)) @@ (c2 :> Jobs(1)))
     EXCEPT !.leftovers = TRUE]
FileAndAutomatic ==
  [Started((c1 :> "manual") @@ (c2 :> "automatic"), (c1 :> <<"job", "zero">>) @@ (c2 :> Jobs(2)))
     EXCEPT !.newlines = {c1}]
ThreeMessages ==
  Started((c1 :> "menu") @@ (c2 :> "automatic"), (c1 :> Jobs(2)) @@ (c2 :> <<>>))
ExitAmongJobs ==
  [Started((c1 :> "manual") @@ (c2 :> "automatic"), (c1 :> Jobs(2)) @@ (c2 :> Jobs(1)))
     EXCEPT !.exit = TRUE]

Mixed == {MenuAndAutomatic, FileAndAutomatic, ThreeMessages, ExitAmongJobs}

TwoAutomatic ==
  {Started((c1 :> "automatic") @@ (c2 :> "automatic"), (c1 :> Jobs(1)) @@ (c2 :> Jobs(1)))}

Menu == {Started(c1 :> "menu", c1 :> Jobs(1))}
=============================================================================
