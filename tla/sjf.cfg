SPECIFICATION Spec
CONSTANTS
  Job = {j1, j2, j3}
  NULL = NULL
  Inputs <- BurstsOrClose
  Algorithm = "SJF"
  Quantum = 0
  Connections = 2
  Commands = {"exit"}
  MaxTime = 4
SYMMETRY JobSymmetry
VIEW TimedView
INVARIANTS FinishedOnce WaitingTimeOK
PROPERTY RunsUntilFinished
