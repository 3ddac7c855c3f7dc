SPECIFICATION Spec
CONSTANTS
  Job = {j1, j2, j3}
  NULL = NULL
  Inputs <- ShortBursts
  Algorithm = "RR"
  Quantum = 1
  Connections = 1
  Commands = {"freeze", "unfreeze"}
  MaxTime = 4
SYMMETRY JobSymmetry
VIEW TimedView
INVARIANTS NoJobLost WaitingTimeOK
PROPERTY ImplementsQueue
