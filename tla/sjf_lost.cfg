SPECIFICATION Spec
CONSTANTS
  Job = {j1, j2, j3, j4}
  NULL = NULL
  Inputs <- ShortBursts
  Algorithm = "SJF"
  Quantum = 0
  Connections = 2
  Commands = {}
  MaxTime = 6
SYMMETRY JobSymmetry
VIEW LiveView
INVARIANTS NoJobLost
