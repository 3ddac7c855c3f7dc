SPECIFICATION Spec
CONSTANTS
  Job = {j1, j2, j3}
  NULL = NULL
  Inputs <- PriorityOrClose
  Algorithm = "HPF"
  Quantum = 0
  Connections = 2
  Commands = {"freeze", "unfreeze", "queue"}
  MaxTime = 3
SYMMETRY JobSymmetry
VIEW LiveView
INVARIANTS TimeAccounted FrozenClock FrozenCpu FrozenQueue
