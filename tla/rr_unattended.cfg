SPECIFICATION Spec
CONSTANTS
  Job = {j1, j2, j3}
  NULL = NULL
  Inputs <- LongBurstsOrEnd
  Algorithm = "RR"
  Quantum = 2
  Connections = 2
  Commands = {}
  MaxTime = 6
SYMMETRY JobSymmetry
VIEW LiveView
INVARIANTS QueuedHasBurstLeft TimeAccounted
PROPERTIES PassedAfterQuantum ImplementsLoop
