SPECIFICATION Spec
CONSTANTS
  Job = {j1, j2, j3}
  NULL = NULL
  Inputs <- ShortBursts
  Algorithm = "FIFO"
  Quantum = 0
  Connections = 2
  Commands = {"freeze", "unfreeze"}
  MaxTime = 4
SYMMETRY JobSymmetry
VIEW LiveView
INVARIANTS TypeOK NoJobLost RunningAtHead FinishInOrder
PROPERTIES RunsUntilFinished ImplementsQueue
