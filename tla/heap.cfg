SPECIFICATION Spec
CONSTANTS
  NULL = NULL
  Job = {j1, j2, j3, j4}
  Addr = {a1, a2, a3, a4}
  Algorithms = {"FIFO", "RR", "SJF"}
  Commands = {"freeze", "unfreeze", "queue", "stop"}
  MaxRows = 4
SYMMETRY HeapSymmetry
CHECK_DEADLOCK FALSE
INVARIANTS TypeOK EveryCellOwned ReachableAlive CalmTable CalmListing
PROPERTY ImplementsQueue
