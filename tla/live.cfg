SPECIFICATION FairSpec
CONSTANTS
  Job = {j1, j2}
  NULL = NULL
  Inputs <- FewTicksOrEnd
  Algorithms = {"FIFO", "RR"}
  Quantum = 1
  Connections = 2
  Operator = TRUE
PROPERTIES EveryJobFinishes EveryJobIsAdmitted TurnComes FreezeTakesHold
