SPECIFICATION Spec
CONSTANTS
  c1 = c1
  c2 = c2
  Client = {c1, c2}
  Scenarios <- TwoAutomatic
CHECK_DEADLOCK FALSE
INVARIANT PidUnique
