SPECIFICATION FairSpec
CONSTANTS
  c1 = c1
  c2 = c2
  Client = {c1, c2}
  Scenarios <- Mixed
CHECK_DEADLOCK FALSE
INVARIANTS TypeOK PidCountIsInserted PidsIncrease AnswersBetweenPids ShownPidsDistinct EndingLosesNoJob InsertedInOrder
PROPERTY NoThreadWaitsForever
