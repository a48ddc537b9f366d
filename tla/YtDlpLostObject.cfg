SPECIFICATION Spec
CONSTANTS
  t1 = t1
  t2 = t2
  Tasks = {t1}
  NoTask = NoTask
  MaxGeneration = 1
  MaxConcurrent = 1
  MaxEvents = 3
INVARIANTS
  CommittedIsStored
CHECK_DEADLOCK FALSE
