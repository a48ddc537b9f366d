SPECIFICATION Spec
CONSTANTS
  t1 = t1
  t2 = t2
  Tasks = {t1, t2}
  NoTask = NoTask
  MaxGeneration = 2
  MaxConcurrent = 1
  MaxEvents = 4
SYMMETRY TaskTwins
INVARIANTS
  TypeOK
  LeaseWhileRunning
  SideEffectsAccounted
  CommitMatchesTask
  PendingIsClaimable
  OneWorkerPerTask
  TasksAreServed
PROPERTIES
  CompletionKept
CHECK_DEADLOCK FALSE
