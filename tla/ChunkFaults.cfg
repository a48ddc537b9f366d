\* One attempt with every fault (failed statements, failed provider calls,
\* crashes) under fair maintenance.
CONSTANTS
  a1 = a1
  a2 = a2
  u1 = u1
  s1 = s1
  Uploads = {u1}
  Attempts = {a1}
  UploadOf <- OneUpload
  Sweeps = {s1}
  NoAttempt = NoAttempt
  NoSweep = NoSweep
  NoFile = NoFile
  OtherFile = OtherFile
  Faults = {"db", "store", "crash"}
SPECIFICATION FairSpec
INVARIANTS
  TypeOK
  SideEffectsAccounted
  CommitMatchesSession
  ChunksKept
  NoUnresolvedCommit
PROPERTIES
  OutcomeIsFinal
  AbandonedRecovered
CHECK_DEADLOCK FALSE
