\* Two attempts at one upload, a sweep and crashes.
CONSTANTS
  a1 = a1
  a2 = a2
  u1 = u1
  s1 = s1
  Uploads = {u1}
  Attempts = {a1, a2}
  UploadOf <- OneUpload
  Sweeps = {s1}
  NoAttempt = NoAttempt
  NoSweep = NoSweep
  NoFile = NoFile
  OtherFile = OtherFile
  Faults = {"crash"}
SPECIFICATION Spec
INVARIANT OneCommitPerUpload
PROPERTY ImplementsLedger
CHECK_DEADLOCK FALSE
