\* One attempt and one sweep, no fault at all.
CONSTANTS
  a1 = a1
  a2 = a2
  u1 = u1
  s1 = s1
  Uploads = {u1}
  Attempts = {a1}
  UploadOf <- OneUpload
  Sweeps = {s1}
  NoAttempt = NoAttempt
  NoSweep = NoSweep
  NoFile = NoFile
  OtherFile = OtherFile
  Faults = {}
SPECIFICATION Spec
INVARIANT CompletedIsStored
CHECK_DEADLOCK FALSE
