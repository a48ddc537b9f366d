SPECIFICATION Spec
CONSTANTS
  Jobs = {1}
  MaxId = 2
  Media = {1, 2}
  ScanLimit = 1
  Segment = 1
  BatchSize = 1
  Attempts = 1
  Resumed = 5
  Mixed = FALSE
  Broken = {2}
  MaxEvents = 1
  Faults = {"crash", "stall", "flood", "quota", "error"}
  NoJob = 0
  NoRunner = none
  Claims = 2
  MaxMishaps = 3
  Mishaps = {"crash", "stall", "stop", "statement", "provider", "lostObject", "lostInsert", "lostCommit"}
  Uploads = {1, 2}
  Depth = 2
  MaxClients = 2
  MaxDeletions = 2
  Items = {1, 2}
  Duplicates = {2}
  Loud = 0
  MaxSessions = 3
  MaxTroubles = 1
  Sent = {1, 2}
  MaxTries = 4
  Accidents = {"admission", "download", "quota", "mark", "provider", "lostObject", "statement",
               "lostInsert", "cancel", "retry", "crash"}
  Browsers = {1, 2}
  MaxPasswords = 3
  MaxSignIns = 3
  MaxSecrets = 2
  MaxTasks = 4
  MaxLost = 1
  Users = {1, 2}
  Hands = {1, 2}
  Length = 1
  MaxFailed = 2
  MaxActs = 3
  MaxErrors = 1
INVARIANTS
  TypesHold
  WorkAccounted
  ChatAttended
  SignInSound
PROPERTIES
  Once
  NothingLeftWaiting
CHECK_DEADLOCK FALSE
