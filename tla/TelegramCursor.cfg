SPECIFICATION Spec
CONSTANTS
  Jobs = {1}
  MaxId = 3
  Media = {1, 2, 3}
  ScanLimit = 2
  Segment = 1
  BatchSize = 3
  Attempts = 1
  Resumed = 5
  Mixed = FALSE
  Broken = {}
  MaxEvents = 0
  Faults = {}
  NoJob = 0
  NoRunner = none
INVARIANTS
  CursorSafe
CHECK_DEADLOCK FALSE
