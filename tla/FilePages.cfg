SPECIFICATION Spec
CONSTANTS
  Rows = {1, 2}
  MaxKey = 3
  Precision = 2
  Limit = 1
  MaxRequests = 2
  MaxChanges = 0
INVARIANT
  ListIsComplete
CHECK_DEADLOCK FALSE
