SPECIFICATION Spec
CONSTANTS
  Chunks = {1, 2}
  Writers = {1, 2}
  Concurrency = 1
  Budget = 3
  MaxSessions = 2
  MaxSteps = 3
  MaxMishaps = 1
  Mishaps = {"crash", "error", "unheard", "expiry"}
  Groups = {1}
  MaxVersion = 4
  MaxChain = 2
  MaxTrouble = 1
  Local = {1}
  Cloud = {2}
  Media = {1, 2}
  Handlers = {1}
  MaxSwitches = 1
  MaxFailures = 1
  Entries = {1, 2}
  MaxKey = 2
  Precision = 1
  Limit = 1
  MaxRequests = 3
  MaxChanges = 1
  Updates = {1, 2}
  Words = {1}
  Accounts = {1, 2}
  Subscriptions = {1}
  MaxWizards = 1
  MaxActs = 6
  Memory = {1}
  Channel = {2}
  YtDlp = {3}
  MaxPresses = 3
  Stored = {1, 2}
  MaxAsks = 3
  Clouds = {2}
  Holders = {2, 3}
  Names = {1, 2}
  Paths <- Short
  MaxEvents = 1
  Admins = {1, 2}
  Clients = {1}
  MaxAccounts = 3
  MaxFlows = 1
  MaxGrants = 2
  MaxBegun = 2
  Requests = {1, 2, 3}
  Connections = 3
INVARIANTS
  TypesHold
  UploadsSound
  RowsSound
  LibrarySound
  AgreedIsDone
PROPERTY
  ComesToRest
CHECK_DEADLOCK FALSE
