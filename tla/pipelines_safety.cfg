CONSTANTS
  Subjects = {"outbox", "resume", "twice", "gmail", "crashing", "failing", "stalling", "arrivals"}
  e1 = e1  e2 = e2  d1 = d1  d2 = d2  j1 = j1  j2 = j2
  None = None
  Events = {e1}
  Mapped = {e1}
  Dispatchers = {d1, d2}
  Jobs = {j1, j2}
  JobKey <- NoKeys
  StatusColumn <- AnyStatus
  ModelFieldNames = TRUE
  ReplicaLags = TRUE
  Outages = TRUE
  TimelyDispatch = TRUE
  MaxRequeues = 0
  MaxFaults = 1
  MaxRetries = 2
  Attempts = 2
  MaxStalled = 0
  nobody = nobody
  u1 = u1  u2 = u2  alice = alice  good = good  bad = bad
  first = first  delta = delta  p1 = p1  p2 = p2
  SyncJobs = {first, delta}
  Initial = {first}
  Pids = {p1}
  SyncAttempts = 1
  PageSize = 1
  HistorySize = 1
  Mailbox = 1
  MaxMail = 2
  ReadsLag = TRUE
  MaxFailures = 0
  MaxExits = 1
  MaxStalls = 0
SPECIFICATION PipelinesSpec
CHECK_DEADLOCK FALSE
SYMMETRY Alike
INVARIANTS TypesOK ProcessedWasDelivered NoEarlyDlq ClaimExclusive NobodyStranded UploadsAreSafe SyncHolds DoneMeansSaved RacesAreContained
