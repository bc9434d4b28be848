CONSTANTS
  e1 = e1  e2 = e2  d1 = d1  d2 = d2  j1 = j1  j2 = j2
  None = None
  Events = {e1}
  Mapped = {e1}
  Dispatchers = {d1}
  Jobs = {j1}
  JobKey <- NoKeys
  StatusColumn <- AnyStatus
  ModelFieldNames = TRUE
  ReplicaLags = FALSE
  Outages = FALSE
  TimelyDispatch = TRUE
  MaxRequeues = 0
  MaxFaults = 1
  MaxRetries = 2
  Attempts = 2
  MaxStalled = 1
SPECIFICATION FairSpec
CHECK_DEADLOCK FALSE
PROPERTIES ExpiredClaimsAreReclaimed
