CONSTANTS
  Subjects = {"facts", "accounts", "tokens", "placement", "reports", "circuit", "limits"}
  go = go  p1 = p1  c1 = c1  c2 = c2
  Nobody = Nobody
  Keys = {go}
  Items <- TwoMentions
  Parsers = {p1}
  Clients = {c1, c2}
  MaxFacts = 3
  Budgets <- TwiceOrThree
  Epsilon = 1
  Certain = 100
  Connections = 2
  Users = {"u1", "u2"}
  Sessions = {"q1", "q2", "q3"}
  Owned <- OwnedTables
  MaxKeys = 3
  RedisFaults = 1
  Old = {"o"}
  New = {"n1"}
  Callers = {"a", "b"}
  Operations <- StorageOperations
  Local = {"sign"}
  failureThreshold = 2
  resetTimeout = 2
  requestTimeout = 2
  MaxRetries = 1
  Presets = {"read", "write"}
  points <- RoutePoints
  windows <- RouteWindows
  Servers = {"api"}
  Regions = {"us", "eu"}
  DefaultRegion = "us"
  Hosts = {"api", "worker"}
  Workers = {"worker"}
  RedisTtl = 1
  InProcessTtl = 2
  JobAttempts = 1
  MaxMoves = 1
  Changes = {"word", "e1"}
  Requests <- ReportedChanges
  Start = "APPLIED"
  Retries = 1
  FirstEvent = {"APPLICATION_SUBMITTED"}
  PageSize = 1
SPECIFICATION RecordsSpec
CHECK_DEADLOCK FALSE
INVARIANTS FactsHold AccountsHold AccessStaysMoved PlacementHolds ReportsHold CircuitRecovers AdmissionsAreBounded
PROPERTIES CallsEnd
