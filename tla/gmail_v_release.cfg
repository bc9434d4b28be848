CONSTANTS
  first = first  delta = delta  p1 = p1  p2 = p2
  SyncJobs = {first, delta}
  Initial = {first}
  Pids = {p1}
  SyncAttempts = 2
  PageSize = 1
  HistorySize = 3
  Mailbox = 2
  MaxMail = 3
  ReadsLag = FALSE
  MaxFailures = 1
  MaxExits = 0
  MaxStalls = 0
SPECIFICATION SyncSpec
CHECK_DEADLOCK FALSE
INVARIANT ReleasedIsClaimable
