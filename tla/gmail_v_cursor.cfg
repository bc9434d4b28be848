CONSTANTS
  first = first  delta = delta  p1 = p1  p2 = p2
  SyncJobs = {delta}
  Initial = {}
  Pids = {p1}
  SyncAttempts = 1
  PageSize = 1
  HistorySize = 1
  Mailbox = 2
  MaxMail = 2
  ReadsLag = FALSE
  MaxFailures = 0
  MaxExits = 0
  MaxStalls = 0
SPECIFICATION SyncSpec
CHECK_DEADLOCK FALSE
INVARIANT CursorCovers
