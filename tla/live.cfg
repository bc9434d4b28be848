CONSTANTS
  Subjects = {"outbox", "resume", "twice", "gmail"}
  u1 = u1  u2 = u2  alice = alice  good = good  bad = bad
  e1 = e1  e2 = e2  d1 = d1  j1 = j1  None = None
  first = first  delta = delta  p1 = p1
  Nobody = Nobody
  Uploads = {u1, u2}
  UserOf <- OneUser
  ContentOf <- SameFile
  Infected = {bad}
  Copies = {1}
  Accepted <- AnyState
  ScannerFails = TRUE
  Outages = FALSE
  ReplicaLags = TRUE
  Linkable = {}
  Deletable = {}
  MaxFaults = 0
  Attempts = 2
SPECIFICATION LiveSpec
CHECK_DEADLOCK FALSE
INVARIANTS QuarantineBoundary UploadsHold
PROPERTIES EventuallySettles RefinesDelivery ScansSettle JobsEnd
