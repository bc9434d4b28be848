CONSTANTS
  u1 = u1  u2 = u2  alice = alice  good = good  bad = bad
  Nobody = Nobody
  Uploads = {u1, u2}
  UserOf <- OneUser
  ContentOf <- SameFile
  Infected = {bad}
  Copies = {1}
  Accepted <- AnyState
  ScannerFails = FALSE
  Outages = FALSE
  ReplicaLags = FALSE
  Linkable = {}
  Deletable = {}
  MaxFaults = 0
  Attempts = 2
SPECIFICATION Spec
CHECK_DEADLOCK FALSE
INVARIANT SecondUploadSupersedes
