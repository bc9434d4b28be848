CONSTANTS
  e1 = e1  e2 = e2  e3 = e3  c1 = c1  c2 = c2
  None = None
  Emails = {e1, e2}
  OpportunityOf <- Opportunities
  Calls = {c1, c2}
  MaxTries = 2
  MaxLags = 1
  MaxFaults = 1
  MaxExits = 1
  MaxStalls = 1
SPECIFICATION FairSpec
CHECK_DEADLOCK FALSE
PROPERTIES OpportunitiesLand
INVARIANTS EffectOnce CommittedIsDone OneOwner NoOrphanedClaims
