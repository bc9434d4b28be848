CONSTANTS
  e1 = e1  e2 = e2  e3 = e3  c1 = c1  c2 = c2
  None = None
  Emails = {e1, e2}
  OpportunityOf <- Opportunities
  Calls = {c1}
  MaxTries = 2
  MaxLags = 0
  MaxFaults = 0
  MaxExits = 0
  MaxStalls = 0
SPECIFICATION FairSpec
CHECK_DEADLOCK FALSE
PROPERTIES FollowUpsLand
