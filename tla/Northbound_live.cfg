SPECIFICATION FairSpec
CONSTANTS
  c1 = c1
  c2 = c2
  e1 = e1
  s1 = s1
  s2 = s2
  bad = bad
  None = None
  Clients <- TwoClients
  Names <- OneName
  Specs <- TwoSpecs
  Valid <- OneValid
  MaxRequests = 2
  MaxExternal = 1
  MaxCrashes = 0
CHECK_DEADLOCK FALSE
PROPERTIES Answered ComesToRest DeletionCarriedOut
