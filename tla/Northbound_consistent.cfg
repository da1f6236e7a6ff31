SPECIFICATION Spec
CONSTANTS
  c1 = c1
  c2 = c2
  e1 = e1
  s1 = s1
  s2 = s2
  bad = bad
  None = None
  Clients <- TwoClients
  Names <- OneName
  Specs <- ThreeSpecs
  Valid <- TwoValid
  MaxRequests = 3
  MaxExternal = 1
  MaxCrashes = 1
CHECK_DEADLOCK FALSE
SYMMETRY Symmetry
INVARIANTS TypeOK CacheMatchesStore CalmRequestSticks
