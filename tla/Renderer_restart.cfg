SPECIFICATION FairSpec
CONSTANTS
  n1 = n1
  sA = sA
  k1 = k1
  k2 = k2
  k3 = k3
  v1 = v1
  v2 = v2
  sB = sB
  None = None
  Nodes = {n1}
  Services = {sA}
  Keys = {k1, k2, k3}
  Vals = {v1, v2}
  Specs <- MCSpecs
  Renderings <- MCRenderings
  MaxMsgs = 3
  MaxStops = 1
  MaxFaults <- CrashAndWriteError
INVARIANTS NoOrphanAtRest TrackedAtRest
PROPERTIES CleanSweepsWithoutFaults ChangeIsRendered
CHECK_DEADLOCK FALSE
