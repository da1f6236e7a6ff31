SPECIFICATION Spec
CONSTANTS
  n1 = n1
  sA = sA
  k1 = k1
  k2 = k2
  k3 = k3
  v1 = v1
  v2 = v2
  sB = sB
  None = None
  Nodes = {n1}
  Services = {sA}
  Keys = {k1, k2, k3}
  Vals = {v1, v2}
  Specs <- MCSpecs
  Renderings <- MCRenderings
  MaxMsgs = 3
  MaxStops = 0
  MaxFaults <- OneOfEach
INVARIANTS TypeOK NoPhantomEntry MirrorExact DeliveredUnlessWriteFailed
PROPERTIES TouchesOnlyChanges
CHECK_DEADLOCK FALSE
