SPECIFICATION Spec
CONSTANTS
  Pods = {p1}
  Nodes = {n1, n2}
  MaxReqs = 2
  MaxMoves = 1
  MaxStops = 1
  MaxFaults = 1
INVARIANT TypeOK RenderedIsRam LocationsStick
PROPERTY PlacedStays SettlesRight
