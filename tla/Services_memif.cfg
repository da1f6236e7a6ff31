SPECIFICATION Spec
CONSTANTS
  NodeSpecs <- AllNodes
  OverlaySpecs <- AllOverlays
  ServiceSpecs <- DirectOrBridged
  SysSpecs <- AllSys
  PoolSpecs <- VxPool
  Places <- AllPlaces
  Yamls <- NodesOnly
  MeshOverlay = "o1"
  MaxOps = 2
  MaxStops = 1
  W = 4
  WordBits = 2
  UintRange = 256
CHECK_DEADLOCK FALSE
INVARIANT MastersApart
