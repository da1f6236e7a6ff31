SPECIFICATION Spec
CONSTANTS
  NodeSpecs <- AllNodes
  OverlaySpecs <- AllOverlays
  ServiceSpecs <- AllServices
  SysSpecs <- AllSys
  PoolSpecs <- VxPool
  Places <- AllPlaces
  Yamls <- AllYamls
  MeshOverlay = "o1"
  MaxOps = 2
  MaxStops = 1
  W = 4
  WordBits = 2
  UintRange = 256
CHECK_DEADLOCK FALSE
INVARIANT TypeOK TunnelsMatched MemifsPaired MacsApart UpMeansRendered UpMeansConnected RoutesLead
PROPERTY TrackedStays RestartKeepsLocal VnisImplemented
