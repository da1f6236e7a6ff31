SPECIFICATION Spec
CONSTANTS
  NodeSpecs <- AllNodes
  OverlaySpecs <- AllOverlays
  ServiceSpecs <- AllServices
  SysSpecs <- AllSys
  PoolSpecs <- VxPool
  Places <- AllPlaces
  Yamls <- NoneOrMesh
  MeshOverlay = "o1"
  MaxOps = 2
  MaxStops = 1
  W = 4
  WordBits = 2
  UintRange = 256
CHECK_DEADLOCK FALSE
PROPERTY RestartIsQuiet
