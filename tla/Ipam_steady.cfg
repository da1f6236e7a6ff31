SPECIFICATION Spec
CHECK_DEADLOCK FALSE
CONSTANTS
  W = 3
  None = None
  Nil = Nil
  p1 = p1
  p2 = p2
  n1 = n1
  n2 = n2
  s1 = s1
  s2 = s2
  if1 = if1
  if2 = if2
  if3 = if3
  Pools = {p1, p2}
  Nodes = {n1}
  Services = {s1, s2}
  Hosts = {n1}
  IfacesOf <- MCIfacesOf
  PoolSpecs <- AnyScope
  IfaceSpecs <- PooledOrNot
  Requests <- Steady
  MaxMsgs = 5
  MaxCrashes = 1
INVARIANTS TypeOK AddressesUnique DownHasCause HostAddresses
