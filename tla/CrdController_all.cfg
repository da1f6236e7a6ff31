SPECIFICATION Spec
CONSTANTS
  Keys <- OneKey
  Contents = {v1, v2}
  First = v1
  Default = "default"
  Workers = {w1, w2}
  MaxEdits = 2
  MaxFaults = 1
CHECK_DEADLOCK FALSE
INVARIANT TypeOK SpecIsUsers
PROPERTY NeverOlder SpecsArrive
