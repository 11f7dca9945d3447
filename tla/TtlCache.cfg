SPECIFICATION Spec
CONSTANTS
  k1 = k1
  k2 = k2
  k3 = k3
  v1 = v1
  v2 = v2
  Keys <- MCKeys
  Values <- MCValues
  Nothing = Nothing
  TTL = 2
  MaxEntries = 2
  MaxTime = 4
  MaxSets = 5
INVARIANT TypeOK
INVARIANT CapacityRespected
PROPERTY OldestGivenUp
PROPERTY ImplementsContract
