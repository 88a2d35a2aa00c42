SPECIFICATION Spec
CONSTANTS
  k1 = k1
  k2 = k2
  k3 = k3
  k4 = k4
  v1 = v1
  v2 = v2
  Keys = {k1, k2, k3, k4}
  Values = {v1, v2}
  Null = Null
  Hash <- MCHash
  InitialCapacity = 0
INVARIANTS TypeOK EntriesPlaced KeysUnique SizeIsCount MaskIsModulo
PROPERTY ImplementsMap
