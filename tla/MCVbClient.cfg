SPECIFICATION FairSpec
CONSTANTS
  main = main
  worker = worker
  p1 = p1
  p2 = p2
  p3 = p3
  Threads = {main, worker}
  Main = main
  Pools = {p1, p2, p3}
  Owner <- MCOwner
  MaxBase = 3
INVARIANTS ClientTypeOK MutualExclusion NoDanglingUse MappingsMatchEntries AddressOfBlock
PROPERTIES LockReleased AbsSpec
