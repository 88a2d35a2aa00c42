SPECIFICATION Spec
CONSTANTS
  Threads = {main}
  Pools = {p1}
  MaxBase = 2
INVARIANT AddressOfBlock
CHECK_DEADLOCK FALSE
