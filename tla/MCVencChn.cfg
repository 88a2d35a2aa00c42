SPECIFICATION Spec
CONSTANTS
  c1 = c1
  c2 = c2
  c3 = c3
  Chns = {c1, c2, c3}
  ModChn = c1
  Wrap = 5
  Nobody = Nobody
SYMMETRY Symmetry
INVARIANTS TypeOK MapsThroughDevmem CountMatches
PROPERTY DevmemGoesWithLast
