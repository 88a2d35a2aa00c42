\* Two threads, one group with two channels, three buffers, two rotations.
SPECIFICATION Spec
CONSTANTS
  Addr = {a1, a2, a3}
  Null = Null
  Threads = {t1, t2}
  Grps = {g1}
  ChnIds = {c1, c2}
  Rots = {Rot0, Rot90}
  NoRot = Rot0
  Zero = Zero
  Default = Default
  Nobody = Nobody
  Nowhere = Nowhere
  Junk = Junk
SYMMETRY Symmetries
INVARIANTS
  TypeOK
  TableTrue
  OwnedOnce
  KernelMeshLives
