SPECIFICATION Spec
CONSTANTS
  Node = {n1, n2, n3}
  Root = root
  NULL = null
  Names = {a, b}
  Handlers = {t1, t2}
  MaxLookups = 3
  MaxLost = 1
SYMMETRY FuseSymmetry
INVARIANTS
  Accounted
  TreeInv
  NoFreedNode
  DcacheAgrees
