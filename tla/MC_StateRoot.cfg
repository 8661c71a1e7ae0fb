SPECIFICATION Spec
CONSTANTS
  p1 = p1
  p2 = p2
  v1 = v1
  v2 = v2
  Proc = {p1, p2}
  Version = {v1, v2}
  Legacy = Legacy
  None = None
  MaxBodies = 3
  MaxLosses = 1
SYMMETRY RootSymmetry
INVARIANTS
  RootTypeOK
  OneDomain
  NothingTorn
  AckedKept
PROPERTIES
  DomainSpec
