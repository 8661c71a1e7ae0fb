SPECIFICATION Spec
CONSTANTS
  a = a
  A = A
  b = b
  l1 = l1
  l2 = l2
  l3 = l3
  None = None
  Component = {a, A, b}
  Fold <- MCFold
  Path <- MCPath
  Lane = {l1, l2, l3}
  MaxOwners = 4
SYMMETRY MCSymmetry
INVARIANTS
  ReportedIsOverlap
  ScanIsComplete
CHECK_DEADLOCK FALSE
