SPECIFICATION Spec
CONSTANTS
  p1 = p1
  p2 = p2
  l1 = l1
  l2 = l2
  Free = Free
  Proc = {p1, p2}
  Lane = {l1}
  MaxGen = 2
  MaxTime = 4
  MaxStops = 1
  MaxMoved = 1
  MaxPlans = 2
  Busy = {l1}
  Support <- MCSupport
SYMMETRY MCSymmetry
INVARIANTS
  RestoringCanContinue
CHECK_DEADLOCK FALSE
