SPECIFICATION Spec
CONSTANTS
  p1 = p1
  p2 = p2
  l1 = l1
  l2 = l2
  Free = Free
  Proc = {p1, p2}
  Lane = {l1, l2}
  MaxGen = 2
  MaxTime = 3
  MaxStops = 1
  MaxMoved = 1
  MaxPlans = 2
  Busy = {l1}
  Support <- MCFull
SYMMETRY MCSymmetry
CONSTRAINT MCBeside
INVARIANTS
  TypeOK
  RecordsKept
  CompleteIsStored
  MixedIsReported
  StoppedCanContinue
PROPERTIES
  ShelfSpec
CHECK_DEADLOCK FALSE
