SPECIFICATION Spec
CONSTANTS
  p1 = p1
  p2 = p2
  l1 = l1
  l2 = l2
  Free = Free
  NoLane = NoLane
  Proc = {p1, p2}
  Lane = {l1, l2}
  LeaseId = {1, 2}
  TTL = 2
  MaxClock = 3
  Component <- MCComponent
  Fold <- MCFold
  Path <- MCPath
  Request <- MCRequest
SYMMETRY Symmetric
INVARIANTS
  TypeOK
  NoCrossLaneOverlap
  FenceHolds
  ExactRetryAdmitted
  ReleaseResumable
  ClosedLaneHoldsNothing
PROPERTIES
  OwnershipSpec
  ReleaseStartedFreezes
CHECK_DEADLOCK FALSE
