SPECIFICATION AuditSpec
CONSTANTS
  p1 = p1
  l1 = l1
  l2 = l2
  Free = Free
  NoLane = NoLane
  Proc = {p1}
  Lane = {l1, l2}
  LeaseId = {1, 2}
  TTL = 2
  MaxClock = 2
  MaxRefused = 1
  MaxArchived = 1
  Component <- MCComponent
  Fold <- MCFold
  Path <- MCPath
  Request <- MCRequest
SYMMETRY Symmetric
INVARIANTS
  AuditTypeOK
  NoInventedConflict
  ClosedLaneNotAccused
  LastingDamageReported
  VerdictIsLinkCheck
CHECK_DEADLOCK FALSE
