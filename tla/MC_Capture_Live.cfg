SPECIFICATION FairSpec
CONSTANTS
  p1 = p1
  p2 = p2
  l1 = l1
  l2 = l2
  a = a
  b = b
  Free = Free
  NoLane = NoLane
  Proc = {p1, p2}
  Lane = {l1}
  Path = {a, b}
  Version = {0, 1}
  Base = 0
  Hooked = 1
  Plan <- MCShortPlan
  MaxLength = 2
  MaxSecond = 1
  MaxEdits = 1
  MaxStops = 1
PROPERTIES
  Reconciled
CHECK_DEADLOCK FALSE
