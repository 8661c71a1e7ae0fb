SPECIFICATION Spec
CONSTANTS
  p1 = p1
  p2 = p2
  l1 = l1
  l2 = l2
  a = a
  b = b
  Free = Free
  NoLane = NoLane
  Proc = {p1, p2}
  Lane = {l1}
  Path = {a, b}
  Version = {0, 1}
  Base = 0
  Hooked = 1
  Plan <- MCPlan
  MaxLength = 2
  MaxSecond = 2
  MaxEdits = 1
  MaxStops = 1
SYMMETRY MCSymmetry
INVARIANTS
  TypeOK
  Recoverable
  ReceiptsTellTrue
  CapturedInScope
PROPERTIES
  HistorySpec
CHECK_DEADLOCK FALSE
