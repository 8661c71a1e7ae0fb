SPECIFICATION Spec
CONSTANTS
  p1 = p1
  p2 = p2
  l1 = l1
  l2 = l2
  a1 = a1
  a2 = a2
  main = main
  linked = linked
  x = x
  y = y
  None = None
  Proc = {p1, p2}
  Lane = {l1, l2}
  Agent = {a1, a2}
  Tree = {main, linked}
  Path = {x, y}
  Setup <- MCSetup
  SkillFiles = 2
  MaxStops = 1
  MaxEdits = 1
SYMMETRY MCSymmetry
INVARIANTS
  TypeOK
  WorktreeExclusive
  RecordedIsDone
PROPERTIES
  LedgerSpec
