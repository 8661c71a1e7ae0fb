SPECIFICATION FairSpec
CONSTANTS
  p1 = p1
  p2 = p2
  Free = Free
  Command = {p1, p2}
  NLanes = 2
INVARIANTS
  NobodyStuck
  BeatUnderLaneLock
  WaitsInOrder
PROPERTIES
  EveryCommandEnds
