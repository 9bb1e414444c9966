\* Two members, one of which may be resizeable; the application keeps to all rules.
SPECIFICATION Spec
CONSTANTS
  Member = {1, 2}
  Depth = 1
  TimeStart = 0
  Shapes <- Two
  Subsets <- Some
  Lengths = {1, 2}
  MAX = 3
  Rules = {"count", "fresh", "sized", "growing", "closed"}
  MaxTime = 2
  MaxWrites = 2
  MaxOpen = 1
INVARIANTS
  FoundIsReal
  LoadNewest
  TimestampsAgree
  PoolExact
PROPERTY
  ImplementsStore
CHECK_DEADLOCK FALSE
