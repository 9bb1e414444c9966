\* Different subsets in turn: the snapshot of timestamp 0 is reused at timestamp 3.
SPECIFICATION Spec
CONSTANTS
  N = 2
  Depth = 1
  Elems = {1, 2}
  Subsets <- Alternating
  Parts <- Uneven
  Varied = {}
  Replays = TRUE
  Barrier = TRUE
  MaxTime = 4
  MaxFails = 1
INVARIANTS
  NoAbort
