\* Two buddies, with the local commit.
SPECIFICATION Spec
CONSTANTS
  N = 2
  Depth = 1
  Elems = {1, 2}
  Subsets <- Whole
  Parts <- Uneven
  Varied = {}
  Replays = TRUE
  Barrier = FALSE
  MaxTime = 3
  MaxFails = 3
INVARIANTS
  CommonRetained
  LatestAgrees
