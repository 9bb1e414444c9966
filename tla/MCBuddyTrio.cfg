\* The chained cohort of three, with commit_barrier; storev at timestamps 0 and 2.
SPECIFICATION Spec
CONSTANTS
  N = 3
  Depth = 1
  Elems = {1, 2}
  Subsets <- Whole
  Parts <- Uneven
  Varied = {0, 2}
  Replays = TRUE
  Barrier = TRUE
  MaxTime = 3
  MaxFails = 2
INVARIANTS
  SnapshotsRetained
  RestoredIsCommitted
  PartnerCopies
  PoolSuffices
