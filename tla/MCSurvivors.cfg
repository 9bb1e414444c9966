\* Three active ranks, a spare and two crashes: a failure leaves two survivors that
\* can be at different places, and two at once leave a rank unreplaced.
SPECIFICATION FairSpec
CONSTANTS
  NProcs = 4
  Spares = 1
  MaxCrashes = 2
  MaxCommits = 1
INVARIANTS
  RankMapsConsistent
  CommitsAgree
  FinalizeIsCollective
PROPERTIES
  SurvivorsKeepRank
