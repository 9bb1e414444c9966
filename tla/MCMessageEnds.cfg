\* Messages and collectives; two failures at any two moments after the first checkpoint.
SPECIFICATION Spec
CONSTANTS
  NRanks = 3
  Program <- MCTwoRegions
  CkptAfter = {0}
  Depth = 2
  MaxFailures = 2
  EarlyFailures = 0
PROPERTY
  EveryoneFinishes
