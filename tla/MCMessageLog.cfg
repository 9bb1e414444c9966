\* Two failures at any two moments after the first checkpoint.
SPECIFICATION Spec
CONSTANTS
  NRanks = 3
  Program <- MCProgram
  CkptAfter = {0}
  Depth = 2
  MaxFailures = 2
  EarlyFailures = 0
INVARIANTS
  NoFatal
  ReceivedInOrder
  CollectivesAligned
  ConsistencyCollectivesMatch
  BarrierLeavesNoTasks
PROPERTY
  ImplementsReliable
