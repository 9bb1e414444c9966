\* Four ranks; what is stored does and does not divide evenly among three partners.
SPECIFICATION Spec
CONSTANTS
  N = 4
  Size = 6
  StoreSizes <- Mixed
  MaxStores = 5
  MaxFails = 3
INVARIANTS
  EvenBytesRestored
  EvenParityRestored
  OverrunsByOne
