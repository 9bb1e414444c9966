\* Communicators of up to 12 ranks and every separation up to 6.
SPECIFICATION Spec
CONSTANTS
  MaxSize = 12
  MaxSep = 6
  MaxDead = 2
  MaxSpares = 2
INVARIANTS
  CohortsPartition
  PartnersApart
CHECK_DEADLOCK FALSE
