\* Two active ranks, two spares, three crashes: replacements, spares that run out,
\* and failures during the repair of another.
SPECIFICATION FairSpec
CONSTANTS
  NProcs = 4
  Spares = 2
  MaxCrashes = 3
  MaxCommits = 1
INVARIANTS
  TypeOK
  GroupsWellFormed
  GroupsAgree
  SparesAreTail
  RolesAgree
PROPERTIES
  EveryoneFinishes
