\* Three operations on a subset, or two derived types inside each other.
SPECIFICATION Spec
CONSTANTS
  Builtin = {"int"}
  Horizon = 14
  Simple <- SimpleArgs
  Vectors <- Apart
  Numbers = {2, 3}
  Lists <- ListArgs
  MaxOps = 3
  MaxDepth = 2
INVARIANTS
  ElementsExact
  AnswersExact
  TypesExact
CHECK_DEADLOCK FALSE
