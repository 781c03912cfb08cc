SPECIFICATION Spec
CONSTANTS
  Ids = {i1, i2, i3, i4}
  NoTask = none
  MaxDeps = 2
SYMMETRY Symmetry
INVARIANTS
  SearchIsExact
  StoredAcyclic
PROPERTIES
  SearchProgresses
CHECK_DEADLOCK FALSE
