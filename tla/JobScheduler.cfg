SPECIFICATION Spec
SYMMETRY Symmetry
CONSTANTS
  n1 = n1
  n2 = n2
  j1 = j1
  w1 = w1
  none = none
  Nodes <- MCNodes
  Jobs = {j1}
  Workers = {w1}
  NoRow = none
  NoLease = none
  NoJob = none
  Capacity = 1
  MaxFaults = 1
INVARIANTS
  TypeOK
  LeaseHeld
  OneTaskPerJob
  SucceedsOnce
  Attended
PROPERTIES
  LifecycleImplemented
