SPECIFICATION Spec
SYMMETRY Symmetry
\* Calls are finitely many; when all have ended and the timer is off the pool rests.
CHECK_DEADLOCK FALSE
CONSTANTS
  k1 = k1
  k2 = k2
  k3 = k3
  none = none
  Calls <- MCCalls
  NoConn = none
  MinConnections = 1
  MaxConnections = 1
INVARIANTS
  OneHolder
  HeldIsPooled
  SizeBounded
  UseIsOwed
PROPERTIES
  ReleaseWakes
  LeasesImplemented
