\* Concurrent updates of two topics.
CONSTANTS
  Node = {n1, n2, n3}
  None = None
  Locks = {t1, t2}
  Manager = Manager
  Abandon = FALSE
  MaxGen = 3
  MaxUpdates = 3
  MaxFailures = 2
  MaxCrashes = 1
SPECIFICATION Spec
\* the bounds stop it
CHECK_DEADLOCK FALSE
SYMMETRY NodeSymmetry
INVARIANTS
  LatestState
