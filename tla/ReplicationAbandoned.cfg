\* Updates of one topic, and elections that are abandoned.
CONSTANTS
  Node = {n1, n2, n3}
  None = None
  Locks = {topic}
  Manager = Manager
  Abandon = TRUE
  MaxGen = 4
  MaxUpdates = 1
  MaxFailures = 2
  MaxCrashes = 1
SPECIFICATION Spec
\* the bounds stop it
CHECK_DEADLOCK FALSE
SYMMETRY NodeSymmetry
INVARIANTS
  LatestState
