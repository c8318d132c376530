\* Updates of one topic.
CONSTANTS
  Node = {n1, n2, n3}
  None = None
  Locks = {topic}
  Manager = Manager
  Abandon = FALSE
  MaxGen = 3
  MaxUpdates = 3
  MaxFailures = 2
  MaxCrashes = 1
SPECIFICATION Spec
\* the bounds stop it
CHECK_DEADLOCK FALSE
SYMMETRY NodeSymmetry
INVARIANTS
  DurableUpdates
  NoResurrection
PROPERTIES
  StampsTell
