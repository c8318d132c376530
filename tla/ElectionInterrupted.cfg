\* A recovery that waits for an update.
CONSTANTS
  Node = {n1, n2, n3}
  None = None
  MaxSeq = 4
  MaxGen = 3
  MaxUpdates = 1
  MaxChecks = 1
  MaxFailures = 1
  MaxRefusals = 0
  MaxCrashes = 0
  MaxDestroys = 0
SPECIFICATION GroupSpec
SYMMETRY Symmetry
\* the bounds stop the system
CHECK_DEADLOCK FALSE
PROPERTIES
  ElectionUninterrupted
