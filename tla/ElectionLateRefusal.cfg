\* A call to accept() that fails late.
CONSTANTS
  Node = {n1, n2, n3}
  None = None
  MaxSeq = 4
  MaxGen = 3
  MaxUpdates = 0
  MaxChecks = 2
  MaxFailures = 1
  MaxRefusals = 1
  MaxCrashes = 0
  MaxDestroys = 0
SPECIFICATION GroupSpec
SYMMETRY Symmetry
\* the bounds stop the system
CHECK_DEADLOCK FALSE
INVARIANTS
  AssertsHold
