\* A node is invited to the group it gave up.
CONSTANTS
  Node = {n1, n2, n3}
  None = None
  MaxSeq = 4
  MaxGen = 3
  MaxUpdates = 0
  MaxChecks = 1
  MaxFailures = 1
  MaxRefusals = 0
  MaxCrashes = 0
  MaxDestroys = 0
SPECIFICATION FairGroupSpec
\* the bounds stop the system
CHECK_DEADLOCK FALSE
PROPERTIES
  ReorganizationEnds
