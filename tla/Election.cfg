\* Elections: the first one, failures, updates, restarts.
CONSTANTS
  Node = {n1, n2, n3}
  None = None
  MaxSeq = 4
  MaxGen = 3
  MaxUpdates = 1
  MaxChecks = 2
  MaxFailures = 2
  MaxRefusals = 1
  MaxCrashes = 1
  MaxDestroys = 1
SPECIFICATION ScenarioSpec
SYMMETRY Symmetry
\* the bounds stop the system
CHECK_DEADLOCK FALSE
INVARIANTS
  GroupNamesCoordinator
  FullStartup
  MajorityServes
  KeepsLooking
PROPERTIES
  DestroyedNeverServes
