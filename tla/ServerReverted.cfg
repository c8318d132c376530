\* An update is reverted while the server is being activated.
CONSTANTS
  Call <- MCCall
  Kind <- MCKind
  On <- MCOn
  Props <- MCProps
  Shape <- SameShape
  Adapter <- MCAdapter
  MaxForks = 2
  Configurations <- Reverted
SPECIFICATION Spec
\* the calls have been answered
CHECK_DEADLOCK FALSE
INVARIANTS
  NoSelfDeadlock
