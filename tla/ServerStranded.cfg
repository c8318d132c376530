\* A caller has seen the server deactivating, and comes back when it is starting.
CONSTANTS
  Call <- MCCall
  Kind <- MCKind
  On <- MCOn
  Props <- MCProps
  Shape <- SameShape
  Adapter <- MCAdapter
  MaxForks = 2
  Configurations <- Stranded
SPECIFICATION Spec
\* the calls have been answered
CHECK_DEADLOCK FALSE
INVARIANTS
  NoneStranded
