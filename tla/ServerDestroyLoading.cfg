\* A server is destroyed while it is loaded for the first time.
CONSTANTS
  Call <- MCCall
  Kind <- MCKind
  On <- MCOn
  Props <- MCProps
  Shape <- SameShape
  Adapter <- MCAdapter
  MaxForks = 2
  Configurations <- DestroyLoading
SPECIFICATION Spec
\* the calls have been answered
CHECK_DEADLOCK FALSE
INVARIANTS
  DestroyedGone
