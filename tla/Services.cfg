\* Allocations of a registry, the servers of a node, the sessions of a router, lookups.
SPECIFICATION Spec
\* the operations have returned and the calls have been answered
CHECK_DEADLOCK FALSE
INVARIANTS
  AnsweredOnce
  NoneForgotten
  NothingKept
  QuietWhenStopped
