\* Two tasks, and all the calls.
CONSTANTS
  Task = {t1, t2}
  None = None
  Delays = {0, 1, 2}
  MaxTime = 3
  Reuse = FALSE
SPECIFICATION FairSpec
\* a destroyed timer stops
CHECK_DEADLOCK FALSE
INVARIANTS
  NoLostWakeup
PROPERTIES
  StartsScheduled
  StartsInOrder
  Served
