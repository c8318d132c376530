\* close() waits for a request that is cancelled.
CONSTANTS
  Request = {r1, r2}
  None = None
  MaxDispatches = 0
  Capacity = 2
  Calls = {"close", "cancel"}
  LateCancel = TRUE
  MaxCalls = 0
SPECIFICATION Spec
\* a connection ends
CHECK_DEADLOCK FALSE
INVARIANT CloseHonoured
