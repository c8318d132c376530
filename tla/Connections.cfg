\* Closure, handling of requests and idle detection of connections.
CONSTANTS
  Request = {r1, r2}
  None = None
  MaxDispatches = 1
  Capacity = 1
  Calls = {"close", "abort", "timeout", "cancel"}
  LateCancel = FALSE
  MaxCalls = 1
SPECIFICATION Suite
\* a connection ends
CHECK_DEADLOCK FALSE
INVARIANTS
  CloseConnectionSafe
  CloseHonoured
  CompletedOnce
  NoStall
  IdleDetected
