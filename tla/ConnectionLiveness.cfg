\* Graceful closure of both ends, without the close timeout.
CONSTANTS
  Request = {r1, r2}
  None = None
  MaxDispatches = 1
  Capacity = 1
  Calls = {"close", "destroy", "abort", "timeout"}
  LateCancel = FALSE
  MaxCalls = 1
SPECIFICATION GracefulSpec
\* a connection ends
CHECK_DEADLOCK FALSE
PROPERTIES
  ClosureEnds
