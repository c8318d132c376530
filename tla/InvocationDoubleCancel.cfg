\* The application and the timeout cancel the same invocation.
CONSTANTS
  Request = {r1}
  None = None
  RetryIntervals <- DefaultIntervals
  Calls = {"cancel", "timeout"}
  MaxHandlers = 1
  MaxFaults = 0
SPECIFICATION Spec
\* every invocation may have completed
CHECK_DEADLOCK FALSE
INVARIANTS
  ConnectionNotNull
