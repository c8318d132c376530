\* The connection is closed while a thread writes a request.
CONSTANTS
  Thread = {t1, t2}
  None = None
  MaxSize = 2
  Events = {"destroy"}
  MaxCalls = 1
SPECIFICATION Spec
\* the threads have made their calls
CHECK_DEADLOCK FALSE
INVARIANTS
  StreamOwned
