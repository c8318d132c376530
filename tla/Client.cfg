\* Invocations with a cancellation and the destruction of the communicator, batches, shared connections, the locator cache.
CONSTANTS
  Invoker = {r1, r2}
  NoRequest = NoRequest
  Request = {"r1", "r2", "r3"}
  Endpoint = {"e1", "e2", "e3"}
  Connector = {"c1", "c2", "c3"}
  Endpoints <- RequestEndpoints
  Connectors <- EndpointConnectors
  Failures = {"other", "timeout"}
SYMMETRY Symmetry
SPECIFICATION Suite
\* every call may have ended
CHECK_DEADLOCK FALSE
INVARIANTS
  HeldOnce
  DestroyedQuiet
  BatchesExact
  OneConnection
  FailsOnlyMoved
