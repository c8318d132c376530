\* Thread pools, object adapters and collocated calls.
CONSTANTS
  Thread = {t1, t2, t3}
  Handler = {h1, h2}
  Size = 2
  SizeMax = 3
  SizeIO = 2
  Serialize = TRUE
  ThreadIdleTime = FALSE
  ServerIdleTime = FALSE
  Arrivals = 2
  Executes = 0
SYMMETRY Symmetry
SPECIFICATION Suite
\* the threads of a pool end, and those of the application have made their calls
CHECK_DEADLOCK FALSE
INVARIANTS
  PoolSafe
  ReadersApart
  ConnectionsFollow
  AdapterLife
  CallsCounted
