CONSTANTS
  w1 = w1
  w2 = w2
  c1 = c1
  c3 = c3
  None = None
  Workers = {w1, w2}
  Clients = {c1, c3}
  WorkerOf <- MCPairs
  Closers = {w1, w2}
  Lease = 2
  MaxSkew = 1
  MaxClock = 3
  Retries = 2
SPECIFICATION FairSpec
INVARIANTS LeaseExclusion ClosedHandleUnused
PROPERTIES ImplementsLease CloseCompletes
CHECK_DEADLOCK FALSE
