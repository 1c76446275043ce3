SPECIFICATION RegistrySpec
CONSTANTS
  p1 = p1
  p2 = p2
  p3 = p3
  h1 = h1
  h2 = h2
  None = None
  Nodes = {1, 2}
  Clients = {p1, p2}
  NodeOf <- Swept
  Handles = {h1, h2}
  HandleOf <- Shared
  Calls <- SweptCalls
  Term = 1
  Skew = 0
  Batch = 2
  PageSize = 1
  MaxTime = 3
INVARIANTS CallsJoined
CHECK_DEADLOCK FALSE
