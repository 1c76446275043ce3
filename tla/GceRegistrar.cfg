SPECIFICATION SuccessionSpec
CONSTANTS
  p1 = p1
  p2 = p2
  p3 = p3
  None = None
  Nodes = {1, 2}
  Clients = {p1, p2, p3}
  NodeOf <- TwoNodes
  Handles = {p1, p2, p3}
  HandleOf <- OwnHandles
  Calls <- NoCalls
  Term = 1
  Skew = 0
  Batch = 2
  PageSize = 1
  MaxTime = 1
  Derived = {p1}
  Mortal = {p1, p3}
  MaxFaults = 1
INVARIANTS ClosedLeavesNoRow ConfirmedIsListed
PROPERTIES ExpiredIsReclaimed LivingIsListed
CHECK_DEADLOCK FALSE
