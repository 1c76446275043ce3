SPECIFICATION Spec
CONSTANTS
  s1 = s1
  s2 = s2
  a = a
  b = b
  c = c
  d = d
  w1 = w1
  w2 = w2
  u1 = u1
  Nobody = Nobody
  Shards = {s1, s2}
  Rows = {a, b, c, d}
  ShardOf <- Placed
  Workers = {w1, w2}
  MaxMessages = 2
  MaxShards = 1
  Timeout = 1
  Requests <- Mutations
  Subscribers = {u1}
  MaxPending = 2
  MaxFrames = 1
  MaxClock = 2
INVARIANTS CountsMatch WithinLimits LastFrameIsCurrent
PROPERTIES ClosedCommitsNothing
CHECK_DEADLOCK FALSE
