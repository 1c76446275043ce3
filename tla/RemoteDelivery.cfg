SPECIFICATION FairSpec
CONSTANTS
  s = s
  w1 = w1
  w2 = w2
  Nobody = Nobody
  Shard = s
  Shards = {s}
  Rows = {1, 2}
  ShardOf <- InShard
  SignalOf <- SameSignal
  Kept = {1}
  Workers = {w1, w2}
  MaxMessages = 2
  MaxShards = 1
  Timeout = 0
  Period = 1
  MaxAttempts = 1
  MaxFaults = 1
INVARIANTS NothingLost OncePerSession
PROPERTIES ImplementsOwnership PendingIsDelivered
CHECK_DEADLOCK FALSE
