CONSTANTS
  NumShards = 2
  Concurrency = 1
  PendingLimit = 1
  MaxPosts = 3
  MaxFaults = 1
  Outcomes = {"drained", "failed", "skipped"}
SPECIFICATION FairSpec
INVARIANTS WorkConserving NoEarlyRetry RecoveryAlive ClosedIsQuiet
PROPERTIES WorkRuns CloseSettles
CHECK_DEADLOCK FALSE
