CONSTANTS
  a = a
  b = b
  p = p
  x = x
  y = y
  Contexts = {a, b, p}
  Types = {x, y}
  Wants <- FanOutWants
  Emits <- FanOutEmits
  MaxPosts = 1
  MaxFaults = 1
  MaxRetries = 1
SPECIFICATION BegunSpec
INVARIANTS ExportsMatchDemand ReadyMeansDiscovered ClosedIsForgotten
CHECK_DEADLOCK FALSE
PROPERTIES EventsCross CloseSettles
