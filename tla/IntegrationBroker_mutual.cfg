CONSTANTS
  a = a
  b = b
  p = p
  x = x
  y = y
  Contexts = {a, b}
  Types = {x, y}
  Wants <- MutualWants
  Emits <- MutualEmits
  MaxPosts = 2
  MaxFaults = 0
  MaxRetries = 0
SPECIFICATION FairSpec
PROPERTIES EventsCross
CHECK_DEADLOCK FALSE
