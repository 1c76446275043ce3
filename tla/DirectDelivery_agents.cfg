SPECIFICATION Spec
CONSTANTS
  agent = agent
  other = other
  NumMsgs = 3
  Targets = {agent, other}
  TargetOf <- TwoAndAgent
  Agents = {agent}
  PageSize = 2
  Slots = 1
  Callers = {}
  MaxAttempts = 0
  MaxOthers = 1
  MaxFaults = 2
INVARIANTS DeferredHasWaker NoLeakedSlot AgentsWithinSession
PROPERTIES InOrderPerEntity DrainedMeansDelivered
CHECK_DEADLOCK FALSE
