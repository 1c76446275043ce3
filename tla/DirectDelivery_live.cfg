SPECIFICATION FairSpec
CONSTANTS
  agent = agent
  other = other
  NumMsgs = 2
  Targets = {agent, other}
  TargetOf <- OneEach
  Agents = {agent}
  PageSize = 2
  Slots = 1
  Callers = {1}
  MaxAttempts = 1
  MaxOthers = 1
  MaxFaults = 1
PROPERTIES StoredIsDelivered CallerIsAnswered CloseSettles
CHECK_DEADLOCK FALSE
