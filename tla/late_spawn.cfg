CONSTANTS
  main = main
  other = other
  t1 = t1
  r1 = r1
  None = None
  Ids = {a, b}
  Sessions = {main}
  Prompts = {}
  Runs = {}
  Queries = {}
  Messages = {}
  MaxConcurrent = 1
  LimitBehavior = "Queue"
  SupportsWake = TRUE
  MaxCompleted = 2
  MaxBuffered = 1
  MaxPerChild = 1
  Offers <- NestedOffers
  Senders = {main}
  Sources = {}
  Events <- LateEvents
SYMMETRY IdSymmetry
CHECK_DEADLOCK FALSE
SPECIFICATION Spec
PROPERTIES LateSpawnRefused
