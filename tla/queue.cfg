CONSTANTS
  main = main
  other = other
  t1 = t1
  r1 = r1
  None = None
  Ids = {a, b, c}
  Sessions = {main, other}
  Prompts = {t1}
  Runs = {}
  Queries = {}
  Messages = {}
  MaxConcurrent = 1
  LimitBehavior = "Queue"
  SupportsWake = TRUE
  MaxCompleted = 2
  MaxBuffered = 2
  MaxPerChild = 1
  Offers <- QueueOffers
  Senders = {main}
  Sources = {}
  Events <- QueueEvents
SYMMETRY IdSymmetry
CHECK_DEADLOCK FALSE
SPECIFICATION Spec
INVARIANTS ConcurrencyLimited QueuedMeansFull
PROPERTIES StartsInArrivalOrder StopHolds
