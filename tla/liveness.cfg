CONSTANTS
  main = main
  other = other
  t1 = t1
  r1 = r1
  None = None
  Ids = {a, b}
  Sessions = {main}
  Prompts = {}
  Runs = {}
  Queries = {}
  Messages = {1}
  MaxConcurrent = 1
  LimitBehavior = "Queue"
  SupportsWake = TRUE
  MaxCompleted = 1
  MaxBuffered = 1
  MaxPerChild = 1
  Offers <- WakeOffers
  Senders = {main}
  Sources = {"Agent"}
  Events <- WakeEvents
CHECK_DEADLOCK FALSE
SPECIFICATION FairSpec
PROPERTIES QueueDrains SendersAnswered
