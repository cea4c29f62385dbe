CONSTANTS
  main = main
  other = other
  t1 = t1
  r1 = r1
  None = None
  Ids = {a, b}
  Sessions = {main}
  Prompts = {}
  Runs = {}
  Queries = {}
  Messages = {1}
  MaxConcurrent = 2
  LimitBehavior = "Fail"
  SupportsWake = TRUE
  MaxCompleted = 3
  MaxBuffered = 2
  MaxPerChild = 1
  Offers <- NestedOffers
  Senders = {main}
  Sources = {"Agent"}
  Events = {"Publish"}
SYMMETRY IdSymmetry
CHECK_DEADLOCK FALSE
SPECIFICATION Spec
INVARIANTS BufferHasReader
