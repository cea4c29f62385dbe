CONSTANTS
  main = main
  other = other
  t1 = t1
  r1 = r1
  None = None
  Ids = {a, b, c}
  Sessions = {main}
  Prompts = {}
  Runs = {}
  Queries = {}
  Messages = {1}
  MaxConcurrent = 1
  LimitBehavior = "Fail"
  SupportsWake = TRUE
  MaxCompleted = 2
  MaxBuffered = 1
  MaxPerChild = 1
  Offers <- NestedOffers
  Senders = {main}
  Sources = {"Agent", "Human"}
  Events = {"Publish"}
SYMMETRY IdSymmetry
CHECK_DEADLOCK FALSE
SPECIFICATION Spec
INVARIANTS GraphMatches RetentionOrdered
PROPERTIES RecordsKept BufferPurged
