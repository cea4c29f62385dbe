CONSTANTS
  main = main
  other = other
  t1 = t1
  r1 = r1
  None = None
  Ids = {a, b}
  Sessions = {main}
  Prompts = {}
  Runs = {}
  Queries = {}
  Messages = {1, 2}
  MaxConcurrent = 1
  LimitBehavior = "Queue"
  SupportsWake = TRUE
  MaxCompleted = 1
  MaxBuffered = 1
  MaxPerChild = 1
  Offers <- WakeOffers
  Senders = {main}
  Sources = {"Agent"}
  Events <- WakeEvents
SYMMETRY IdSymmetry
CHECK_DEADLOCK FALSE
SPECIFICATION Spec
INVARIANTS TypeOK RunsAccounted AdmissionsCounted SendersAccounted ParkedSendHasStart ParkedWakeHasPublication
PROPERTIES StopHolds
