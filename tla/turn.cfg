CONSTANTS
  main = main
  other = other
  t1 = t1
  r1 = r1
  None = None
  Ids = {a, b}
  Sessions = {main}
  Prompts = {t1}
  Runs = {r1}
  Queries = {q1}
  Messages = {}
  MaxConcurrent = 2
  LimitBehavior = "Fail"
  SupportsWake = TRUE
  MaxCompleted = 2
  MaxBuffered = 1
  MaxPerChild = 1
  Offers <- TurnOffers
  Senders <- TurnSenders
  Sources = {}
  Events <- TurnEvents
SYMMETRY IdSymmetry
CHECK_DEADLOCK FALSE
SPECIFICATION Spec
INVARIANTS OneHome CallersAccounted DrainsJustified DrainHoldsAdmission
