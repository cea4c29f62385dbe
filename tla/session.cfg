CONSTANTS
  None = None
  w1 = w1
  m1 = m1
  m2 = m2
  i1 = i1
  r1 = r1
  Prompts = {p1, p2}
  Wakes = {w1}
  Messages = {m1, m2}
  Interjections = {i1}
  Resumes = {r1}
  MaxSteers = 1
  Scenarios <- SafetyScenarios
SYMMETRY PromptSymmetry
CHECK_DEADLOCK FALSE
SPECIFICATION Spec
INVARIANTS TypeOK RunningIsFront GateOwned SlotsBound TextsAccounted SendersHeld QueueKicked CompletedWasSeen
PROPERTIES StartsUnseen SendNowSparesPrompt
