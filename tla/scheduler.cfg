SPECIFICATION Spec
CONSTANTS
    t1 = t1
    t2 = t2
    Tasks <- MCTasks
    Prompts = {p1, p2}
    MaxTasks = 2
    FreshEvery = 2
    MaxRevision = 2
    MaxRuns = 3
    MaxWrites = 2
    Scenarios <- MCScenarios
SYMMETRY PromptSymmetry
INVARIANTS
    ReservationFresh
    TombstonedStaysGone
    IterationsSound
CHECK_DEADLOCK FALSE
