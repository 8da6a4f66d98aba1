SPECIFICATION FairSpec
CONSTANTS
    Jobs = {j1, j2}
    Messages = {m1}
    Passes = {p1, p2}
    Budget = 1
    MaxSlots = 1
    MaxEdits = 1
    MaxFaults = 1
    None = None
INVARIANTS
    AnswersAreBounded OutcomesAreTrue BudgetHolds OneDigestPerSlot
PROPERTIES
    OverStaysOver NothingWhilePaused JobsEnd
CHECK_DEADLOCK FALSE
