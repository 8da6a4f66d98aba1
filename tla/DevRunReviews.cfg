SPECIFICATION FairSpec
CONSTANTS
    Runs = {r1}
    Handlers = {h1, h2}
    People = {u1, u2}
    Owners = {u1}
    MaxConcurrent = 1
    MonthlyMinutes = 1
    MaxEdits = 1
    MaxCrashes = 1
    None = None
INVARIANTS
    OneDecisionPerRun OutcomesArePosted DecidedRunsMove
PROPERTIES
    ImplementsGate OverStaysOver ActiveRunsEnd
CHECK_DEADLOCK FALSE
