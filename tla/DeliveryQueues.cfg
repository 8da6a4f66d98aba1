SPECIFICATION FairSpec
CONSTANTS
    Hooks = {d1}
    Mails = {m1}
    Server = server
    Processes = {server, worker}
    Kick = kick
    MaxRows = 1
    MaxAttempts = 2
    MaxLapses = 2
    MaxPeriods = 1
    MaxCrashes = 1
    None = None
INVARIANTS
    OneDrainerPerLease RepeatsAreBounded NothingIsGivenUpEarly DigestsAreQueued
PROPERTIES
    FinishedIsFinal RowsAreSettled
CHECK_DEADLOCK FALSE
