CONSTANTS
    Clients = {u, g}
    Guests = {g}
    Blocks = {b1, b2}
    Seed = {b1}
    Blocked = {}
    MaxBody = 2
    MaxClients = 2
    CompactAfter = 1
    MaxRoom = 5
    MaxStops = 2
    None = None
SPECIFICATION Spec
INVARIANTS
    RightsAreCurrent
    NothingLost
    RowMatchesRoom
    BaseIsSource
    CleanIsPublished
    PendingIsBounded
