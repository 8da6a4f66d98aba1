CONSTANTS
    Clients = {u}
    Guests = {}
    Blocks = {b1, b2, b3, b4}
    Seed = {b1}
    Blocked = {b4}
    MaxBody = 3
    MaxClients = 1
    CompactAfter = 1
    MaxRoom = 6
    MaxStops = 0
    None = None
SPECIFICATION FairSpec
INVARIANTS
    NothingResurrected
PROPERTIES
    ImplementsPage
    EditsArePublished
    RevokedIsDisconnected
