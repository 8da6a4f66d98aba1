CONSTANTS
    Clients = {u}
    Guests = {}
    Blocks = {b1, b2, b3}
    Seed = {b1}
    Blocked = {}
    MaxBody = 3
    MaxClients = 1
    CompactAfter = 3
    MaxRoom = 6
    MaxStops = 0
    None = None
SPECIFICATION ImportSpec
INVARIANT NothingLost
