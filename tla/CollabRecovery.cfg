CONSTANTS
    Clients = {u}
    Guests = {}
    Blocks = {b1, b2}
    Seed = {b1}
    Blocked = {}
    MaxBody = 2
    MaxClients = 1
    CompactAfter = 3
    MaxRoom = 6
    MaxStops = 1
    None = None
SPECIFICATION FairSpec
PROPERTY RecoveredEditsHaveAnEditor
