SPECIFICATION Spec
CONSTANTS
    Patches = {p1}
    Pages = {g1}
    Actions = {a1}
    OfPeople = {p1}
    Drafts = c0
    People = {u1, u2}
    Handlers = {h1, h2}
    MaxDecisions = 3
    MaxEdits = 1
    MaxCrashes = 1
    None = None
INVARIANTS
    OncePerApproval StatusFollowsLog ActionsAreSettledOnce
PROPERTIES
    ImplementsGate
SYMMETRY HandlerSymmetry
CHECK_DEADLOCK FALSE
