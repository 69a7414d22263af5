\* One client signs in and starts a test.
CONSTANTS
    Clients = {c1}
    Requests = {r1}
    Admins = {a1}
    Maximum = 1
    Window = 2
    Grace = 1
    PruneAbove = 1
    None = None
    LastTick = 3
    MaxGeneration = 0
    MaxSessions = 1
SPECIFICATION Spec
CHECK_DEADLOCK FALSE
INVARIANT
    SignedInWrites
