\* Two clients, one sign-in at a time and two rotations at once, over three windows of
\* the clock.
CONSTANTS
    Clients = {c1, c2}
    Requests = {r1}
    Admins = {a1, a2}
    Maximum = 2
    Window = 3
    Grace = 1
    PruneAbove = 1
    None = None
    LastTick = 7
    MaxGeneration = 2
    MaxSessions = 1
SPECIFICATION Spec
SYMMETRY Symmetry
CHECK_DEADLOCK FALSE
INVARIANTS
    GuessesBounded
    RefusedForCause
    AcceptedIfDisplayed
    RevokedIsRefused
