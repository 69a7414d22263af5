\* A session that has run a test logs out.
CONSTANTS
    Sessions = {s1}
    Invites = {i1}
    Tests = {t1}
    Requests = {r1}
    None = None
    MaxTests = 1
    Cooldown = 1
    Window = 2
    Lifetime = 2
    Retention = 2
    LastTick = 1
SPECIFICATION Spec
CHECK_DEADLOCK FALSE
INVARIANT
    LogoutEnds
