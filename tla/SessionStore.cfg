\* Two requests at a time of one session, four tests, a limit of two, three ticks.
CONSTANTS
    Sessions = {s1}
    Invites = {i1}
    Tests = {t1, t2, t3, t4}
    Requests = {r1, r2}
    None = None
    MaxTests = 2
    Cooldown = 1
    Window = 2
    Lifetime = 1
    Retention = 1
    LastTick = 2
SPECIFICATION Spec
CHECK_DEADLOCK FALSE
SYMMETRY Symmetry
INVARIANTS
    ReferencesHold
    RateBounded
    CooldownBounded
PROPERTY
    InvitesAreOneTime
