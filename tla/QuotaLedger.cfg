\* Two tests' grants, two handlers, one slot: midnight, crash, failed writes, and slots
\* that come back.
CONSTANTS
    g1 = g1
    g2 = g2
    t1 = t1
    t2 = t2
    NoGrant = NoGrant
    NoTest = NoTest
    Grants = {g1, g2}
    Tests = {t1, t2}
    TestOf <- OneWithoutTest
    Handlers = {h1, h2}
    MaxDown = 1
    MaxUp = 0
    MaxStreams = 1
    Limit = 2
    MaxActive = 1
    LastDay = 2
SPECIFICATION FairSpec
CHECK_DEADLOCK FALSE
INVARIANTS
    ConcurrencyWithinDay
    StreamsExact
    GrantCapsWhileKnown
    ChargedIsAdmitted
PROPERTIES
    ImplementsDailyQuota
    SlotsComeBack
