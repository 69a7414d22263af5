\* Two connections of a node, a loss and a server crash, a route request underway.
CONSTANTS
    Conns = {c1, c2}
    None = None
    Requests = {r1}
    Gone = Gone
    ChanCap = 1
    MaxCuts = 1
    MaxCrashes = 1
SPECIFICATION FairSpec
INVARIANTS
    RegistryNamesHandler
    AloneIsRegistered
PROPERTIES
    TlsFromThisConnection
    EventuallyOnline
    EventuallyTlsReady
