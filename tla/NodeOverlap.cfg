\* Two connections of a node: the older handler leaves after the newer registered.
CONSTANTS
    Conns = {c1, c2}
    None = None
    Requests = {r1}
    Gone = Gone
    ChanCap = 1
    MaxCuts = 1
    MaxCrashes = 0
SPECIFICATION Spec
INVARIANT
    ConnectedIsRoutable
