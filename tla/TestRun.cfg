\* Two nodes, two polls of a route of one hop, requests that may hang.
CONSTANTS
    Nodes = {n1, n2}
    Candidates = 2
    MaxPolls = 2
    MaxHops = 1
    None = None
SPECIFICATION FairSpec
CHECK_DEADLOCK FALSE
INVARIANTS
    CancelCostsOneGrant
    WholeRouteOnceEnded
    CutShortHasCause
    OnlyCancelCuts
PROPERTY
    TestEnds
