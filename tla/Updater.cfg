\* Two updates one after the other, and two steps that fail or are interrupted.
CONSTANTS
    LastVersion = 3
    MaxFaults = 2
SPECIFICATION Spec
CHECK_DEADLOCK FALSE
INVARIANTS
    NothingLost
    EndsAsItSays
    NoOldOnNew
