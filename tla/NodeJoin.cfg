\* Two hosts, two tokens, three attempts to join, two failures.
CONSTANTS
    Agents = {a1, a2}
    Tokens = {t1, t2}
    Keys = {k1, k2, k3}
    Null = Null
    MaxFaults = 2
SPECIFICATION FairJoinSpec
CHECK_DEADLOCK FALSE
INVARIANTS
    TokenRegistersOnce
    SavedKeyStaysRegistered
PROPERTIES
    SpentTokenJoins
    TokensAreOneTime
