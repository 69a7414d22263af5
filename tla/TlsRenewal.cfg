\* Four certificates: one in service, the two halves on disk and the one obtained may
\* all differ.
CONSTANTS
    Certs = {k1, k2, k3, k4}
    None = None
SPECIFICATION FairSpec
CHECK_DEADLOCK FALSE
PROPERTIES
    ExpiredIsWithdrawn
    ValidIsServed
    ReadyAgain
