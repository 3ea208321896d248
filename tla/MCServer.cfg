SPECIFICATION FairSpec
CHECK_DEADLOCK FALSE
CONSTANTS
    c1 = c1
    c2 = c2
    Conns <- MCConns
INVARIANTS
    UnaskedIsFailure
PROPERTIES
    SignalEndsProcess
