SPECIFICATION WsFairSpec
CHECK_DEADLOCK FALSE
CONSTANTS
    HeadSubBuffer = 1
    MaxSubs = 2
    SocketRoom = 1
    MaxRequests = 2
INVARIANTS
    ResponseBeforePush
    OnlyTheSlowAreClosed
    NothingLeft
PROPERTIES
    WritesEnd
    ConnectionEnds
    SlowIsTold
