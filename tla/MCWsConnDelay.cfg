SPECIFICATION WsFairSpec
CHECK_DEADLOCK FALSE
CONSTANTS
    HeadSubBuffer = 1
    MaxSubs = 1
    SocketRoom = 1
    MaxRequests = 3
PROPERTIES DelayEndsWithConnection
