SPECIFICATION Spec
CONSTANTS
    MaxDepth = 2
    DiscardAt = 5
    Slots <- MCSlots
    crc16 <- MCcrc16
    Addrs <- MCAddrs
    NoAddress = NoAddress
    REDIS_CLUSTER_SLOTS = 3
    Masters <- MCMasters
    SlaveOf <- MCSlaveOf
    Data <- MCData
    Requests <- MCRequests
    MaxRefusals = 1
INVARIANTS RouteTrue ArgumentsKept AsOnOneServer NothingLeftOver LengthsExact
