\* Three frames, room for one text frame; a closed connection stops.
SPECIFICATION FairRelaySpec
CONSTANTS
    reader = reader
    tunnel = tunnel
    Senders <- MCSenders
    Reader = reader
    Bulk <- MCBulk
    TextCap = 1
    BinaryCap = 2
    PingLimit = 1
    KernelCap = 1
    MaxFrames = 3
CHECK_DEADLOCK FALSE
INVARIANTS
    WireKeepsSenderOrder
    NothingLostWhileUp
PROPERTIES
    SendersUnwind
    DeadLinkNoticed
