\* A sender between its two reads of the channel.
SPECIFICATION HandshakeSpec
CONSTANTS
    TS = TS
    P2P = P2P
    Transports <- MCTransports
    Relay = TS
    None = None
    MaxAttempts = 2
    MaxShakes = 1
    MaxResets = 1
CHECK_DEADLOCK FALSE
INVARIANTS
    WrapFindsChannel
