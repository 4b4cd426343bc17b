\* Two handshakes, two resets; the daemon may end, so it may deadlock.
SPECIFICATION HandshakeSpec
CONSTANTS
    TS = TS
    P2P = P2P
    Transports <- MCTransports
    Relay = TS
    None = None
    MaxAttempts = 2
    MaxShakes = 2
    MaxResets = 2
CHECK_DEADLOCK FALSE
INVARIANTS
    SlotHasTimer
    RefusedOnlyWhenDisturbed
    ChannelOfItsConnection
    VerifiedHasChannel
