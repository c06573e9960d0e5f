SPECIFICATION Spec
CONSTANTS
    Channels <- MCChannels
    Inbound <- MCInbound
    TlsMayFail = TRUE
    MaxFrames = 2
INVARIANTS
    TypeOK
    HandshakeInOrder
    SessionsOnlyForMedia
    ActiveIsSealed
PROPERTY
    FailedIsFinal
