SPECIFICATION Spec
CONSTANTS
    a1 = a1
    a2 = a2
    p1 = p1
    Pairing <- MCPairing
    Admin <- MCAdmin
    Grace = 2
    MaxClock = 3
    MaxKey = 3
    MaxMishap = 2
INVARIANTS
    OldKeysStop
    QRFollows
PROPERTY DeviceCatchesUp
CHECK_DEADLOCK FALSE
