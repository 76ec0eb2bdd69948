SPECIFICATION Spec
CONSTANTS
    c1 = c1
    c2 = c2
    b1 = b1
    b2 = b2
    User <- MCUser
    Client <- MCClient
    Boot <- MCBoot
    Mixes <- MCMixes
    Idle = 2
    Absolute = 3
    TouchEvery = 1
    TokenTTL = 2
    PendingTTL = 1
    ResetSlots = 1
    Drift = 1
    MaxMade = 4
    MaxPat = 3
    MaxFast = 2
    FastWindow = 2
    CoolOffFast = 1
    MaxSlow = 3
    SlowWindow = 3
    CoolOffSlow = 1
SYMMETRY Symmetry
INVARIANTS
    PasswordEndsSessions
    CodesSpendOnce
    CodesMatch
    BurstBounded
    BootstrapTrue
PROPERTY LastAdminStays
CHECK_DEADLOCK FALSE
