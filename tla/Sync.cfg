SPECIFICATION Spec
CONSTANTS
    off = off
    wide = wide
    narrow = narrow
    Config <- MCConfig
    Node = {1, 2}
    Under <- MCUnder
    Off = {off}
    BatchSize = 1
    Multiplier = 2
    MaxRetries = 2
    TriggerAttempts = 2
    InitConfig = wide
    MaxMishap = 2
INVARIANTS CancelStrandsNothing WorkerFollowsSettings
PROPERTIES PushesImplementQueue QueueDrains ExportsEntered
CHECK_DEADLOCK FALSE
