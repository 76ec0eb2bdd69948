SPECIFICATION Spec
CONSTANTS
    raw = raw
    jpg = jpg
    tif = tif
    a = a
    b = b
    c = c
    NoHash = NoHash
    NoFile = NoFile
    MaxNode = 6
    Path <- MCThreePaths
    Loc = {1}
    LocOf <- MCLocOf
    Content <- MCContent
    FastHash = {1, 2}
    FastOf <- MCFastOf
    ScanKind = {"FULL_SCAN"}
    Scanned = 1
    Tier3 = {}
    FullHashPolicy = "tier3_and_collision"
    Workers = 1
    QueueCap = 1
    ResultsCap = 1
    BatchSize = 2
    InitNodes <- MCMissingNodes
    InitDisk <- MCFreeDisk
    Foreign = {}
    Uploads <- MCUploads
    Unreadable = {}
    MaxMishap = 1
INVARIANT NoPoisonedBatch
