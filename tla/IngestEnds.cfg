SPECIFICATION FairSpec
CONSTANTS
    raw = raw
    jpg = jpg
    tif = tif
    a = a
    b = b
    c = c
    NoHash = NoHash
    NoFile = NoFile
    MaxNode = 7
    Path <- MCThreePaths
    Loc = {1}
    LocOf <- MCLocOf
    Content <- MCContent
    FastHash = {1, 2}
    FastOf <- MCFastOf
    ScanKind = {"INCREMENTAL"}
    Scanned = 1
    Tier3 = {}
    FullHashPolicy = "tier3_and_collision"
    Workers = 1
    QueueCap = 1
    ResultsCap = 1
    BatchSize = 1
    InitNodes <- MCInitNodes
    InitDisk <- MCInitDisk
    Foreign <- MCVanish
    Uploads <- MCReturn
    Unreadable = {jpg}
    MaxMishap = 2
PROPERTIES ScanEnds
