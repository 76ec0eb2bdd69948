SPECIFICATION Spec
CONSTANTS
    raw = raw
    jpg = jpg
    tif = tif
    a = a
    b = b
    c = c
    NoHash = NoHash
    NoFile = NoFile
    MaxNode = 5
    Path <- MCPath
    Loc = {1}
    LocOf <- MCLocOf
    Content <- MCContent
    FastHash = {1, 2}
    FastOf <- MCFastOf
    ScanKind = {"FULL_SCAN", "INCREMENTAL"}
    Scanned = 1
    Tier3 = {}
    FullHashPolicy = "tier3_and_collision"
    Workers = 1
    QueueCap = 1
    ResultsCap = 1
    BatchSize = 2
    InitNodes <- MCInitNodes
    InitDisk <- MCInitDisk
    Foreign <- MCForeign
    Uploads <- MCUploads
    Unreadable = {jpg}
    MaxMishap = 1
INVARIANT ScanHasJob
PROPERTIES SweepSparesFiles CompletedScanAgrees
