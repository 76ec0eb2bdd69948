SPECIFICATION FairSpec
CONSTANTS
    m1 = m1
    m2 = m2
    x1 = x1
    x2 = x2
    u1 = u1
    u2 = u2
    a = a
    b = b
    part = part
    NoHash = NoHash
    NoFile = NoFile
    NoPath = NoPath
    MaxNode = 4
    Path <- MCPath
    Loc = {"archive", "exports"}
    LocOf <- MCLocOf
    Content <- MCContent
    FastHash = {1, 2}
    FastOf <- MCFastOf
    InitNodes <- MCInitNodes
    InitDisk <- MCInitDisk
    Tier3 = {"archive"}
    FullHashPolicy = "tier3_and_collision"
    MaxMishap = 2
    Uploader = {u1, u2}
    Sent <- MCSent
    Asked <- MCAsked
    Suffixed <- MCSuffixed
    ExportOf <- MCExportOf
    Part = part
    Watched = {x1, x2}
    Folder = folder
    InFolder = {x2}
    WatchCap = 1
    Foreign <- MCForeign
    Mixes <- MCMixes
INVARIANTS AckedContentKept NoOrphans EventsSettle
CHECK_DEADLOCK FALSE
PROPERTIES EventsHandled
