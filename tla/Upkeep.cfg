SPECIFICATION FairSpec
CONSTANTS
    raw = raw
    copy = copy
    proxy = proxy
    a = a
    b = b
    t = t
    x = x
    i1 = i1
    i2 = i2
    NoHash = NoHash
    NoFile = NoFile
    MaxNode = 4
    Path <- MCPath
    Loc = {"archive", "cache"}
    LocOf <- MCLocOf
    Content <- MCContent
    FastHash = {1, 2, 3}
    FastOf <- MCFastOf
    InitNodes <- MCInitNodes
    InitDisk <- MCInitDisk
    Tier3 = {"archive"}
    FullHashPolicy = "tier3_and_collision"
    MaxMishap = 3
    EdgeKey <- MCEdgeKey
    Certain = 2
    Floor = 1
    AcceptAt <- MCAcceptAt
    ManualKey = {}
    InitEdges <- MCInitEdges
    Prunable = {"cache"}
    Aged = {x, b}
    NotCached = {}
    RehashBatch = 1
    Unsupported = {a, b}
    MaxThumbTries = 2
    ThumbBatch = 2
    Tier0 = {}
    Inheritor = {i1, i2}
    AutoInherit = {i2}
    TierOf <- MCTierOf
    Tagged <- MCTagged
    ReadOnly = {"archive"}
    Duties <- MCDuties
    Foreign <- MCForeign
    Owned = {1}
PROPERTIES PurgeLeavesMaster InheritKeepsIdentity UpkeepSettles
CHECK_DEADLOCK FALSE
