SPECIFICATION FairSpec
CONSTANTS
    laptop = laptop
    phone = phone
    p1 = p1
    p2 = p2
    arch = arch
    exp = exp
    reel = reel
    a = a
    b = b
    NoHash = NoHash
    NoFile = NoFile
    NoDevice = NoDevice
    MaxNode = 5
    Path <- MCPath
    Loc = {"archive", "cache", "virtual"}
    LocOf <- MCLocOf
    Content <- MCContent
    FastHash = {0, 1, 2}
    FastOf <- MCFastOf
    NoFast = 0
    InitNodes <- MCInitNodes
    InitDisk <- MCInitDisk
    Tier3 = {"archive"}
    FullHashPolicy = "tier3_and_collision"
    MaxMishap = 1
    EdgeKey <- MCEdgeKey
    Certain = 4
    Guesses <- MCGuesses
    Floor = 1
    AcceptAt <- MCAcceptAt
    ManualKey <- MCManualKey
    InitEdges <- MCInitEdges
    Device = {laptop, phone}
    Uuid <- MCUuid
    Script <- MCScript
    Rebases <- MCRebases
    Snapshots <- MCSnapshots
    Virtual = {reel}
    OwnVirtual <- MCOwnVirtual
    MaxRetries = 2
    BatchSize = 2
    Foreign <- MCForeign
INVARIANTS StatusAgrees NoOtherCycle
PROPERTIES HumanDecides DevicesKeepOut AppliedInOrder EventsSettle

CHECK_DEADLOCK FALSE
