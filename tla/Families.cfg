SPECIFICATION FamiliesSpec
CONSTANTS
    NoHash = NoHash
    NoFile = NoFile
    MaxNode = 4
    Path <- MCPath
    Loc = {"archive", "exports"}
    LocOf <- MCLocOf
    Content <- MCPath
    FastHash <- MCPath
    FastOf <- MCSelf
    BytesOf <- MCSelf
    InitNodes <- MCInitNodes
    InitDisk <- MCInitDisk
    Tier3 = {}
    FullHashPolicy = "never"
    MaxMishap = 1
    EdgeKey <- MCEdgeKey
    Certain = 100
    Floor = 50
    AcceptAt <- MCAcceptAt
    ManualKey = {}
    InitEdges <- MCInitEdges
    About <- MCAbout
    Hamming <- MCHamming
    Together <- MCTogether
    Kinds = {"FULL_SCAN", "INCREMENTAL"}
    ScanBatch = 2
INVARIANTS NamesKeepRoles ScanLeavesNoneBehind ResolvedAgain
