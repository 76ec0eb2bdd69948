SPECIFICATION Spec
CONSTANTS
    raw = raw
    jpg = jpg
    tif = tif
    a = a
    b = b
    c = c
    d = d
    NoHash = NoHash
    NoFile = NoFile
    MaxNode = 4
    Path <- MCPath
    Loc = {1, 2}
    LocOf <- MCLocOf
    Content <- MCContent
    FastHash = {1, 2, 3}
    FastOf <- MCFastOf
    Client = {c1}
    Kind <- MCKind
    CascadeEdges <- MCCascadeEdges
    Stamped = {raw}
    InitNodes <- MCInitNodes
    InitDisk <- MCInitDisk
    Retention = 1
    MaxTime = 2
    Foreign <- MCForeign
    MaxMishap = 1
    TxFaults = TRUE
INVARIANTS TypeOK CascadesMatch TrashClock RowsMatchDisk
PROPERTIES RestoreKeepsBytes PurgeSparesFresh
