SPECIFICATION FilesSpec
CONSTANTS
    Prods = {p1}
    t1 = t1
    t2 = t2
    d1 = d1
    d2 = d2
    d3 = d3
    m1 = m1
    m2 = m2
    Trees = {t1, t2}
    Chunks = {d1, d2, d3, m1, m2}
    DataOf <- SharedData
    MetaOf <- TwoMeta
    NoTree = NoTree
    NoOne = NoOne
    Pruner = Pruner
    PreUpdate = FALSE
    MaxRev = 3
    MaxFailures = 1
    a1 = a1  a2 = a2  a3 = a3  a4 = a4
    Bundles <- ThreePackages
    Mine = {mine, Keep}
    Keep = Keep
    Edits = 2
    Interruptions = 1
INVARIANTS SnapshotsRestorable EditsKept NothingSkipped
PROPERTIES ImplementsVault
