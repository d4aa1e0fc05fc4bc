\* One environment, a day-by-day folder, a flat folder, a file in the root.
CONSTANTS
    A = A
    ADay = ADay
    B = B
    R = R
    a = a
    b1 = b1
    b2 = b2
    b3 = b3
    r = r
    std = std
    None = None
    Folders = {A, B, R}
    RootFiles = {R}
    Paths = {A, ADay, B, R}
    Files = {a, b1, b2, r}
    Under <- UnderAll
    DirOf <- DirAll
    LogOf <- LogAll
    FolderIn <- FolderAll
    LeafOf <- DirAll
    NameIn <- NameAll
    Initial <- InitialAll
    Start = 3
    Threshold = 2
    MaxTime = 5
    MaxFaults = 1
SPECIFICATION FairSpec
INVARIANTS
    TypeOK
    QuietRunsComplete
    CrawledMeansListed
PROPERTIES
    CatalogueMovesForward
    EveryFolderCrawled
