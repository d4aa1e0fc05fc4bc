\* Two flat folders, a failed listing, four publications.
CONSTANTS
    A = A
    ADay = ADay
    B = B
    R = R
    a = a
    b1 = b1
    b2 = b2
    b3 = b3
    r = r
    std = std
    None = None
    Folders = {A, B}
    RootFiles = {}
    Paths = {A, B}
    Files = {a, b1, b2, b3}
    Under <- UnderFlat
    DirOf <- FolderFlat
    LogOf <- LogAll
    FolderIn <- FolderFlat
    LeafOf <- FolderFlat
    NameIn <- NameFlat
    Initial <- InitialFlat
    Start = 1
    Threshold = 3
    MaxTime = 5
    MaxFaults = 1
SPECIFICATION Spec
PROPERTIES
    IncompleteFoldersResume
