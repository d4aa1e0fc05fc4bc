SPECIFICATION FairSpec
CONSTANTS
    Syncers = {s1}
    Files <- MCFiles
    Folders <- MCFolders
    FolderOf <- MCFolderOf
    Wanted <- MCAllWanted
    TmpNames <- MCTmpNames
    TmpNameOf <- MCTmpNameOf
    NoFileId = {}
    Unstamped = {"c"}
    MaxVersion = 2
    MaxFaults = 2
    None = None
    Part = Part
INVARIANTS
    TypeOK
    RegistryTellsTruth
    CleanRunIsComplete
PROPERTIES
    MirrorsReliably
    HealthyFoldersConverge
