SPECIFICATION Spec
CONSTANTS
    Syncers = {s1, s2}
    Files <- MCOne
    Folders <- MCOneFolder
    FolderOf <- MCOneFolderOf
    Wanted <- MCOneWanted
    TmpNames <- MCTmpNames
    TmpNameOf <- MCOneTmpNameOf
    NoFileId = {}
    Unstamped = {}
    MaxVersion = 2
    MaxFaults = 0
    None = None
    Part = Part
INVARIANTS
    RegistryTellsTruth
