SPECIFICATION Spec
CONSTANTS
    Syncers = {s1, s2}
    Files <- MCTwins
    Folders <- MCFolders
    FolderOf <- MCTwinFolderOf
    Wanted <- MCTwinWanted
    TmpNames <- MCTmpNames
    TmpNameOf <- MCTwinTmpNameOf
    NoFileId = {}
    Unstamped = {}
    MaxVersion = 1
    MaxFaults = 1
    None = None
    Part = Part
INVARIANTS
    RowHasObject
