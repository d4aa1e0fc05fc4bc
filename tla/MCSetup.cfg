SPECIFICATION FairSpec
CONSTANTS
    p1 = p1
    p2 = p2
    folders = folders
    c1 = c1
    c2 = c2
    None = None
    Processes = {p1, p2}
    Envs <- MCEnvs
    Prod = "PROD"
    EnvOrder <- MCEnvOrder
    Tables = {folders}
    FoldersTable = folders
    Columns = {c1, c2}
    FirstContract <- OneColumn
    MaxUpsets = 1
INVARIANTS
    TypeOK
    TestedIsSelected
PROPERTIES
    PassedMeansReady
    UndisturbedRunsSucceed
    SetupConverges
