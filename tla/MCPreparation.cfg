\* Two environments, a documented and an undocumented folder, a legacy one.
CONSTANTS
    IOP = IOP
    PROD = PROD
    Load = Load
    Other = Other
    a = a
    b = b
    x = x
    std = std
    R1 = R1
    R2 = R2
    R3 = R3
    LegacyRoot = LegacyRoot
    NoGroup = NoGroup
    Anywhere = Anywhere
    NoName = NoName
    Missing = Missing
    Prepare = Prepare
    Scan = Scan
    Envs = {IOP, PROD}
    Exports = {a, b}
    Legacy = {x}
    Domains = {Load, Other}
    Fallback = Other
    Patterned <- NoPatterns
    Within <- EachAlone
    EnvOrder <- Environments
    GroupOrder <- GroupsInOrder
    Rules <- EditedRules
    FirstRules <- Before
    Templates <- Everything
    Names = {std}
    FirstFiles <- Shipped
    FirstLibrary <- Both
    Scans <- TwoScans
    Cuts <- AllButLast
    MaxFaults = 1
    MaxChanges = 1
SPECIFICATION FairSpec
INVARIANTS
    TypeOK
    EnabledExportsLand
    EnvironmentsApart
    DirectoryFirst
PROPERTIES
    PathsStay
    ReportsAgree
    FullCrawlCovers
    EnabledConverge
