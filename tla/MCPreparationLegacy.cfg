\* A checklist that enables a legacy folder, prepared and landed without a fault.
CONSTANTS
    IOP = IOP
    PROD = PROD
    Load = Load
    Other = Other
    a = a
    b = b
    x = x
    std = std
    R1 = R1
    R2 = R2
    R3 = R3
    LegacyRoot = LegacyRoot
    NoGroup = NoGroup
    Anywhere = Anywhere
    NoName = NoName
    Missing = Missing
    Prepare = Prepare
    Scan = Scan
    Envs = {IOP, PROD}
    Exports = {a, b}
    Legacy = {x}
    Domains = {Load, Other}
    Fallback = Other
    Patterned <- NoPatterns
    Within <- EachAlone
    EnvOrder <- Environments
    GroupOrder <- GroupsInOrder
    Rules <- OneRule
    FirstRules <- Before
    Templates <- Everything
    Names = {std}
    FirstFiles <- Ready
    FirstLibrary <- Both
    Scans <- TwoScans
    Cuts <- AllButLast
    MaxFaults = 0
    MaxChanges = 0
SPECIFICATION Spec
INVARIANTS
    EnabledLegacyLand
