\* Two contracts, one of them without business keys, and a file no contract covers.
SPECIFICATION FairSpec
CONSTANTS
    Stagers = {p1}
    Files <- MCFiles
    Contracts <- MCContracts
    ContractOf <- MCContractOf
    Keys <- MCKeys
    KeyOf <- MCKeyOf
    Keyless = {"prices_r3"}
    MaxVersion = 2
    MaxAttempts = 6
    MaxFaults = 1
    None = None
INVARIANTS
    TypeOK
    SuccessMeansLoaded
    BusinessKeysUnique
PROPERTIES
    CopiesReliably
    RegisteredIsLoaded
    QueueDrains
