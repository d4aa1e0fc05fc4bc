SPECIFICATION Spec
CONSTANTS
    Stagers = {p1, p2}
    Files <- MCOne
    Contracts = {"load_r3"}
    ContractOf <- MCOneContractOf
    Keys <- MCKeys
    KeyOf <- MCOneKeyOf
    Keyless = {}
    MaxVersion = 2
    MaxAttempts = 4
    MaxFaults = 1
    None = None
PROPERTIES
    RowsNeverRegress
    CopiesReliably
\* The bound on attempts stops both processes.
CHECK_DEADLOCK FALSE
