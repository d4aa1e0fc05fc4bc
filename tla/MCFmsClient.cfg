CONSTANTS
    p1 = p1
    w1 = w1
    w2 = w2
    PROD = PROD
    Nobody = Nobody
    Processes = {p1}
    Workers = {w1, w2}
    ProcessOf <- OneProcess
    EnvOf <- OneEnv
    Roots = {"TP_export"}
    Configured = {PROD}
    Interval = 1
    Window = 1
    Lifetime = 2
    Margin = 1
    MaxAttempts = 2
    Leap = 1
    MaxSteps = 1
    MaxJobs = 2
    MaxLapses = 1
SPECIFICATION FairSpec
INVARIANTS
    TypeOK
    RateBounded
    GivesUpOnlyWhenUnlucky
    CountersTellTruth
PROPERTIES
    RunsEnd
