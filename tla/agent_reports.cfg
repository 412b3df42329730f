SPECIFICATION FairSpec
CONSTANTS
    c1 = c1
    c2 = c2
    h1 = h1
    None = None
    Attempt <- MCContainerAndHost
    OnHost <- MCHost
    RunLedger = TRUE
    MaxRetry = 0
    MaxDeaths = 1
INVARIANTS
    EndsToldTruly
PROPERTIES
    ReportsArrive
