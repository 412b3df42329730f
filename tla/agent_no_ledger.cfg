SPECIFICATION Spec
CONSTANTS
    c1 = c1
    c2 = c2
    h1 = h1
    None = None
    Attempt <- MCContainerAndHost
    OnHost <- MCHost
    RunLedger = FALSE
    MaxRetry = 1
    MaxDeaths = 2
INVARIANTS
    RunsOnce
