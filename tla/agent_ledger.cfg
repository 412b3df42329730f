SPECIFICATION Spec
CONSTANTS
    c1 = c1
    c2 = c2
    h1 = h1
    None = None
    Attempt <- MCContainers
    OnHost <- MCNone
    RunLedger = TRUE
    MaxRetry = 1
    MaxDeaths = 2
SYMMETRY Symmetry
INVARIANTS
    RunsOnce
    NoWorkBesideStray
    EveryStartAccountedFor
