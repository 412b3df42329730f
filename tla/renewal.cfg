SPECIFICATION Spec
CONSTANTS
    Extension = 5
    Total = 8
    Margin = 1
    Interval = 1
    IoTimeout = 1
    PolicyGrace = 1
    SignedGrace = 1
    PlannedMax = 0
    Lags <- SmallAndLargeLag
    Lengths <- NoLengths
    MaxTime = 10
    MaxLost = 2
    MaxFails = 1
    MaxOwner = 2
    None = None
CHECK_DEADLOCK FALSE
INVARIANTS
    NoOverlap
    StoppedForCause
    RefusedIsStopped
