SPECIFICATION Spec
CONSTANTS
    Extension = 2
    Total = 12
    Margin = 1
    Interval = 1
    IoTimeout = 1
    PolicyGrace = 1
    SignedGrace = 0
    PlannedMax = 6
    Lags <- NoLag
    Lengths <- OneLength
    MaxTime = 10
    MaxLost = 3
    MaxFails = 0
    MaxOwner = 2
    None = None
CHECK_DEADLOCK FALSE
INVARIANTS
    AnnouncedLeaseKept
