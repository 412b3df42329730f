\* Outside a pool: the ACK moves the job, nodes run without a receipt, no
\* release on exit, configured revocations, reports of older nodes, announced
\* disconnections, and a wall clock that may be set back at any time.
CONSTANTS
    Job = {j1}
    Node = {n1, n2}
    Scheduler = {s1}
    None = None
    LocalJob = {}
    Reports <- LegacyReports
    PoolMode = FALSE
    ReleaseOnExit = FALSE
    RevokeConfigured = TRUE
    SharedRoot = TRUE
    ClockGoesBack = TRUE
    LeaseTtl = 1
    RenewExtension = 1
    PlannedUnreachableMax = 2
    Announcements <- OneAnnouncement
    MaxTotalDuration = 2
    PolicyGrace = 0
    SignedGrace = 0
    QueueLimit = 1
    Deadline = 2
    MaxRequeue = 1
    MaxStep = 1
    MaxSkipped = 0
    MaxTime = 2
SPECIFICATION Spec
SYMMETRY NodeSymmetry
CHECK_DEADLOCK FALSE
PROPERTIES
    KeepsContract
    RevokedStaysRevoked
