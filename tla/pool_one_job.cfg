\* One job that moves between two nodes of a pool, with releases on exit,
\* a signed reassignment grace and renewals that ask for more than is left.
CONSTANTS
    Job = {j1}
    Node = {n1, n2}
    Scheduler = {s1}
    None = None
    LocalJob = {j1}
    Reports <- PoolReports
    PoolMode = TRUE
    ReleaseOnExit = TRUE
    RevokeConfigured = FALSE
    SharedRoot = TRUE
    ClockGoesBack = FALSE
    LeaseTtl = 1
    RenewExtension = 2
    PlannedUnreachableMax = 0
    Announcements <- NoAnnouncements
    MaxTotalDuration = 2
    PolicyGrace = 0
    SignedGrace = 1
    QueueLimit = 1
    Deadline = 2
    MaxRequeue = 2
    MaxStep = 1
    MaxSkipped = 0
    MaxTime = 3
SPECIFICATION Spec
SYMMETRY NodeSymmetry
CHECK_DEADLOCK FALSE
INVARIANTS
    LeaseWithinDuration
    RowsReadable
    OldAttemptsRevoked
    CompletedByLatest
PROPERTIES
    JobFollowsTable
    KeepsContract
