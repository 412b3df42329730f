\* Two jobs that share one node of a pool and two schedulers that plan from
\* the same snapshot: late reports, late failovers and
\* the operator meet the reservation of the next job.
CONSTANTS
    Job = {j1, j2}
    Node = {n1}
    Scheduler = {s1, s2}
    None = None
    LocalJob = {j1, j2}
    Reports <- RaceReports
    PoolMode = TRUE
    ReleaseOnExit = TRUE
    RevokeConfigured = FALSE
    SharedRoot = FALSE
    ClockGoesBack = FALSE
    LeaseTtl = 1
    RenewExtension = 1
    PlannedUnreachableMax = 0
    Announcements <- NoAnnouncements
    MaxTotalDuration = 2
    PolicyGrace = 0
    SignedGrace = 0
    QueueLimit = 9
    Deadline = 9
    MaxRequeue = 1
    MaxStep = 0
    MaxSkipped = 0
    MaxTime = 2
SPECIFICATION Spec
SYMMETRY RaceSymmetry
CHECK_DEADLOCK FALSE
INVARIANTS
    LiveAttemptHoldsNode
    FencesIncrease
