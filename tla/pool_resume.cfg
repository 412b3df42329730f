\* One job of a pool that is preempted and fails over, two checkpoints an
\* attempt, and a shared store in which any one of them may be unusable
\* while a resume point is searched.
CONSTANTS
    Job = {j1}
    Node = {n1, n2}
    Scheduler = {s1}
    None = None
    LocalJob = {j1}
    Reports <- PreemptReports
    PoolMode = TRUE
    ReleaseOnExit = TRUE
    RevokeConfigured = FALSE
    SharedRoot = TRUE
    ClockGoesBack = FALSE
    LeaseTtl = 1
    RenewExtension = 1
    PlannedUnreachableMax = 0
    Announcements <- NoAnnouncements
    MaxTotalDuration = 2
    PolicyGrace = 0
    SignedGrace = 0
    QueueLimit = 9
    Deadline = 9
    MaxRequeue = 2
    MaxStep = 2
    MaxSkipped = 1
    MaxTime = 2
SPECIFICATION Spec
SYMMETRY NodeSymmetry
CHECK_DEADLOCK FALSE
PROPERTIES
    ResumeNeverRegresses
