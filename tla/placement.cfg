SPECIFICATION Spec
CONSTANTS
    None = None
    Refused = Refused
    BlankIds = {0}
    PaddedIds = {3}
    MaxSum = 1
    Unset = Unset
    Nil = Nil
    NoRow = NoRow
    Nodes = {1}
    Devices = {d1, d2}
    MaxIssued = 2
    MaxEpoch = 1
    MaxAttempts = 1
    Reporters = {1, 2}
    Targets = {3, 4}
    ReporterDevices = {d1, d2}
    Coordinators = {c1, c2}
    MaxObserved = 3
    MaxRowsPerDevice = 2
    Absent = Absent
    AttemptFacts <- MCAttemptFacts
    EvidenceNodes = {1, 2}
    Checkpoints = {1}
    Digests = {1, 2}
    AckInstants = {1}
    Contents = {1, 2}
    Said <- MCSaid
    Untaken = Untaken
    SubmittedJobs = {1, 2}
    Submitters = {1, 2}
    SubmissionKeys = {1, 2}
    ManifestContents = {1, 2}
    Signatures = {1, 2}
    Terms = {1}
    InvNodes = {1, 2}
    Registrations <- MCRegistrations
    Declarations <- MCDeclarations
    Observations <- MCObservations
    ObservationMaxAge = 1
    HelloSkew = 1
    MaxNow = 2
    MaxRevision = 1
    PoolNodes = {1}
    PoolJobs = {1, 2}
    Manifest <- MCManifest
    Submitter = "alice"
    NodeFacts <- MCNodeFacts
    Offers <- MCOffers
    SilentAfter = 1
    MaxSnapshotAge = 1
    AxisOrder <- MCAxisOrder
    MaxLife = 1
    MaxOffers = 2
    MaxElapsed = 1
    GpuQuestions <- MCGpuQuestions
    ReassignmentQuestions <- MCReassignmentQuestions
    ReassignmentPolicy <- MCReassignmentPolicy
    PairingQuestions <- MCPairingQuestions
INVARIANTS
    KernelsAgree
    QuorumIsReal
    ObservationsNeverGoBack
    ContradictedNodeExcluded
PROPERTIES
    PairingFound
    StagedOnFreshFacts
    QueuedJobsSettle
