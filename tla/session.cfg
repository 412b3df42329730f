SPECIFICATION Spec
CONSTANTS
    Nothing = Nothing
    Scenes <- MCScenes
    Far = 99999999
    SafetyMargin = 10
    TimeStep = 10
    MaxTime = 31
    MaxBreaks = 1
    Envelopes <- MCEnvelopes
    HelloDomain = "hello"
    SkewTolerance = 1
    MaxMessageTtl = 3
    GcAdvance = 2
    GuardCapacity = 2
    SignerCapacity = 1
    MaxReading = 6
    MaxRestarts = 1
    Torn = Torn
    Absent = Absent
    Signers = {1}
    Grace = 1
    MaxKeyClock = 2
    MaxVersions = 3
    Casts <- MCCasts
    a1 = a1
    a2 = a2
    a3 = a3
    g1 = g1
    g2 = g2
    Void = Void
    Attempt <- MCAttempt
    Generation <- MCGeneration
    MaxCrash = 3
    MaxLoss = 1
INVARIANTS
    AcceptedOnce
    KeysHold
    SelftestHolds
    EpochNeverBack
    OneGeneration
    ServesWithCompleteLedger
PROPERTIES
    LedgerUseIsFinal
    InterruptedIsFinished
    SessionsEnd
CHECK_DEADLOCK FALSE
