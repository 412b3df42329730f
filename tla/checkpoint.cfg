SPECIFICATION FairSpec
CONSTANTS
    Run <- MCRun
    Step <- MCStep
    File = {1, 2}
    MaxVersion = 1
    Artifacts <- MCArtifacts
    FinalTries = 2
    MaxFolders = 2
    MaxFaults = 1
    MaxDeaths = 1
    None = None
CHECK_DEADLOCK FALSE
INVARIANTS
    SignedIsWhole
    ResumesFromOneFolder
    CollectionKeepsResults
PROPERTIES
    StepsArrive
