SPECIFICATION FairSpec
CONSTANTS
    v1 = v1
    v2 = v2
    NoVersion = NoVersion
    NoTask = NoTask
    Versions <- MCVersions
    Commands <- AllCommands
    MaxRuns = 2
INVARIANTS
    TypeOK
    NoCarriedReport
    VersionIsInstalled
    StatusIsFresh
    UpgradeReported
    StopIsWaitedFor
    RestartOnStopped
    ReportIsCurrent
PROPERTIES
    UpgradeKept
    ProcessEnds
