SPECIFICATION Spec
CONSTANTS
    v1 = v1
    v2 = v2
    NoVersion = NoVersion
    NoTask = NoTask
    Versions <- MCVersions
    Commands <- DaemonCommands
    MaxRuns = 2
INVARIANTS
    EveryStopIsWaitedFor
