SPECIFICATION Spec
CONSTANTS
    c1 = c1
    c2 = c2
    NoConfig = NoConfig
    NoDir = NoDir
    Clients <- TwoClients
    HasContent <- OneClient
    MaxRuns = 2
    Parallel = TRUE
    CheckMayFail = TRUE
PROPERTIES
    EditedSetIsKept
