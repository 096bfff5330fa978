SPECIFICATION Spec
CONSTANTS
    c1 = c1
    c2 = c2
    NoConfig = NoConfig
    NoDir = NoDir
    Clients <- TwoClients
    HasContent <- OneClient
    MaxRuns = 3
    Parallel = FALSE
    CheckMayFail = FALSE
INVARIANTS
    TypeOK
    UploadIsThere
PROPERTIES
    ImplementsPromise
    EditedSetIsKept
