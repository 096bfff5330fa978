SPECIFICATION Spec
CONSTANTS
    Hosts = {h1, h2}
    Tries = 2
    MaxRuns = 2
INVARIANTS
    TypeOK
    SetupIsComplete
PROPERTIES
    AclAfterPlugin
    SetupEnds
    SetupIsBounded
