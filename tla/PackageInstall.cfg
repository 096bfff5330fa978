SPECIFICATION Spec
CONSTANTS
    built = built
    short = short
    wild = wild
    other = other
    p1 = p1
    p2 = p2
    None = None
    Versions <- MCVersions
    Wild = {wild}
    Built = {built, other}
    Packages = {p1, p2}
    Available <- MCAvailable
    Commands <- MCCommands
    MaxRuns = 2
INVARIANTS
    TypeOK
    AllInstalled
    OneStackVersion
    NoWildVersion
    UnmatchedVersionIsTruth
    OnlyWanted
