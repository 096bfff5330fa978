SPECIFICATION Spec
CONSTANTS
    Nodes = {n1, n2, n3}
    NameNodes = {n1, n2}
    Desired = n1
    None = None
    Commands = {"start", "takeover"}
    Found <- FoundAfterAnything
INVARIANTS
    TypeOK
    QuorumKept
    DesiredActive
    TakenOver
    NobodyStuck
PROPERTIES
    CommandEnds
CHECK_DEADLOCK FALSE
