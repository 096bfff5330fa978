SPECIFICATION Spec
CONSTANTS
    Nodes = {n1, n2, n3}
    NameNodes = {n1, n2}
    Desired = n1
    None = None
    Commands = {"takeover"}
    Found <- FoundByFirstTakeover
PROPERTIES
    ZkfcComesBack
CHECK_DEADLOCK FALSE
