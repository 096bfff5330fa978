SPECIFICATION Spec
CONSTANTS
    Nodes = {n1, n2, n3}
    NameNodes = {n1, n2}
    Desired = n1
    None = None
    Commands = {"start"}
    Found <- FoundByColdStart
PROPERTIES
    DesiredEnsured
CHECK_DEADLOCK FALSE
