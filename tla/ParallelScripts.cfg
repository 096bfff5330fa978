SPECIFICATION Spec
CONSTANTS
    Processes = {p1, p2, p3}
    Files = {hdfs_site, hadoop_env}
    MaxLevel = 2
    None = None
INVARIANTS
    TypeOK
    ArchiveIsWhole
    NothingLeft
    NobodyStuck
PROPERTIES
    OneConfigures
    ProcessesEnd
CHECK_DEADLOCK FALSE
