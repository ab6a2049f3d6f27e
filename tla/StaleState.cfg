\* One edit between two sessions that need the same file.
CONSTANTS
    s1 = s1
    s2 = s2
    f1 = f1
    f2 = f2
    v1 = v1
    v2 = v2
    Sessions = {s1, s2}
    Files = {f1}
    Versions = {v1, v2}
    FirstVersion = v1
    Chunks <- SameSize
    Exact = {}
    ObjectTails = {TRUE}
    Hole = Hole
    NoFile = NoFile
    PoolSize = 1
    MaxEdits = 1
    MaxDisconnects = 0
SPECIFICATION Spec
INVARIANT
    FileStateIsDeclared
CHECK_DEADLOCK FALSE
