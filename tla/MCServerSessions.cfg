CONSTANTS
    s1 = s1
    s2 = s2
    f1 = f1
    f2 = f2
    v1 = v1
    v2 = v2
    Sessions = {s1, s2}
    Files = {f1, f2}
    Versions = {v1, v2}
    FirstVersion = v1
    Chunks <- OneChunkFirst
    Exact = {}
    ObjectTails = {TRUE, FALSE}
    Hole = Hole
    NoFile = NoFile
    PoolSize = 1
    MaxEdits = 1
    MaxDisconnects = 1
SYMMETRY MCSymmetry
SPECIFICATION Spec
INVARIANTS
    TypeOK
    NoForgottenSession
PROPERTIES
    PoolContract
CHECK_DEADLOCK FALSE
