\* One session, one file whose size is a multiple of 64 KiB.
CONSTANTS
    s1 = s1
    s2 = s2
    f1 = f1
    f2 = f2
    v1 = v1
    v2 = v2
    Sessions = {s1}
    Files = {f1}
    Versions = {v1, v2}
    FirstVersion = v1
    Chunks <- OneChunkFirst
    Exact = {v1}
    ObjectTails = {TRUE}
    Hole = Hole
    NoFile = NoFile
    PoolSize = 1
    MaxEdits = 0
    MaxDisconnects = 0
SPECIFICATION FairSpec
PROPERTY
    FallsBackLocally
CHECK_DEADLOCK FALSE
