CONSTANTS
    s1 = s1
    s2 = s2
    f1 = f1
    f2 = f2
    v1 = v1
    v2 = v2
    Sessions = {s1, s2}
    Files = {f1, f2}
    Versions = {v1, v2}
    FirstVersion = v1
    Chunks <- TwoChunksFirst
    Exact = {}
    ObjectTails = {TRUE}
    Hole = Hole
    NoFile = NoFile
    PoolSize = 1
    MaxEdits = 0
    MaxDisconnects = 0
SPECIFICATION FairSpec
INVARIANTS
    SoleUploaderIsCompiled
    UploadHasOwner
    RequesterOutlivesJob
PROPERTIES
    EverySessionConcludes
CHECK_DEADLOCK FALSE
