\* Two compilations and a link step; every fault of server and network.
CONSTANTS
    r1 = r1
    r2 = r2
    r3 = r3
    NoRequest = NoRequest
    Nil = Nil
    Garbage = Garbage
    Requests = {r1, r2, r3}
    Links = {r3}
    MayAbort = TRUE
    MayRefuse = TRUE
    MayLose = TRUE
    MayFlood = TRUE
    MayNotStart = TRUE
SPECIFICATION FairSpec
INVARIANTS
    TypeOK
    AnswerIsOwn
    NothingLeaks
    NoOrphanedWait
PROPERTY
    EveryWrapperAnswered
CHECK_DEADLOCK FALSE
