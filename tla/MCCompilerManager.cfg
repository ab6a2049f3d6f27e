\* Two workers, three sessions, one of which hangs its compiler: every
\* interleaving of two loads and stores of the free-job count with a third
\* request queued behind them.
CONSTANTS
    w1 = w1
    w2 = w2
    s1 = s1
    s2 = s2
    s3 = s3
    Workers = {w1, w2}
    Sessions = {s1, s2, s3}
    NoSession = NoSession
    Verbose = {s3}
    InitialJobs = 8
SPECIFICATION FairSpec
INVARIANTS
    TypeOK
    SlotAccounting
    NoLostWakeup
    IdleAdvertises
    ShutdownDrains
PROPERTIES
    ImplementsCompileService
    EveryRequestServed
    DestructorReturns
\* The destructor ends the system.
CHECK_DEADLOCK FALSE
