\* Two servers, one of which may stop; a tick is two seconds: clean-up
\* every tick, entries older than two ticks are erased.
CONSTANTS
    a = a
    b = b
    r1 = r1
    r2 = r2
    Servers = {a, b}
    Reliable = {a}
    Requests = {r1, r2}
    NoServer = NoServer
    MaxJobs = 1
    StaleAfter = 2
    Period = 1
SPECIFICATION FairSpec
INVARIANTS
    ForgottenInTime
    LentWithinAdvert
PROPERTY
    EveryRequestPlaced
