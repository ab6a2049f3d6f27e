SPECIFICATION Spec
CONSTANTS
    s1 = s1
    s2 = s2
    c1 = c1
    None = None
    Sessions <- MCSessions
    Clients <- MCClients
    ClientOf <- MCClientOf
    IoThreads = 2
    Workers = {w1}
CHECK_DEADLOCK FALSE
INVARIANTS NoLockCycle StarvedOnlyByPublishing OneViewPerClient
PROPERTY ThreadsComeBack
