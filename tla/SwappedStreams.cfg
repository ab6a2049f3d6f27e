SPECIFICATION Spec
CONSTANTS
    Base = 4
    Suffix <- MCSuffix
    Begins <- MCBegins
    SupportedCompilers <- MCCompilers
    ServerDir <- MCServerDir
    ObjStore <- MCObjStore
    Calls <- MCCalls
    Verbose <- MCVerbose
    Cwd <- MCCwd
    Text <- MCText
    Files <- MCFiles
    Headers <- MCHeaders
    Spelling <- MCSpelling
    Installed <- MCInstalled
    ExitCodes = {0, 1, 2}
    Output <- MCOutput
    Cuts = {3, 9}
    Starts = 2
    None = None
CHECK_DEADLOCK FALSE
INVARIANT StreamsInPlace
