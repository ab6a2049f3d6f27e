SPECIFICATION Spec
CONSTANTS
    Adverts <- MCAdverts
    Requests <- MCRequests
    Required <- MCRequired
    FileChunks <- MCFileChunks
    Results <- MCResults
    Cuts = {10}
    None = None
CHECK_DEADLOCK FALSE
INVARIANTS DeliveredInOrder NoMessageStranded
PROPERTIES ServerHearsAbort WritersRest LastChunkSeen
