\* A get with a key too long after one that is found.
SPECIFICATION Spec
CONSTANTS
    Requests <- LongKey
    MaxRequests = 1
    DataLen = 2
    BufSize = 2
    HighWat = 3
    ReqsPerEvent = 2
    BufferFails = FALSE
    EventFails = FALSE
CHECK_DEADLOCK FALSE
INVARIANT InStep
