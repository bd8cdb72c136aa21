\* Requests one behind another, with a client that may leave at any time.  A
\* client need not send anything more, so the system may stop.
SPECIFICATION FairSpec
CONSTANTS
    Requests <- ServedRequests
    MaxRequests = 3
    DataLen = 2
    BufSize = 2
    HighWat = 3
    ReqsPerEvent = 2
    BufferFails = TRUE
    EventFails = TRUE
CHECK_DEADLOCK FALSE
INVARIANTS RefsHeld Framed InStep Awake
PROPERTY Served
