\* Two commands in one turn of the event loop, the first with its reply due.
SPECIFICATION Spec
CONSTANTS
    None = None
    Dbs = {0}
    MaxCmds = 2
    MaxFile = 6
    Policies = {"always"}
    Transactions = FALSE
    Pipelined = TRUE
    LoadTruncated = TRUE
    DiskFails = FALSE
    DirtyStop = FALSE
INVARIANT AckedSurvive
