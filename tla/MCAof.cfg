\* Commands, rewrites, failing writes, crashes and restarts; the event loop is fair.
SPECIFICATION FairSpec
CONSTANTS
    None = None
    Dbs = {0, 1}
    MaxCmds = 2
    MaxFile = 6
    Policies = {"always", "everysec"}
    Transactions = TRUE
    Pipelined = FALSE
    LoadTruncated = TRUE
    DiskFails = TRUE
    DirtyStop = FALSE
INVARIANTS Recoverable AckedSurvive
PROPERTIES DurableSpec SwitchedOn
