\* A kill in the middle of writing a transaction, and a restart that cuts the file.
SPECIFICATION Spec
CONSTANTS
    None = None
    Dbs = {0, 1}
    MaxCmds = 2
    MaxFile = 6
    Policies = {"everysec"}
    Transactions = TRUE
    Pipelined = FALSE
    LoadTruncated = TRUE
    DiskFails = TRUE
    DirtyStop = FALSE
INVARIANT WholeTransactions
