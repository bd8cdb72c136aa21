\* A slave goes on from an offset that is not that of its copy.
SPECIFICATION Spec
CONSTANTS
    None = None
    s1 = s1
    c1 = c1  c2 = c2
    Slaves <- OneSlave
    Conns <- TwoConns
    Dbs = {1}
    Size = 3
    Sizes = {2}
    MaxCmds = 2
    MaxRestarts = 1
    MaxOffset = 1
    SaveFails = TRUE
    ForkFails = FALSE
INVARIANT SlavesFollow
