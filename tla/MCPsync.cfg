\* One slave and two connections, through saves, losses, timeouts, a resize and a restart.
SPECIFICATION Spec
CONSTANTS
    None = None
    s1 = s1
    c1 = c1  c2 = c2
    Slaves <- OneSlave
    Conns <- TwoConns
    Dbs = {1}
    Size = 4
    Sizes = {3}
    MaxCmds = 2
    MaxRestarts = 1
    MaxOffset = 1
    SaveFails = TRUE
    ForkFails = FALSE
SYMMETRY Symmetry
INVARIANTS BacklogExact ContinueExact InStep SoundSlavesFollow
