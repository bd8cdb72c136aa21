\* The fork fails that waiting slaves are to get their copy from.
SPECIFICATION Spec
CONSTANTS
    None = None
    s1 = s1
    c1 = c1  c2 = c2
    Slaves <- OneSlave
    Conns <- TwoConns
    Dbs = {1}
    Size = 3
    Sizes = {2}
    MaxCmds = 2
    MaxRestarts = 1
    MaxOffset = 1
    SaveFails = TRUE
    ForkFails = TRUE
INVARIANT SoundSlavesFollow
