\* gets and cas against changes in place and in a new item, and deletes.
SPECIFICATION CasSpec
CONSTANTS
    k1 = k1
    i1 = i1  i2 = i2  i3 = i3
    s1 = s1  s2 = s2
    Null = Null
    Keys <- OneKey
    Items <- ThreeItems
    Conns <- TwoConns
    Commands = {"get", "set", "cas", "incr", "delete"}
    Values = {1, 3}
    Exptimes = {0}
    Delays = {1}
    FlushDelays = {0}
    Base = 2
    Wrap = 4
    DeleteRoom = 1
    MaxCas = 4
    StartTime = 2
    MaxTime = 2
    UpdateInterval = 1
    RepairAge = 100
    Tries = 2
    MaxRoom = 3
    EvictToFree = TRUE
SYMMETRY Symmetry
INVARIANT FetchedTogether
PROPERTY CasSound
