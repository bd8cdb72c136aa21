\* flush_all between the steps of a get.
SPECIFICATION Spec
CONSTANTS
    k1 = k1  k2 = k2
    i1 = i1  i2 = i2  i3 = i3
    s1 = s1  s2 = s2
    Null = Null
    Keys <- OneKey
    Items <- TwoItems
    Conns <- TwoConns
    Commands = {"set", "get", "flush_all"}
    Values = {1}
    Exptimes = {0}
    Delays = {1}
    FlushDelays = {0}
    Base = 2
    Wrap = 4
    DeleteRoom = 1
    MaxCas = 2
    StartTime = 2
    MaxTime = 5
    UpdateInterval = 1
    RepairAge = 100
    Tries = 2
    MaxRoom = 2
    EvictToFree = TRUE
INVARIANT FlushedStayGone
