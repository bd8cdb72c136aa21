\* Expiry, deferred deletes and flush_all while the clock runs; and no get, which
\* could refresh the time of an item that flush_all is to make invisible.
SPECIFICATION Spec
CONSTANTS
    k1 = k1  k2 = k2
    i1 = i1  i2 = i2  i3 = i3
    s1 = s1  s2 = s2
    Null = Null
    Keys <- OneKey
    Items <- TwoItems
    Conns <- TwoConns
    Commands = {"set", "add", "append", "cas", "delete", "delete later", "flush_all"}
    Values = {1}
    Exptimes = {0, 1}
    Delays = {1}
    FlushDelays = {0}
    Base = 2
    Wrap = 4
    DeleteRoom = 1
    MaxCas = 3
    StartTime = 2
    MaxTime = 4
    UpdateInterval = 1
    RepairAge = 100
    Tries = 2
    MaxRoom = 2
    EvictToFree = TRUE
SYMMETRY Symmetry
INVARIANTS DeletedAreQueued FlushedStayGone
PROPERTY DeleteLocked
