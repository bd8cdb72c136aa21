\* Every command but flush_all and deferred delete, at one time.
SPECIFICATION Spec
CONSTANTS
    k1 = k1  k2 = k2
    i1 = i1  i2 = i2  i3 = i3
    s1 = s1  s2 = s2
    Null = Null
    Keys <- TwoKeys
    Items <- ThreeItems
    Conns <- TwoConns
    Commands <- AllCommands
    Values = {1,2}
    Exptimes = {0}
    Delays = {1}
    FlushDelays = {0}
    Base = 2
    Wrap = 4
    DeleteRoom = 1
    MaxCas = 3
    StartTime = 2
    MaxTime = 2
    UpdateInterval = 3
    RepairAge = 100
    Tries = 2
    MaxRoom = 3
    EvictToFree = TRUE
SYMMETRY Symmetry
INVARIANTS LinkedExactly RefcountExact
PROPERTY StoreSpec
