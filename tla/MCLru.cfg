\* Four items, a search that can give up, and every limit of a flush or repair.
\* After the last change of the bound the system stops.
SPECIFICATION LruSpec
CONSTANTS
    i1 = i1  i2 = i2  i3 = i3  i4 = i4
    Items <- MCItems
    Null = Null
    Tries = 2
    MaxTime = 6
SYMMETRY Symmetry
CHECK_DEADLOCK FALSE
INVARIANTS Chained InOrder WalkInQueue
PROPERTIES EvictsOldest FlushTakesAll
