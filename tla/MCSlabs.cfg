CONSTANTS
    power_largest = 2
    perslab <- MCperslab
    page_len <- MCpage_len
    mem_limit = 7
    InitialMalloc = 0
    FirstArray = 1
    MaxPages = 4
    Null = Null
SPECIFICATION Spec
INVARIANTS
    NoSharing
    Conserved
    InRoom
    MemBounded
