CONSTANTS
    Keys <- MCKeys
    Hash <- MCHash
    InitBuckets = 2
    MaxBuckets = 8
SPECIFICATION FairSpec
INVARIANTS
    NothingStranded
PROPERTIES
    IndexSpec
    GrowthEnds
