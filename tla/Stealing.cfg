SPECIFICATION FastFairSpec
CONSTANTS
    MaxThreads = 3
    Ranges <- MCRanges
    NoItem = NoItem
    SizeModulus = 9
INVARIANTS
    TypeOK
    FastAccounting
    ItemsOnce
    NothingLost
PROPERTIES
    ImplementsLoop
    JobEnds
