SPECIFICATION FairSpec
CONSTANTS
    Shapes <- MCShapes
    MaxThreads = 3
    CpuUarchs <- MCUarchs
    DefaultUarch = 3
    MaxUarch = 1
    SizeModulus = 64
    NoCall = NoCall
INVARIANTS
    LoopTypeOK
    WalkInStep
    ChunkAccounting
    CallsKeepContract
    CellsOnce
    GridDone
PROPERTIES
    CallEnds
