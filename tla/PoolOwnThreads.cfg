SPECIFICATION FairSpec
CONSTANTS
    c1 = c1
    c2 = c2
    Nobody = Nobody
    NoExecutor = NoExecutor
    Callers = {c1, c2}
    MaxThreads = 3
    Generations = 1
    Ranges <- EveryJob
    MaxJobs = 2
    JobIdModulus = 4
    Executors = {}
    FirstExecutors = {NoExecutor}
INVARIANTS
    UniqueThreadIds
    JobIdsGrow
PROPERTIES
    ImplementsContract
    CallsReturn
