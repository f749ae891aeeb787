SPECIFICATION FutexFairSpec
CONSTANTS
    c1 = c1
    Nobody = Nobody
    NoExecutor = NoExecutor
    Callers = {c1}
    MaxThreads = 3
    Generations = 1
    Ranges <- EveryJob
    MaxJobs = 2
    JobIdModulus = 4
    Executors = {}
    FirstExecutors = {NoExecutor}
INVARIANTS
    FutexTypeOK
    NobodyOversleeps
PROPERTIES
    CallsReturn
