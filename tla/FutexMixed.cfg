SPECIFICATION FutexFairSpec
CONSTANTS
    c1 = c1
    e1 = e1
    e2 = e2
    Nobody = Nobody
    NoExecutor = NoExecutor
    Callers = {c1}
    MaxThreads = 2
    Generations = 2
    Ranges <- ReducedJob
    MaxJobs = 2
    JobIdModulus = 4
    Executors = {e1, e2}
    FirstExecutors = {NoExecutor}
INVARIANTS
    NobodyOversleeps
    CallersAreWoken
    RecruitedCount
    FreedWhenUnused
PROPERTIES
    CallsReturn
